---------------------------- MODULE WatcherProofs ----------------------------
(***************************************************************************)
(* Proofs about Watcher, for any templates, dependencies, queue capacities *)
(* and number of view objects: views are accounted for, wait misses a      *)
(* notifier only while it is deregistered, no template is left behind the  *)
(* cache, and Complete is not reported for an evaluation that lacked a     *)
(* value.                                                                  *)
(***************************************************************************)
EXTENDS Watcher, TLAPS

Asking == {"lookup", "add", "recall", "accessed", "poll"}

\* What the goroutines have in hand.
PcInv ==
    /\ wpc \in {"save", "lookup", "notify"} => wview # None
    /\ \A n \in Notifiers : rpc[n] \in Asking =>
          rdep[n] \in Deps /\ rdep[n] \in asked[n]
    /\ cpc \in {"signal", "reset"} => halted

\* Who may name notifiers that are not registered: the table, between the two
\* halves of Deregister.
RegInv ==
    /\ \A n \in Notifiers : rpc[n] # "idle" => n \in notifiers
    /\ \A tp \in tracked :
          \/ tp.notify \in notifiers
          \/ cpc \in {"mark", "sweep"} /\ tp.notify = ctarget
    /\ cpc \in {"mark", "sweep"} => ctarget \in Notifiers \ notifiers
    /\ cpc = "sweep" =>
          \A tp \in tracked : tp.notify = ctarget => ~tp.mark

\* The evaluation of n has come as far as tracking d, and as recalling d.
Reached(n, d) ==
    d \in asked[n] /\ ~(rdep[n] = d /\ rpc[n] \in {"lookup", "add"})
Recalled(n, d) ==
    d \in asked[n] /\ ~(rdep[n] = d /\ rpc[n] \in {"lookup", "add", "recall"})

\* What a template has used stays tracked until its next evaluation, and is
\* marked as used until its next run.
TrackInv ==
    /\ \A n \in Notifiers : rpc[n] \in {"lookup", "add"} =>
          \A tp \in tracked : Of(n, rdep[n], tp) => tp.mark
    /\ \A n \in notifiers, d \in Deps : Reached(n, d) =>
          \E tp \in tracked :
             /\ Of(n, d, tp)
             /\ rpc[n] \in Asking \cup {"eval", "sweep"} => tp.mark

\* What is delivered is a value.
DataInv ==
    /\ \A v \in Views : vstate[v] = "ready" => vdata[v] # None
    /\ \A i \in 1..Len(dataCh) : vdata[dataCh[i]] # None
    /\ wpc = "save" => wdata # None

\* A value that was used is in the cache as long as it is tracked, and the
\* template got it.
AccessInv ==
    ~halted =>
      /\ \A tp \in tracked : tp.cacheAccessed =>
           /\ cache[tp.view] # None
           /\ Recalled(tp.notify, tp.view) => got[tp.notify][tp.view] # None
      /\ \A n \in Notifiers : rpc[n] = "accessed" =>
           cache[rdep[n]] # None /\ got[n][rdep[n]] # None

\* The last evaluation of n was given what is in the cache now, or n is going
\* to be evaluated again.
LastGotIsFresh ==
    \A tp \in tracked :
        LET n == tp.notify
            d == tp.view
        IN  Recalled(n, d) /\ ~halted /\ wpc # "panic"
              => got[n][d] = cache[d] \/ dirty[n] \/ AboutToNotify(n, d)

\* Without errors, what was rendered is what was got.
RenderInv ==
    ~MayFail =>
      \A n \in Notifiers : rpc[n] \in {"idle", "execute", "sweep", "complete"} =>
         rendered[n] = got[n]

Ind == /\ TypeOK /\ PcInv /\ ViewsAccounted /\ RegInv /\ TrackInv
       /\ DataInv /\ AccessInv /\ LastGotIsFresh /\ RenderInv

-----------------------------------------------------------------------------
(* The tracker's table.                                                    *)

SameUse(tp, tq) == tp.view = tq.view /\ tp.notify = tq.notify

\* markInUse marks the pairs of n and d, and changes nothing else.
LEMMA MarkInUsePairs ==
    ASSUME NEW t \in SUBSET Pairs, NEW n \in Notifiers, NEW d \in Deps
    PROVE  /\ MarkInUse(t, n, d) \in SUBSET Pairs
           /\ \A tp \in t : \E tq \in MarkInUse(t, n, d) :
                /\ SameUse(tp, tq) /\ tq.cacheAccessed = tp.cacheAccessed
                /\ tq.mark <=> tp.mark \/ Of(n, d, tp)
           /\ \A tq \in MarkInUse(t, n, d) : \E tp \in t :
                /\ SameUse(tp, tq) /\ tq.cacheAccessed = tp.cacheAccessed
                /\ tq.mark <=> tp.mark \/ Of(n, d, tp)
<1> DEFINE f(tp) == IF Of(n, d, tp) THEN [tp EXCEPT !.mark = TRUE] ELSE tp
<1>1. ASSUME NEW tp \in t
      PROVE  /\ f(tp) \in Pairs /\ SameUse(tp, f(tp))
             /\ f(tp).cacheAccessed = tp.cacheAccessed
             /\ f(tp).mark <=> tp.mark \/ Of(n, d, tp)
  BY DEF Pairs, SameUse
<1>2. MarkInUse(t, n, d) = {f(tp) : tp \in t}
  BY DEF MarkInUse
<1> HIDE DEF f
<1>3. QED
  BY <1>1, <1>2

\* cacheAccessed touches the pairs of n and d only.
LEMMA AccessedPairs ==
    ASSUME NEW t \in SUBSET Pairs, NEW n \in Notifiers, NEW d \in Deps
    PROVE  /\ CacheAccessed(t, n, d) \in SUBSET Pairs
           /\ \A tp \in t : \E tq \in CacheAccessed(t, n, d) :
                /\ SameUse(tp, tq) /\ tq.mark = tp.mark
           /\ \A tq \in CacheAccessed(t, n, d) : \E tp \in t :
                /\ SameUse(tp, tq) /\ tq.mark = tp.mark
                /\ tq.cacheAccessed <=> tp.cacheAccessed \/ Of(n, d, tp)
<1> DEFINE f(tp) ==
      IF Of(n, d, tp) THEN [tp EXCEPT !.cacheAccessed = TRUE] ELSE tp
<1>1. ASSUME NEW tp \in t
      PROVE  /\ f(tp) \in Pairs /\ SameUse(tp, f(tp)) /\ f(tp).mark = tp.mark
             /\ f(tp).cacheAccessed <=> tp.cacheAccessed \/ Of(n, d, tp)
  BY DEF Pairs, SameUse
<1>2. CacheAccessed(t, n, d) = {f(tp) : tp \in t}
  BY DEF CacheAccessed
<1> HIDE DEF f
<1>3. QED
  BY <1>1, <1>2

\* markForSweep unmarks the pairs of n, and changes nothing else.
LEMMA ForSweepPairs ==
    ASSUME NEW t \in SUBSET Pairs, NEW n \in Notifiers
    PROVE  /\ MarkForSweep(t, n) \in SUBSET Pairs
           /\ \A tp \in t : \E tq \in MarkForSweep(t, n) :
                /\ SameUse(tp, tq)
                /\ tq.mark <=> tp.mark /\ tp.notify # n
           /\ \A tq \in MarkForSweep(t, n) : \E tp \in t :
                /\ SameUse(tp, tq) /\ tq.cacheAccessed = tp.cacheAccessed
                /\ tq.mark <=> tp.mark /\ tp.notify # n
<1> DEFINE f(tp) == IF tp.notify = n THEN [tp EXCEPT !.mark = FALSE] ELSE tp
<1>1. ASSUME NEW tp \in t
      PROVE  /\ f(tp) \in Pairs /\ SameUse(tp, f(tp))
             /\ f(tp).cacheAccessed = tp.cacheAccessed
             /\ f(tp).mark <=> tp.mark /\ tp.notify # n
  BY DEF Pairs, SameUse
<1>2. MarkForSweep(t, n) = {f(tp) : tp \in t}
  BY DEF MarkForSweep
<1> HIDE DEF f
<1>3. QED
  BY <1>1, <1>2

\* add appends one pair, marked, that has not accessed the cache.
LEMMA AddedPair ==
    ASSUME NEW t \in SUBSET Pairs, NEW n \in Notifiers, NEW d \in Deps
    PROVE  \E tp \in Pairs :
             /\ Of(n, d, tp) /\ tp.mark /\ ~tp.cacheAccessed
             /\ AddPair(t, n, d) = t \cup {tp}
BY DEF AddPair, Pairs, Of

-----------------------------------------------------------------------------
(* Views, queues and sweeps.                                               *)

\* A view object stands for a dependency.
LEMMA DepOfType == \A v \in Views : DepOf(v) \in Deps
BY DEF Views, DepOf

\* dataCh after a view has delivered.
LEMMA AppendType ==
    ASSUME NEW S, NEW s \in Seq(S), NEW x \in S
    PROVE  /\ Append(s, x) \in Seq(S) /\ Len(Append(s, x)) = Len(s) + 1
           /\ Append(s, x) # << >>
           /\ \A i \in 1..Len(Append(s, x)) :
                Append(s, x)[i] = x \/ \E j \in 1..Len(s) : Append(s, x)[i] = s[j]
<1>1. /\ Append(s, x) \in Seq(S) /\ Len(Append(s, x)) = Len(s) + 1
      /\ Append(s, x) # << >> /\ Len(s) \in Nat
  OBVIOUS
<1>2. ASSUME NEW i \in 1..Len(Append(s, x))
      PROVE  Append(s, x)[i] = x \/ \E j \in 1..Len(s) : Append(s, x)[i] = s[j]
  <2>1. i \in 1..Len(s) \/ i = Len(s) + 1
    BY <1>1
  <2>2. QED
    BY <2>1
<1>3. QED
  BY <1>1, <1>2

\* dataCh after Wait has received.
LEMMA HeadTailType ==
    ASSUME NEW S, NEW s \in Seq(S), s # << >>
    PROVE  /\ Head(s) \in S /\ Tail(s) \in Seq(S) /\ Len(Tail(s)) = Len(s) - 1
           /\ Head(s) = s[1] /\ 1 \in 1..Len(s)
           /\ \A i \in 1..Len(Tail(s)) : \E j \in 1..Len(s) : Tail(s)[i] = s[j]
<1>1. /\ Head(s) \in S /\ Tail(s) \in Seq(S) /\ Len(Tail(s)) = Len(s) - 1
      /\ Head(s) = s[1] /\ 1 \in 1..Len(s) /\ Len(s) \in Nat
  OBVIOUS
<1>2. ASSUME NEW i \in 1..Len(Tail(s))
      PROVE  \E j \in 1..Len(s) : Tail(s)[i] = s[j]
  <2>1. i + 1 \in 1..Len(s) /\ Tail(s)[i] = s[i + 1]
    BY <1>1
  <2>2. QED
    BY <2>1
<1>3. QED
  BY <1>1, <1>2

\* A new view object is one of its dependency that nobody uses.
LEMMA NewViewIsUnused ==
    ASSUME NEW d \in Deps, NEW v \in Views, v = NewView(d)
    PROVE  DepOf(v) = d /\ Garbage(v)
<1> DEFINE unused == {w \in Views : DepOf(w) = d /\ Garbage(w)}
<1>1. unused # {}
  BY NoneAssumption DEF NewView
<1>2. v = CHOOSE w \in unused : TRUE
  BY <1>1 DEF NewView
<1>3. v \in unused
  BY <1>1, <1>2
<1>4. QED
  BY <1>3

\* Poll sets a view that is new or has failed to polling, and no other.
LEMMA PolledState ==
    ASSUME TypeOK, NEW v \in Views \cup {None}
    PROVE  /\ Polled(v) \in [Views -> {"free", "new", "polling", "ready",
                                       "failed"}]
           /\ \A w \in Views :
                \/ Polled(v)[w] = vstate[w]
                \/ Polled(v)[w] = "polling" /\ vstate[w] \in {"new", "failed"}
BY NoneAssumption DEF Polled, TypeOK

\* A sweep keeps views and values of what is still tracked, and stops the
\* views that it deletes.
LEMMA SweepFacts ==
    ASSUME TypeOK, NEW n \in Notifiers, SweepEffect(n)
    PROVE  /\ tracked' = Kept(tracked, n) /\ tracked' \subseteq tracked
           /\ views' \in [Deps -> Views \cup {None}]
           /\ stopped' \in [Views -> BOOLEAN]
           /\ cache' \in [Deps -> Values]
           /\ \A tp \in tracked' : views'[tp.view] = views[tp.view]
                                   /\ cache'[tp.view] = cache[tp.view]
           /\ \A d \in Deps : views'[d] # None =>
                views'[d] = views[d] /\ \E tp \in tracked' : tp.view = d
           /\ \A v \in Views : stopped'[v] <=>
                stopped[v] \/ (views[DepOf(v)] = v /\ views'[DepOf(v)] # v)
<1> DEFINE used  == Used(Kept(tracked, n))
           swept == {d \in Deps : views[d] # None /\ d \notin used}
<1>1. /\ tracked' = Kept(tracked, n)
      /\ views' = [d \in Deps |-> IF d \in swept THEN None ELSE views[d]]
      /\ stopped' = [v \in Views |->
                       stopped[v] \/ \E d \in swept : views[d] = v]
      /\ cache' = [d \in Deps |-> IF d \in swept THEN None ELSE cache[d]]
  BY DEF SweepEffect
<1>2. tracked' \subseteq tracked
  BY <1>1 DEF Kept
<1>3. \A tp \in tracked' : tp.view \in Deps /\ tp.view \notin swept
  BY <1>1, <1>2 DEF Used, TypeOK, Pairs
<1>4. \A d \in Deps : d \in used => \E tp \in tracked' : tp.view = d
  BY <1>1 DEF Used
<1>5. /\ stopped' \in [Views -> BOOLEAN]
      /\ \A v \in Views : stopped'[v] <=>
                             stopped[v] \/ \E d \in swept : views[d] = v
  BY <1>1 DEF TypeOK
<1>6. /\ views' \in [Deps -> Views \cup {None}]
      /\ cache' \in [Deps -> Values]
      /\ \A d \in Deps : /\ views'[d] = IF d \in swept THEN None ELSE views[d]
                         /\ cache'[d] = IF d \in swept THEN None ELSE cache[d]
  BY <1>1 DEF TypeOK, Values
<1>7. ASSUME NEW v \in Views
      PROVE  (\E d \in swept : views[d] = v)
               <=> views[DepOf(v)] = v /\ views'[DepOf(v)] # v
  <2>1. \A d \in Deps : views[d] = v => d = DepOf(v)
    BY NoneAssumption DEF TypeOK
  <2>2. v # None /\ DepOf(v) \in Deps /\ swept \subseteq Deps
    BY NoneAssumption, DepOfType
  <2> HIDE DEF used, swept
  <2>3. ASSUME NEW d \in swept, views[d] = v
        PROVE  views[DepOf(v)] = v /\ views'[DepOf(v)] # v
    BY <1>6, <2>1, <2>2, <2>3
  <2>4. ASSUME views[DepOf(v)] = v, views'[DepOf(v)] # v
        PROVE  \E d \in swept : views[d] = v
    BY <1>6, <2>2, <2>4
  <2>5. QED
    BY <2>3, <2>4
<1>8. \A d \in Deps : views'[d] # None => views'[d] = views[d] /\ d \in used
  BY <1>6
<1> HIDE DEF used, swept
<1>9. QED
  BY <1>1, <1>2, <1>3, <1>4, <1>5, <1>6, <1>7, <1>8

-----------------------------------------------------------------------------
(* Types, and what the goroutines have in hand.                            *)

\* A new watcher satisfies the invariant.
LEMMA InitInd == Init => Ind
<1> SUFFICES ASSUME Init PROVE Ind
  OBVIOUS
<1> USE NoneAssumption, WatcherAssumption DEF Init, Nothing
<1>1. TypeOK
  <2>1. Nothing \in [Deps -> Values] /\ 0 \in Versions
    BY DEF Versions, Values
  <2> HIDE DEF Nothing
  <2>2. /\ got \in [Notifiers -> [Deps -> Values]]
        /\ rendered \in [Notifiers -> [Deps -> Values]]
        /\ cache \in [Deps -> Values]
    BY <2>1
  <2>3. /\ vdata \in [Views -> Values] /\ wdata \in Values
        /\ truth \in [Deps -> Versions]
    BY <2>1 DEF Values
  <2>4. dataCh \in Seq(Views) /\ Len(dataCh) <= Cap
    OBVIOUS
  <2>5. QED
    BY <2>2, <2>3, <2>4 DEF TypeOK
<1>2. PcInv /\ ViewsAccounted /\ RegInv /\ TrackInv
  BY DEF PcInv, ViewsAccounted, RegInv, TrackInv, Asking, Reached
<1>3. DataInv /\ AccessInv /\ LastGotIsFresh /\ RenderInv
  BY DEF DataInv, AccessInv, LastGotIsFresh, RenderInv
<1>4. QED
  BY <1>1, <1>2, <1>3 DEF Ind

\* Every step keeps the types.
LEMMA TypeStep ==
    ASSUME TypeOK, PcInv, ViewsAccounted, RegInv, [Next]_vars
    PROVE  TypeOK'
<1> USE NoneAssumption, WatcherAssumption, DepOfType
    DEF TypeOK, vars, upstream, trackerVars, viewVars, waitVars,
        resolverVars, templateVars, controlVars, Goto
<1>1. ASSUME NEW d \in Deps, Change(d) PROVE TypeOK'
  BY <1>1 DEF Change, Versions
<1>2. ASSUME NEW v \in Views, ViewFetch(v) PROVE TypeOK'
  BY <1>2 DEF ViewFetch, Values
<1>3. ASSUME NEW v \in Views, ViewDeliver(v) PROVE TypeOK'
  <2>1. dataCh' \in Seq(Views) /\ Len(dataCh') <= Cap
    BY <1>3, AppendType DEF ViewDeliver
  <2>2. QED
    BY <1>3, <2>1 DEF ViewDeliver
<1>4. ASSUME NEW v \in Views, ViewEnds(v) \/ ViewGivesUp(v) PROVE TypeOK'
  <2>1. CASE ViewEnds(v)
    BY <2>1 DEF ViewEnds
  <2>2. CASE ViewGivesUp(v)
    BY <2>2 DEF ViewGivesUp
  <2>3. QED
    BY <1>4, <2>1, <2>2
<1>5. CASE WaitEnter \/ WaitStopped \/ WaitLeave
  BY <1>5 DEF WaitEnter, WaitStopped, WaitLeave
<1>6. CASE WaitReceive
  <2>1. dataCh' \in Seq(Views) /\ Len(dataCh') <= Cap /\ Head(dataCh) \in Views
    BY <1>6, HeadTailType DEF WaitReceive
  <2>2. QED
    BY <1>6, <2>1 DEF WaitReceive
<1>7. CASE WaitSave
  BY <1>7 DEF WaitSave, Values, PcInv
<1>8. CASE WaitLookup
  <2>1. NotifiersFor(tracked, DepOf(wview)) \subseteq Notifiers
    BY DEF NotifiersFor, Pairs
  <2>2. QED
    BY <1>8, <2>1 DEF WaitLookup
<1>9. ASSUME NEW n \in Notifiers, WaitNotify(n) PROVE TypeOK'
  BY <1>9 DEF WaitNotify
<1>10. CASE WaitNotified
  <2>1. CASE dataCh # << >>
    <3>1. dataCh' \in Seq(Views) /\ Len(dataCh') <= Cap /\ Head(dataCh) \in Views
      <4>1. dataCh' = Tail(dataCh)
        BY <1>10, <2>1 DEF WaitNotified
      <4>2. QED
        BY <2>1, <4>1, HeadTailType
    <3>2. QED
      BY <1>10, <2>1, <3>1 DEF WaitNotified
  <2>2. CASE dataCh = << >>
    BY <1>10, <2>2 DEF WaitNotified
  <2>3. QED
    BY <2>1, <2>2
<1>11. ASSUME NEW n \in Notifiers, RunMark(n) PROVE TypeOK'
  BY <1>11, ForSweepPairs DEF RunMark
<1>12. ASSUME NEW n \in Notifiers, Execute(n) PROVE TypeOK'
  BY <1>12 DEF Execute, Nothing, Values
<1>13. ASSUME NEW n \in Notifiers, NEW d \in Deps, Ask(n, d) PROVE TypeOK'
  <2>1. tracked' \subseteq Pairs
    BY <1>13, MarkInUsePairs DEF Ask
  <2>2. QED
    BY <1>13, <2>1 DEF Ask
<1>14. ASSUME NEW n \in Notifiers, TrackLookup(n) PROVE TypeOK'
  BY <1>14 DEF TrackLookup
<1>15. ASSUME NEW n \in Notifiers, TrackAdd(n) PROVE TypeOK'
  <2>1. rdep[n] \in Deps
    BY <1>15 DEF TrackAdd, PcInv, Asking
  <2>2. tracked' \subseteq Pairs
    <3> DEFINE new == [view |-> rdep[n], notify |-> n, mark |-> TRUE,
                       cacheAccessed |-> FALSE]
    <3>1. new \in Pairs
      BY <2>1 DEF Pairs
    <3>2. tracked' = tracked \cup {new}
      BY <1>15 DEF TrackAdd, AddPair
    <3> HIDE DEF new
    <3>3. QED
      BY <3>1, <3>2
  <2>3. CASE views[rdep[n]] # None
    BY <1>15, <2>2, <2>3 DEF TrackAdd
  <2>4. CASE views[rdep[n]] = None
    <3>1. PICK v \in Views :
            /\ v = NewView(rdep[n])
            /\ views' = [views EXCEPT ![rdep[n]] = v]
            /\ vstate' = [vstate EXCEPT ![v] = "new"]
            /\ stopped' = [stopped EXCEPT ![v] = FALSE]
            /\ vdata' = [vdata EXCEPT ![v] = None]
      BY <1>15, <2>4 DEF TrackAdd
    <3>2. DepOf(v) = rdep[n]
      BY <2>1, <3>1, NewViewIsUnused
    <3>3. /\ views' \in [Deps -> Views \cup {None}]
          /\ \A d \in Deps : views'[d] # None => DepOf(views'[d]) = d
      BY <2>1, <3>1, <3>2
    <3>4. /\ vdata' \in [Views -> Values] /\ stopped' \in [Views -> BOOLEAN]
          /\ vstate' \in [Views -> {"free", "new", "polling", "ready", "failed"}]
      BY <3>1 DEF Values
    <3>5. QED
      BY <1>15, <2>2, <3>3, <3>4 DEF TrackAdd
  <2>5. QED
    BY <2>3, <2>4
<1>16. ASSUME NEW n \in Notifiers, Recall(n) PROVE TypeOK'
  <2>1. rdep[n] \in Deps
    BY <1>16 DEF Recall, PcInv, Asking
  <2>2. QED
    BY <1>16, <2>1 DEF Recall
<1>17. ASSUME NEW n \in Notifiers, RecallHit(n) PROVE TypeOK'
  <2>1. rdep[n] \in Deps
    BY <1>17 DEF RecallHit, PcInv, Asking
  <2>2. tracked' \subseteq Pairs
    BY <1>17, <2>1, AccessedPairs DEF RecallHit
  <2>3. QED
    BY <1>17, <2>2 DEF RecallHit
<1>18. ASSUME NEW n \in Notifiers, RecallMiss(n) PROVE TypeOK'
  <2>1. rdep[n] \in Deps
    BY <1>18 DEF RecallMiss, PcInv, Asking
  <2>2. vstate' \in [Views -> {"free", "new", "polling", "ready", "failed"}]
    BY <1>18, <2>1, PolledState DEF RecallMiss
  <2>3. QED
    BY <1>18, <2>2 DEF RecallMiss
<1>19. ASSUME NEW n \in Notifiers, Rendered(n) \/ RenderFails(n) \/ Return(n)
       PROVE  TypeOK'
  <2>1. CASE Rendered(n)
    BY <2>1 DEF Rendered
  <2>2. CASE RenderFails(n)
    BY <2>2 DEF RenderFails
  <2>3. CASE Return(n)
    BY <2>3 DEF Return
  <2>4. QED
    BY <1>19, <2>1, <2>2, <2>3
<1>20. ASSUME NEW n \in Notifiers, SweepEffect(n)
       PROVE  /\ tracked' \subseteq Pairs
              /\ views' \in [Deps -> Views \cup {None}]
              /\ \A d \in Deps : views'[d] # None => DepOf(views'[d]) = d
              /\ stopped' \in [Views -> BOOLEAN]
              /\ cache' \in [Deps -> Values]
  <2>1. /\ tracked' \subseteq tracked
        /\ views' \in [Deps -> Views \cup {None}]
        /\ \A d \in Deps : views'[d] # None => views'[d] = views[d]
        /\ stopped' \in [Views -> BOOLEAN]
        /\ cache' \in [Deps -> Values]
    BY <1>20, SweepFacts
  <2>2. QED
    BY <2>1
<1>21. ASSUME NEW n \in Notifiers, Sweep(n) PROVE TypeOK'
  BY <1>21, <1>20 DEF Sweep
<1>22. ASSUME NEW n \in Notifiers, Deregister(n) PROVE TypeOK'
  BY <1>22 DEF Deregister
<1>23. CASE DeregisterMark
  <2>1. ctarget \in Notifiers
    BY <1>23 DEF DeregisterMark, RegInv
  <2>2. tracked' \subseteq Pairs
    BY <1>23, <2>1, ForSweepPairs DEF DeregisterMark
  <2>3. QED
    BY <1>23, <2>2 DEF DeregisterMark
<1>24. CASE DeregisterSweep
  <2>1. \E n \in Notifiers : n = ctarget /\ SweepEffect(n)
    BY <1>24 DEF DeregisterSweep, RegInv
  <2>2. QED
    BY <1>24, <1>20, <2>1 DEF DeregisterSweep
<1>25. CASE StopViews
  BY <1>25 DEF StopViews
<1>26. CASE StopSignal \/ StopReset
  <2>1. CASE StopSignal
    BY <2>1 DEF StopSignal
  <2>2. CASE StopReset
    <3>1. cache' \in [Deps -> Values]
      BY <2>2 DEF StopReset, Nothing, Values
    <3>2. QED
      BY <2>2, <3>1 DEF StopReset
  <2>3. QED
    BY <1>26, <2>1, <2>2
<1>27. CASE UNCHANGED vars
  BY <1>27
<1>28. QED
  BY <1>1, <1>2, <1>3, <1>4, <1>5, <1>6, <1>7, <1>8, <1>9, <1>10, <1>11,
     <1>12, <1>13, <1>14, <1>15, <1>16, <1>17, <1>18, <1>19, <1>21, <1>22,
     <1>23, <1>24, <1>25, <1>26, <1>27
     DEF Next, ViewStep, WaitStep, RunStep, ControlStep

\* Every step keeps what the goroutines have in hand.
LEMMA PcStep ==
    ASSUME TypeOK, PcInv, [Next]_vars
    PROVE  PcInv'
<1> USE NoneAssumption
    DEF TypeOK, vars, upstream, trackerVars, viewVars, waitVars,
        resolverVars, templateVars, controlVars, Goto
<1>1. wpc' \in {"save", "lookup", "notify"} => wview' # None
  <2>1. CASE WaitReceive \/ WaitNotified
    BY <2>1, HeadTailType DEF WaitReceive, WaitNotified, PcInv
  <2>2. CASE wpc' \in {"save", "lookup", "notify"} =>
               wpc \in {"save", "lookup", "notify"} /\ wview' = wview
    BY <2>2 DEF PcInv
  <2>3. QED
    BY <2>1, <2>2
       DEF Next, Change, ViewStep, ViewFetch, ViewDeliver, ViewEnds,
           ViewGivesUp, WaitEnter, WaitLeave, WaitStep, WaitStopped, WaitSave,
           WaitLookup, WaitNotify, RunMark, RunStep, Execute, TrackLookup,
           TrackAdd, Recall, RecallHit, RecallMiss, Rendered, RenderFails,
           Sweep, Return, Ask, ControlStep, Deregister, DeregisterMark,
           DeregisterSweep, StopViews, StopSignal, StopReset
<1>2. ASSUME NEW m \in Notifiers, rpc'[m] \in Asking
      PROVE  rdep'[m] \in Deps /\ rdep'[m] \in asked'[m]
  <2>1. CASE UNCHANGED <<rpc, rdep, asked>>
    BY <1>2, <2>1 DEF PcInv
  <2>2. ASSUME NEW n \in Notifiers, RunMark(n) \/ RunStep(n)
        PROVE  rdep'[m] \in Deps /\ rdep'[m] \in asked'[m]
    <3>1. CASE m # n
      <4>1. /\ rpc'[m] = rpc[m] /\ rdep'[m] = rdep[m] /\ asked'[m] = asked[m]
        BY <2>2, <3>1
           DEF RunMark, RunStep, Execute, TrackLookup, TrackAdd, Recall,
               RecallHit, RecallMiss, Rendered, RenderFails, Sweep, Return, Ask
      <4>2. QED
        BY <1>2, <4>1 DEF PcInv
    <3>2. CASE m = n /\ \E d \in Deps : Ask(n, d)
      BY <3>2 DEF Ask
    <3>3. CASE m = n /\ (TrackLookup(n) \/ TrackAdd(n) \/ Recall(n))
      BY <3>3 DEF TrackLookup, TrackAdd, Recall, PcInv, Asking
    <3>4. CASE m = n /\ rpc'[n] \in {"idle", "execute", "eval", "sweep",
                                     "complete"}
      BY <1>2, <3>4 DEF Asking
    <3>5. QED
      BY <2>2, <3>1, <3>2, <3>3, <3>4
         DEF RunMark, RunStep, Execute, RecallHit, RecallMiss, Rendered,
             RenderFails, Sweep, Return
  <2>3. QED
    BY <2>1, <2>2
       DEF Next, Change, ViewStep, ViewFetch, ViewDeliver, ViewEnds,
           ViewGivesUp, WaitEnter, WaitLeave, WaitStep, WaitStopped,
           WaitReceive, WaitSave, WaitLookup, WaitNotify, WaitNotified,
           ControlStep, Deregister, DeregisterMark, DeregisterSweep,
           StopViews, StopSignal, StopReset
<1>3. cpc' \in {"signal", "reset"} => halted'
  <2>1. CASE UNCHANGED <<cpc, halted>>
    BY <2>1 DEF PcInv
  <2>2. CASE ControlStep
    BY <2>2 DEF ControlStep, Deregister, DeregisterMark, DeregisterSweep,
                StopViews, StopSignal, StopReset, PcInv
  <2>3. QED
    BY <2>1, <2>2
       DEF Next, Change, ViewStep, ViewFetch, ViewDeliver, ViewEnds,
           ViewGivesUp, WaitEnter, WaitLeave, WaitStep, WaitStopped,
           WaitReceive, WaitSave, WaitLookup, WaitNotify, WaitNotified,
           RunMark, RunStep, Execute, TrackLookup, TrackAdd, Recall,
           RecallHit, RecallMiss, Rendered, RenderFails, Sweep, Return, Ask
<1>4. QED
  BY <1>1, <1>2, <1>3 DEF PcInv

-----------------------------------------------------------------------------
(* Steps by what they do to the table.                                     *)

\* These steps keep who uses what.
Remarks ==
    \/ \E n \in Notifiers : RunMark(n) \/ RecallHit(n) \/ \E d \in Deps : Ask(n, d)
    \/ DeregisterMark

Sweeps == (\E n \in Notifiers : Sweep(n)) \/ DeregisterSweep

\* Setting marks and recording uses of the cache adds and removes no pair.
LEMMA SameUses ==
    ASSUME TypeOK, PcInv, RegInv, Remarks
    PROVE  /\ \A tp \in tracked : \E tq \in tracked' : SameUse(tp, tq)
           /\ \A tq \in tracked' : \E tp \in tracked : SameUse(tp, tq)
<1>0. tracked \in SUBSET Pairs
  BY DEF TypeOK
<1>1. ASSUME NEW n \in Notifiers, tracked' = MarkForSweep(tracked, n)
      PROVE  /\ \A tp \in tracked : \E tq \in tracked' : SameUse(tp, tq)
             /\ \A tq \in tracked' : \E tp \in tracked : SameUse(tp, tq)
  BY <1>0, <1>1, ForSweepPairs
<1>2. ASSUME NEW n \in Notifiers, NEW d \in Deps,
             \/ tracked' = MarkInUse(tracked, n, d)
             \/ tracked' = CacheAccessed(tracked, n, d)
      PROVE  /\ \A tp \in tracked : \E tq \in tracked' : SameUse(tp, tq)
             /\ \A tq \in tracked' : \E tp \in tracked : SameUse(tp, tq)
  BY <1>0, <1>2, MarkInUsePairs, AccessedPairs
<1>3. ASSUME NEW n \in Notifiers, RecallHit(n) PROVE rdep[n] \in Deps
  BY <1>3 DEF RecallHit, PcInv, Asking
<1>4. CASE DeregisterMark
  BY <1>1, <1>4 DEF DeregisterMark, RegInv
<1>5. QED
  BY <1>1, <1>2, <1>3, <1>4 DEF Remarks, RunMark, RecallHit, Ask

\* A sweep, of a run or of Deregister, is one of some template.
LEMMA SweepsEffect ==
    ASSUME RegInv, Sweeps
    PROVE  \E n \in Notifiers :
             /\ SweepEffect(n)
             /\ UNCHANGED <<notifiers, vstate, vdata, dataCh, wpc, wview, wdata,
                            toNotify, asked, got, dirty, rdep, halted>>
             /\ \A m \in Notifiers : m # n => rpc'[m] = rpc[m]
             /\ \/ Sweep(n)
                \/ cpc = "sweep" /\ n = ctarget /\ cpc' = "idle"
                   /\ rpc' = rpc
<1>1. ASSUME NEW n \in Notifiers, Sweep(n)
      PROVE  /\ SweepEffect(n)
             /\ UNCHANGED <<notifiers, vstate, vdata, dataCh, wpc, wview, wdata,
                            toNotify, asked, got, dirty, rdep, halted>>
             /\ \A m \in Notifiers : m # n => rpc'[m] = rpc[m]
  BY <1>1 DEF Sweep, Goto, waitVars, templateVars, controlVars
<1>2. CASE DeregisterSweep
  <2>1. ctarget \in Notifiers
    BY <1>2 DEF DeregisterSweep, RegInv
  <2>2. QED
    BY <1>2, <2>1
       DEF DeregisterSweep, waitVars, resolverVars, templateVars
<1>3. QED
  BY <1>1, <1>2 DEF Sweeps

-----------------------------------------------------------------------------
(* Views.                                                                  *)

\* Every step keeps the table and the view objects in agreement.
LEMMA ViewsStep ==
    ASSUME TypeOK, PcInv, RegInv, ViewsAccounted, [Next]_vars
    PROVE  ViewsAccounted'
<1> USE NoneAssumption, DepOfType
    DEF vars, upstream, trackerVars, viewVars, waitVars, resolverVars,
        templateVars, controlVars, Goto
<1> DEFINE A(d) == views[d] # None =>
                     ~stopped[views[d]] /\ \E tp \in tracked : tp.view = d
           B(tp) == halted \/ views[tp.view] # None
           C(v) == vstate[v] # "free" => stopped[v] \/ views[DepOf(v)] = v
<1>0. /\ \A d \in Deps : A(d)
      /\ \A tp \in tracked : B(tp)
      /\ \A v \in Views : C(v)
  BY DEF ViewsAccounted
<1> SUFFICES /\ \A d \in Deps : A(d)'
             /\ \A tp \in tracked' : B(tp)'
             /\ \A v \in Views : C(v)'
  BY DEF ViewsAccounted
<1>1. CASE UNCHANGED <<views, stopped, tracked, halted>>
           /\ \A v \in Views : vstate'[v] # "free" => vstate[v] # "free"
  BY <1>0, <1>1
<1>2. CASE Remarks
  <2>1. UNCHANGED <<views, stopped, vstate, halted>>
    BY <1>2 DEF Remarks, RunMark, RecallHit, Ask, DeregisterMark
  <2>2. QED
    BY <1>0, <1>2, <2>1, SameUses DEF SameUse
<1>3. CASE Sweeps
  <2>1. UNCHANGED <<vstate, halted>>
    BY <1>3, SweepsEffect
  <2>2. /\ tracked' \subseteq tracked
        /\ \A tp \in tracked' : views'[tp.view] = views[tp.view]
        /\ \A d \in Deps : views'[d] # None =>
             views'[d] = views[d] /\ \E tp \in tracked' : tp.view = d
        /\ \A v \in Views : stopped'[v] <=>
             stopped[v] \/ (views[DepOf(v)] = v /\ views'[DepOf(v)] # v)
    BY <1>3, SweepsEffect, SweepFacts
  <2>3. ASSUME NEW d \in Deps PROVE A(d)'
    <3>1. CASE views'[d] # None
      <4>1. views'[d] = views[d] /\ views[d] \in Views /\ DepOf(views[d]) = d
        BY <2>2, <3>1 DEF TypeOK
      <4>2. QED
        BY <1>0, <2>2, <3>1, <4>1
    <3>2. QED
      BY <3>1
  <2>4. \A tp \in tracked' : B(tp)'
    BY <1>0, <2>1, <2>2
  <2>5. \A v \in Views : C(v)'
    BY <1>0, <2>1, <2>2
  <2>6. QED
    BY <2>3, <2>4, <2>5
<1>4. ASSUME NEW n \in Notifiers, TrackAdd(n)
      PROVE  /\ \A d \in Deps : A(d)'
             /\ \A tp \in tracked' : B(tp)'
             /\ \A v \in Views : C(v)'
  <2>1. rdep[n] \in Deps
    BY <1>4 DEF TrackAdd, PcInv, Asking
  <2>2. PICK tp : tp.view = rdep[n] /\ tracked' = tracked \cup {tp}
    BY <1>4 DEF TrackAdd, AddPair
  <2>3. halted' = halted
    BY <1>4 DEF TrackAdd
  <2>4. CASE views[rdep[n]] # None
    BY <1>0, <1>4, <2>2, <2>3, <2>4 DEF TrackAdd
  <2>5. CASE views[rdep[n]] = None
    <3>1. PICK v \in Views :
            /\ v = NewView(rdep[n])
            /\ views' = [views EXCEPT ![rdep[n]] = v]
            /\ vstate' = [vstate EXCEPT ![v] = "new"]
            /\ stopped' = [stopped EXCEPT ![v] = FALSE]
      BY <1>4, <2>5 DEF TrackAdd
    <3>2. DepOf(v) = rdep[n]
      BY <2>1, <3>1, NewViewIsUnused
    <3>3. /\ views'[rdep[n]] = v /\ vstate'[v] = "new" /\ ~stopped'[v]
          /\ \A d \in Deps : d # rdep[n] => views'[d] = views[d]
          /\ \A w \in Views : w # v => /\ vstate'[w] = vstate[w]
                                       /\ stopped'[w] = stopped[w]
      BY <2>1, <3>1 DEF TypeOK
    <3>4. ASSUME NEW d \in Deps PROVE A(d)'
      <4>1. CASE d = rdep[n]
        BY <2>2, <3>3, <4>1
      <4>2. CASE d # rdep[n] /\ views[d] # None
        <5>1. views[d] # v /\ views[d] \in Views
          BY <3>2, <4>2 DEF TypeOK
        <5>2. QED
          BY <1>0, <2>2, <3>3, <4>2, <5>1
      <4>3. QED
        BY <3>3, <4>1, <4>2
    <3>5. \A tq \in tracked' : B(tq)'
      <4>1. \A tq \in tracked : tq.view \in Deps
        BY DEF TypeOK, Pairs
      <4>2. QED
        BY <1>0, <2>1, <2>2, <2>3, <3>3, <4>1
    <3>6. ASSUME NEW w \in Views PROVE C(w)'
      <4>1. CASE w = v
        BY <3>2, <3>3, <4>1
      <4>2. CASE w # v
        BY <1>0, <2>5, <3>3, <4>2
      <4>3. QED
        BY <4>1, <4>2
    <3>7. QED
      BY <3>4, <3>5, <3>6
  <2>6. QED
    BY <2>4, <2>5
<1>5. CASE StopViews
  <2>1. /\ halted' /\ UNCHANGED <<tracked, vstate>>
        /\ \A d \in Deps : views'[d] = None
        /\ \A v \in Views : stopped'[v] <=>
             stopped[v] \/ \E d \in Deps : views[d] = v
    BY <1>5 DEF StopViews
  <2>2. QED
    BY <1>0, <2>1
<1>6. ASSUME NEW n \in Notifiers, RecallMiss(n)
      PROVE  UNCHANGED <<views, stopped, tracked, halted>>
             /\ \A v \in Views : vstate'[v] # "free" => vstate[v] # "free"
  <2>1. rdep[n] \in Deps
    BY <1>6 DEF RecallMiss, PcInv, Asking
  <2>2. views[rdep[n]] \in Views \cup {None}
    BY <2>1 DEF TypeOK
  <2>3. QED
    BY <1>6, <2>2, PolledState DEF RecallMiss
<1>7. ASSUME NEW v \in Views, ViewStep(v)
      PROVE  UNCHANGED <<views, stopped, tracked, halted>>
             /\ \A w \in Views : vstate'[w] # "free" => vstate[w] # "free"
  BY <1>7 DEF ViewStep, ViewFetch, ViewDeliver, ViewEnds, ViewGivesUp, TypeOK
<1>8. QED
  BY <1>1, <1>2, <1>3, <1>4, <1>5, <1>6, <1>7
     DEF Next, Change, WaitEnter, WaitLeave, WaitStep, WaitStopped,
         WaitReceive, WaitSave, WaitLookup, WaitNotify, WaitNotified, RunStep,
         Execute, TrackLookup, Recall, Rendered, RenderFails, Return,
         ControlStep, Deregister, StopSignal, StopReset, Remarks, Sweeps

-----------------------------------------------------------------------------
(* Notifiers.                                                              *)

\* Every step keeps who may name notifiers that are gone.
LEMMA RegStep ==
    ASSUME TypeOK, PcInv, RegInv, [Next]_vars
    PROVE  RegInv'
<1> USE NoneAssumption
    DEF vars, upstream, trackerVars, viewVars, waitVars, resolverVars,
        templateVars, controlVars, Goto
<1>1. ASSUME NEW m \in Notifiers, rpc'[m] # "idle" PROVE m \in notifiers'
  <2>1. CASE rpc' = rpc /\ notifiers' = notifiers
    BY <1>1, <2>1 DEF RegInv
  <2>2. ASSUME NEW n \in Notifiers, RunMark(n) \/ RunStep(n)
        PROVE  m \in notifiers'
    <3>1. notifiers' = notifiers /\ n \in notifiers
          /\ (m # n => rpc'[m] = rpc[m])
      BY <2>2
         DEF RunMark, RunStep, Execute, TrackLookup, TrackAdd, Recall,
             RecallHit, RecallMiss, Rendered, RenderFails, Sweep, Return, Ask,
             RegInv, TypeOK
    <3>2. QED
      BY <1>1, <3>1 DEF RegInv
  <2>3. ASSUME NEW n \in Notifiers, Deregister(n) PROVE m \in notifiers'
    BY <1>1, <2>3 DEF Deregister, RegInv
  <2>4. QED
    BY <2>1, <2>2, <2>3
       DEF Next, Change, ViewStep, ViewFetch, ViewDeliver, ViewEnds,
           ViewGivesUp, WaitEnter, WaitLeave, WaitStep, WaitStopped,
           WaitReceive, WaitSave, WaitLookup, WaitNotify, WaitNotified,
           ControlStep, DeregisterMark, DeregisterSweep, StopViews,
           StopSignal, StopReset
<1> DEFINE Target == cpc \in {"mark", "sweep"} =>
                       ctarget \in Notifiers \ notifiers
           Named(tp) == \/ tp.notify \in notifiers
                        \/ cpc \in {"mark", "sweep"} /\ tp.notify = ctarget
           Unmarked(tp) == cpc = "sweep" => (tp.notify = ctarget => ~tp.mark)
<1>0. Target /\ \A tp \in tracked : Named(tp) /\ Unmarked(tp)
  BY DEF RegInv
<1>2. Target'
  <2>1. CASE UNCHANGED <<cpc, ctarget, notifiers>>
    BY <1>0, <2>1
  <2>2. CASE ControlStep
    BY <1>0, <2>2
       DEF ControlStep, Deregister, DeregisterMark, DeregisterSweep,
           StopViews, StopSignal, StopReset
  <2>3. QED
    BY <2>1, <2>2
       DEF Next, Change, ViewStep, ViewFetch, ViewDeliver, ViewEnds,
           ViewGivesUp, WaitEnter, WaitLeave, WaitStep, WaitStopped,
           WaitReceive, WaitSave, WaitLookup, WaitNotify, WaitNotified,
           RunMark, RunStep, Execute, TrackLookup, TrackAdd, Recall,
           RecallHit, RecallMiss, Rendered, RenderFails, Sweep, Return, Ask
<1>3. \A tp \in tracked' : Named(tp)' /\ Unmarked(tp)'
  <2>1. CASE UNCHANGED <<tracked, notifiers, cpc, ctarget>>
    BY <1>0, <2>1
  <2>2. ASSUME NEW n \in Notifiers, RunMark(n)
        PROVE  \A tp \in tracked' : Named(tp)' /\ Unmarked(tp)'
    <3>1. /\ UNCHANGED <<notifiers, cpc, ctarget>>
          /\ tracked' = MarkForSweep(tracked, n) /\ tracked \in SUBSET Pairs
      BY <2>2 DEF RunMark, TypeOK
    <3>2. \A tq \in tracked' : \E tp \in tracked :
            SameUse(tp, tq) /\ (tq.mark <=> tp.mark /\ tp.notify # n)
      BY <3>1, ForSweepPairs
    <3>3. QED
      BY <1>0, <3>1, <3>2 DEF SameUse
  <2>3. ASSUME NEW n \in Notifiers, NEW d \in Deps, Ask(n, d)
        PROVE  \A tp \in tracked' : Named(tp)' /\ Unmarked(tp)'
    <3>1. /\ UNCHANGED <<notifiers, cpc, ctarget>> /\ n \in notifiers
          /\ tracked' = MarkInUse(tracked, n, d) /\ tracked \in SUBSET Pairs
      BY <2>3 DEF Ask, TypeOK, RegInv
    <3>2. \A tq \in tracked' : \E tp \in tracked :
            SameUse(tp, tq) /\ (tq.mark <=> tp.mark \/ Of(n, d, tp))
      BY <3>1, MarkInUsePairs
    <3>3. QED
      BY <1>0, <3>1, <3>2 DEF SameUse, Of
  <2>4. ASSUME NEW n \in Notifiers, TrackAdd(n)
        PROVE  \A tp \in tracked' : Named(tp)' /\ Unmarked(tp)'
    <3>1. UNCHANGED <<notifiers, cpc, ctarget>> /\ n \in notifiers
      BY <2>4 DEF TrackAdd, RegInv
    <3>2. PICK tp : tp.notify = n /\ tracked' = tracked \cup {tp}
      BY <2>4 DEF TrackAdd, AddPair
    <3>3. QED
      BY <1>0, <3>1, <3>2
  <2>5. ASSUME NEW n \in Notifiers, RecallHit(n)
        PROVE  \A tp \in tracked' : Named(tp)' /\ Unmarked(tp)'
    <3>1. /\ UNCHANGED <<notifiers, cpc, ctarget>>
          /\ tracked' = CacheAccessed(tracked, n, rdep[n])
          /\ tracked \in SUBSET Pairs /\ rdep[n] \in Deps
      BY <2>5 DEF RecallHit, TypeOK, PcInv, Asking
    <3>2. \A tq \in tracked' : \E tp \in tracked :
            SameUse(tp, tq) /\ tq.mark = tp.mark
      BY <3>1, AccessedPairs
    <3>3. QED
      BY <1>0, <3>1, <3>2 DEF SameUse
  <2>6. ASSUME NEW n \in Notifiers, Deregister(n)
        PROVE  \A tp \in tracked' : Named(tp)' /\ Unmarked(tp)'
    BY <1>0, <2>6 DEF Deregister
  <2>7. CASE DeregisterMark
    <3>1. /\ UNCHANGED <<notifiers, ctarget>> /\ cpc = "mark" /\ cpc' = "sweep"
          /\ tracked' = MarkForSweep(tracked, ctarget)
          /\ tracked \in SUBSET Pairs /\ ctarget \in Notifiers
      BY <1>0, <2>7 DEF DeregisterMark, TypeOK
    <3>2. \A tq \in tracked' : \E tp \in tracked :
            SameUse(tp, tq) /\ (tq.mark <=> tp.mark /\ tp.notify # ctarget)
      BY <3>1, ForSweepPairs
    <3>3. QED
      BY <1>0, <3>1, <3>2 DEF SameUse
  <2>8. ASSUME NEW n \in Notifiers, Sweep(n)
        PROVE  \A tp \in tracked' : Named(tp)' /\ Unmarked(tp)'
    <3>1. tracked' \subseteq tracked /\ UNCHANGED <<notifiers, cpc, ctarget>>
      BY <2>8 DEF Sweep, SweepEffect, Kept
    <3>2. QED
      BY <1>0, <3>1
  <2>9. CASE DeregisterSweep
    <3>1. /\ cpc = "sweep" /\ cpc' = "idle" /\ notifiers' = notifiers
          /\ \A tp \in tracked' : tp \in tracked /\ (tp.mark \/ tp.notify # ctarget)
      BY <2>9 DEF DeregisterSweep, SweepEffect, Kept
    <3>2. QED
      BY <1>0, <3>1
  <2>10. CASE StopViews \/ StopSignal \/ StopReset
    BY <1>0, <2>10 DEF StopViews, StopSignal, StopReset
  <2>11. QED
    BY <2>1, <2>2, <2>3, <2>4, <2>5, <2>6, <2>7, <2>8, <2>9, <2>10
       DEF Next, Change, ViewStep, ViewFetch, ViewDeliver, ViewEnds,
           ViewGivesUp, WaitEnter, WaitLeave, WaitStep, WaitStopped,
           WaitReceive, WaitSave, WaitLookup, WaitNotify, WaitNotified,
           RunStep, Execute, TrackLookup, Recall, RecallMiss, Rendered,
           RenderFails, Return, ControlStep
<1>4. QED
  BY <1>1, <1>2, <1>3 DEF RegInv

-----------------------------------------------------------------------------
(* What a template has tracked.                                            *)

\* The operations of the tracker for n leave the pairs of others alone.
LEMMA OthersPairs ==
    ASSUME NEW t \in SUBSET Pairs, NEW n \in Notifiers, NEW d \in Deps,
           NEW tp, tp.notify # n
    PROVE  /\ tp \in MarkInUse(t, n, d) <=> tp \in t
           /\ tp \in CacheAccessed(t, n, d) <=> tp \in t
           /\ tp \in MarkForSweep(t, n) <=> tp \in t
           /\ tp \in AddPair(t, n, d) <=> tp \in t
           /\ tp \in Kept(t, n) <=> tp \in t
<1>1. tp \in MarkInUse(t, n, d) <=> tp \in t
  BY DEF MarkInUse, Of, Pairs
<1>2. tp \in CacheAccessed(t, n, d) <=> tp \in t
  BY DEF CacheAccessed, Of, Pairs
<1>3. tp \in MarkForSweep(t, n) <=> tp \in t
  BY DEF MarkForSweep, Pairs
<1>4. tp \in AddPair(t, n, d) <=> tp \in t
  BY DEF AddPair
<1>5. tp \in Kept(t, n) <=> tp \in t
  BY DEF Kept
<1>6. QED
  BY <1>1, <1>2, <1>3, <1>4, <1>5

\* Nobody but n's own run changes what concerns n, while n is registered.
LEMMA OwnStepsOnly ==
    ASSUME TypeOK, PcInv, RegInv, [Next]_vars,
           NEW n \in notifiers', ~RunMark(n), ~RunStep(n)
    PROVE  /\ rpc'[n] = rpc[n] /\ rdep'[n] = rdep[n] /\ asked'[n] = asked[n]
           /\ got'[n] = got[n] /\ n \in notifiers
           /\ \A tp : tp.notify = n => (tp \in tracked' <=> tp \in tracked)
<1> USE DEF vars, upstream, trackerVars, viewVars, waitVars, resolverVars,
        templateVars, controlVars, Goto
<1>0. tracked \in SUBSET Pairs /\ notifiers \subseteq Notifiers
  BY DEF TypeOK
<1>1. CASE UNCHANGED <<tracked, notifiers, resolverVars>>
  BY <1>1
<1>2. ASSUME NEW m \in Notifiers, RunMark(m) \/ RunStep(m)
      PROVE  /\ rpc'[n] = rpc[n] /\ rdep'[n] = rdep[n] /\ asked'[n] = asked[n]
             /\ got'[n] = got[n] /\ n \in notifiers
             /\ \A tp : tp.notify = n => (tp \in tracked' <=> tp \in tracked)
  <2>1. m # n
    BY <1>2
  <2>2. /\ n \in notifiers /\ n \in Notifiers
        /\ rpc'[n] = rpc[n] /\ rdep'[n] = rdep[n] /\ asked'[n] = asked[n]
        /\ got'[n] = got[n]
    BY <1>0, <1>2, <2>1
       DEF RunMark, RunStep, Execute, TrackLookup, TrackAdd, Recall,
           RecallHit, RecallMiss, Rendered, RenderFails, Sweep, Return, Ask,
           TypeOK
  <2>3. \/ tracked' = tracked
        \/ tracked' = MarkForSweep(tracked, m)
        \/ tracked' = Kept(tracked, m)
        \/ \E d \in Deps : \/ tracked' = MarkInUse(tracked, m, d)
                           \/ tracked' = AddPair(tracked, m, d)
                           \/ tracked' = CacheAccessed(tracked, m, d)
    BY <1>2
       DEF RunMark, RunStep, Execute, TrackLookup, TrackAdd, Recall,
           RecallHit, RecallMiss, Rendered, RenderFails, Sweep, SweepEffect,
           Return, Ask, PcInv, Asking
  <2>4. ASSUME NEW tp, tp.notify = n
        PROVE  tp \in tracked' <=> tp \in tracked
    <3>1. CASE \E d \in Deps : \/ tracked' = MarkInUse(tracked, m, d)
                               \/ tracked' = AddPair(tracked, m, d)
                               \/ tracked' = CacheAccessed(tracked, m, d)
      BY <1>0, <2>1, <2>4, <3>1, OthersPairs
    <3>2. CASE Deps # {}
      BY <1>0, <2>1, <2>3, <2>4, <3>1, <3>2, OthersPairs
    <3>3. CASE Deps = {}
      BY <1>0, <2>1, <2>3, <2>4, <3>3 DEF MarkForSweep, Kept, Pairs
    <3>4. QED
      BY <3>2, <3>3
  <2>5. QED
    BY <2>2, <2>4
<1>3. ASSUME NEW m \in Notifiers, Deregister(m)
      PROVE  UNCHANGED <<tracked, resolverVars>> /\ n \in notifiers
  BY <1>3 DEF Deregister
<1>4. CASE DeregisterMark \/ DeregisterSweep
  <2>1. /\ n \in notifiers /\ UNCHANGED resolverVars
        /\ ctarget \in Notifiers /\ ctarget # n
        /\ \/ tracked' = MarkForSweep(tracked, ctarget)
           \/ tracked' = Kept(tracked, ctarget)
    BY <1>4 DEF DeregisterMark, DeregisterSweep, SweepEffect, RegInv
  <2>2. ASSUME NEW tp, tp.notify = n
        PROVE  tp \in tracked' <=> tp \in tracked
    BY <1>0, <2>1, <2>2 DEF MarkForSweep, Kept, Pairs
  <2>3. QED
    BY <2>1, <2>2
<1>5. QED
  BY <1>1, <1>2, <1>3, <1>4
     DEF Next, Change, ViewStep, ViewFetch, ViewDeliver, ViewEnds,
         ViewGivesUp, WaitEnter, WaitLeave, WaitStep, WaitStopped,
         WaitReceive, WaitSave, WaitLookup, WaitNotify, WaitNotified,
         ControlStep, StopViews, StopSignal, StopReset

\* Every step keeps what a template has used tracked.
LEMMA TrackStep ==
    ASSUME TypeOK, PcInv, RegInv, RegInv', TrackInv, [Next]_vars
    PROVE  TrackInv'
<1> USE DEF Of, SameUse
<1> DEFINE Marked(n) == rpc[n] \in {"lookup", "add"} =>
                          \A tp \in tracked : Of(n, rdep[n], tp) => tp.mark
           Stays(n, d) == Reached(n, d) =>
             \E tp \in tracked :
                /\ Of(n, d, tp)
                /\ rpc[n] \in Asking \cup {"eval", "sweep"} => tp.mark
<1>0. /\ \A n \in Notifiers : Marked(n)
      /\ \A n \in notifiers, d \in Deps : Stays(n, d)
  BY DEF TrackInv
<1>00. tracked \in SUBSET Pairs /\ notifiers \subseteq Notifiers
  BY DEF TypeOK
<1>1. ASSUME NEW n \in notifiers', NEW e \in Deps,
             ~RunMark(n), ~RunStep(n)
      PROVE  Marked(n)' /\ Stays(n, e)'
  BY <1>0, <1>00, <1>1, OwnStepsOnly DEF Reached
<1>2. ASSUME NEW n \in Notifiers, NEW e \in Deps, RunMark(n)
      PROVE  Marked(n)' /\ Stays(n, e)'
  <2>1. /\ rpc[n] = "idle" /\ rpc'[n] = "execute" /\ n \in notifiers
        /\ asked' = asked /\ tracked' = MarkForSweep(tracked, n)
    BY <1>2 DEF RunMark, Goto, TypeOK
  <2>2. \A tp \in tracked : \E tq \in tracked' : SameUse(tp, tq)
    BY <1>00, <2>1, ForSweepPairs
  <2>3. QED
    BY <1>0, <2>1, <2>2 DEF Reached, Asking
<1>3. ASSUME NEW n \in Notifiers, NEW e \in Deps, Execute(n)
      PROVE  Marked(n)' /\ Stays(n, e)'
  <2>1. /\ rpc[n] = "execute" /\ tracked' = tracked /\ n \in notifiers
        /\ \/ rpc'[n] = "eval" /\ asked'[n] = {}
           \/ rpc'[n] = "complete" /\ asked'[n] = asked[n]
    BY <1>3 DEF Execute, Goto, TypeOK, RegInv, trackerVars
  <2>2. QED
    BY <1>0, <2>1 DEF Reached, Asking
<1>4. ASSUME NEW n \in Notifiers, NEW e \in Deps, NEW d \in Deps, Ask(n, d)
      PROVE  Marked(n)' /\ Stays(n, e)'
  <2>1. /\ rpc[n] = "eval" /\ rpc'[n] = "lookup" /\ n \in notifiers
        /\ rdep'[n] = d /\ asked'[n] = asked[n] \cup {d}
        /\ tracked' = MarkInUse(tracked, n, d)
    BY <1>4 DEF Ask, Goto, TypeOK, RegInv
  <2>2. /\ \A tp \in tracked : \E tq \in tracked' :
             SameUse(tp, tq) /\ (tq.mark <=> tp.mark \/ Of(n, d, tp))
        /\ \A tq \in tracked' : \E tp \in tracked :
             SameUse(tp, tq) /\ (tq.mark <=> tp.mark \/ Of(n, d, tp))
    BY <1>00, <2>1, MarkInUsePairs
  <2>3. Marked(n)'
    BY <2>1, <2>2
  <2>4. Stays(n, e)'
    BY <1>0, <2>1, <2>2 DEF Reached, Asking
  <2>5. QED
    BY <2>3, <2>4
<1>5. ASSUME NEW n \in Notifiers, NEW e \in Deps, TrackLookup(n)
      PROVE  Marked(n)' /\ Stays(n, e)'
  <2>1. /\ rpc[n] = "lookup" /\ n \in notifiers /\ tracked' = tracked
        /\ rdep'[n] = rdep[n] /\ asked'[n] = asked[n]
        /\ \/ rpc'[n] = "recall" /\ HasPair(tracked, n, rdep[n])
           \/ rpc'[n] = "add"
    BY <1>5 DEF TrackLookup, Goto, TypeOK, RegInv, trackerVars
  <2>2. Marked(n)'
    BY <1>0, <2>1
  <2>3. Stays(n, e)'
    BY <1>0, <2>1 DEF Reached, Asking, HasPair
  <2>4. QED
    BY <2>2, <2>3
<1>6. ASSUME NEW n \in Notifiers, NEW e \in Deps, TrackAdd(n)
      PROVE  Marked(n)' /\ Stays(n, e)'
  <2>1. /\ rpc[n] = "add" /\ n \in notifiers /\ rpc'[n] = "recall"
        /\ rdep'[n] = rdep[n] /\ asked'[n] = asked[n]
        /\ tracked' = AddPair(tracked, n, rdep[n]) /\ rdep[n] \in Deps
    BY <1>6 DEF TrackAdd, Goto, TypeOK, RegInv, PcInv, Asking
  <2>2. \E tp \in tracked' : Of(n, rdep[n], tp) /\ tp.mark
    BY <1>00, <2>1, AddedPair
  <2>3. tracked \subseteq tracked'
    BY <2>1 DEF AddPair
  <2>4. QED
    BY <1>0, <2>1, <2>2, <2>3 DEF Reached, Asking
<1>7. ASSUME NEW n \in Notifiers, NEW e \in Deps, RecallHit(n)
      PROVE  Marked(n)' /\ Stays(n, e)'
  <2>1. /\ rpc[n] = "accessed" /\ n \in notifiers /\ rpc'[n] = "eval"
        /\ asked'[n] = asked[n] /\ rdep[n] \in Deps
        /\ tracked' = CacheAccessed(tracked, n, rdep[n])
    BY <1>7 DEF RecallHit, Goto, TypeOK, RegInv, PcInv, Asking
  <2>2. \A tp \in tracked : \E tq \in tracked' :
          SameUse(tp, tq) /\ tq.mark = tp.mark
    BY <1>00, <2>1, AccessedPairs
  <2>3. QED
    BY <1>0, <2>1, <2>2 DEF Reached, Asking
<1>8. ASSUME NEW n \in Notifiers, NEW e \in Deps,
             \/ Recall(n) \/ RecallMiss(n) \/ Rendered(n) \/ RenderFails(n)
             \/ Return(n)
      PROVE  Marked(n)' /\ Stays(n, e)'
  <2>1. /\ tracked' = tracked /\ n \in notifiers /\ asked'[n] = asked[n]
        /\ rpc[n] \notin {"lookup", "add"} /\ rpc'[n] \notin {"lookup", "add"}
        /\ \/ rpc[n] \in Asking \cup {"eval", "sweep"}
           \/ rpc'[n] \notin Asking \cup {"eval", "sweep"}
    BY <1>8 DEF Recall, RecallMiss, Rendered, RenderFails, Return, Goto,
                TypeOK, RegInv, trackerVars, resolverVars, Asking
  <2>2. QED
    BY <1>0, <2>1 DEF Reached
<1>9. ASSUME NEW n \in Notifiers, NEW e \in Deps, Sweep(n)
      PROVE  Marked(n)' /\ Stays(n, e)'
  <2>1. /\ rpc[n] = "sweep" /\ n \in notifiers /\ rpc'[n] = "complete"
        /\ asked'[n] = asked[n]
        /\ \A tp \in tracked : tp.mark => tp \in tracked'
    BY <1>9 DEF Sweep, SweepEffect, Kept, Goto, TypeOK, RegInv
  <2>2. QED
    BY <1>0, <2>1 DEF Reached, Asking
<1>10. ASSUME NEW n \in notifiers', NEW e \in Deps
       PROVE  Marked(n)' /\ Stays(n, e)'
  <2>1. CASE RunMark(n) \/ RunStep(n)
    <3>1. n \in Notifiers
      BY <2>1, <1>00 DEF RegInv, RunMark, RunStep, Execute, TrackLookup,
         TrackAdd, Recall, RecallHit, RecallMiss, Rendered, RenderFails,
         Sweep, Return, Ask, trackerVars
    <3>2. QED
      BY <1>2, <1>3, <1>4, <1>5, <1>6, <1>7, <1>8, <1>9, <2>1, <3>1
         DEF RunStep
  <2>2. QED
    BY <1>1, <2>1
<1>11. ASSUME NEW n \in Notifiers PROVE Marked(n)'
  <2>1. CASE rpc'[n] \in {"lookup", "add"}
    <3>1. n \in notifiers'
      BY <2>1 DEF RegInv
    <3>2. rdep'[n] \in Deps
      BY <2>1, PcStep DEF PcInv, Asking
    <3>3. QED
      BY <1>10, <3>1, <3>2
  <2>2. QED
    BY <2>1
<1>12. QED
  BY <1>10, <1>11 DEF TrackInv

-----------------------------------------------------------------------------
(* What a template has recalled.                                           *)

\* A step of n's run recalls the dependency that n asked for last, or what is
\* recalled stays as it was.
LEMMA RunRecalls ==
    ASSUME TypeOK, PcInv, NEW n \in Notifiers, RunMark(n) \/ RunStep(n)
    PROVE  /\ \A m \in Notifiers, d \in Deps : m # n =>
                /\ Recalled(m, d)' <=> Recalled(m, d)
                /\ got'[m] = got[m] /\ dirty'[m] = dirty[m]
           /\ \A d \in Deps : Recalled(n, d)' =>
                \/ /\ Recalled(n, d)
                   /\ got'[n][d] = got[n][d] /\ dirty'[n] = dirty[n]
                \/ /\ rpc[n] = "recall" /\ d = rdep[n]
                   /\ got'[n][d] = cache[d]
<1> USE DEF vars, upstream, trackerVars, viewVars, waitVars, resolverVars,
        templateVars, controlVars, Goto
<1>1. ASSUME NEW m \in Notifiers, m # n
      PROVE  /\ rpc'[m] = rpc[m] /\ rdep'[m] = rdep[m] /\ asked'[m] = asked[m]
             /\ got'[m] = got[m] /\ dirty'[m] = dirty[m]
  BY <1>1
     DEF RunMark, RunStep, Execute, TrackLookup, TrackAdd, Recall, RecallHit,
         RecallMiss, Rendered, RenderFails, Sweep, Return, Ask, TypeOK
<1> DEFINE Goal == \A d \in Deps : Recalled(n, d)' =>
              \/ /\ Recalled(n, d)
                 /\ got'[n][d] = got[n][d] /\ dirty'[n] = dirty[n]
              \/ /\ rpc[n] = "recall" /\ d = rdep[n] /\ got'[n][d] = cache[d]
<1> SUFFICES Goal
  BY <1>1 DEF Recalled
<1>2. CASE /\ got' = got /\ dirty' = dirty /\ asked'[n] = asked[n]
           /\ rpc[n] \notin {"lookup", "add", "recall"}
  BY <1>2 DEF Recalled
<1>3. CASE Execute(n)
  <2>1. \/ asked'[n] = {}
        \/ /\ asked'[n] = asked[n] /\ got'[n] = got[n] /\ dirty'[n] = dirty[n]
           /\ rpc[n] = "execute"
    BY <1>3 DEF Execute, TypeOK
  <2>2. QED
    BY <2>1 DEF Recalled
<1>4. ASSUME NEW e \in Deps, Ask(n, e) PROVE Goal
  <2>1. /\ got' = got /\ dirty' = dirty /\ asked'[n] = asked[n] \cup {e}
        /\ rpc[n] = "eval" /\ rpc'[n] = "lookup" /\ rdep'[n] = e
    BY <1>4 DEF Ask, TypeOK
  <2>2. QED
    BY <2>1 DEF Recalled
<1>5. CASE TrackLookup(n) \/ TrackAdd(n)
  <2>1. /\ got' = got /\ dirty' = dirty /\ asked' = asked /\ rdep' = rdep
        /\ rpc[n] \in {"lookup", "add"} /\ rpc'[n] \in {"add", "recall"}
    BY <1>5 DEF TrackLookup, TrackAdd, TypeOK
  <2>2. QED
    BY <2>1 DEF Recalled
<1>6. CASE Recall(n)
  <2>1. /\ rpc[n] = "recall" /\ rdep[n] \in Deps
        /\ dirty' = dirty /\ asked' = asked /\ rdep' = rdep
        /\ got'[n] = [got[n] EXCEPT ![rdep[n]] = cache[rdep[n]]]
        /\ got[n] \in [Deps -> Values]
    BY <1>6 DEF Recall, TypeOK, PcInv, Asking
  <2>2. \A d \in Deps :
          got'[n][d] = IF d = rdep[n] THEN cache[rdep[n]] ELSE got[n][d]
    BY <2>1
  <2>3. QED
    BY <2>1, <2>2 DEF Recalled
<1>7. QED
  BY <1>2, <1>3, <1>4, <1>5, <1>6
     DEF RunMark, RunStep, RecallHit, RecallMiss, Rendered, RenderFails,
         Sweep, Return

\* A pair is there before a step of n's run, or is the one of the dependency
\* that n is asking for; it becomes read when that is recalled.
LEMMA RunPairs ==
    ASSUME TypeOK, PcInv, NEW n \in Notifiers, RunMark(n) \/ RunStep(n)
    PROVE  \A tq \in tracked' :
             \/ \E tp \in tracked :
                  /\ SameUse(tp, tq)
                  /\ tq.cacheAccessed =>
                       \/ tp.cacheAccessed
                       \/ rpc[n] = "accessed" /\ Of(n, rdep[n], tp)
             \/ tq.notify = n /\ ~tq.cacheAccessed /\ ~Recalled(n, tq.view)'
<1> USE DEF SameUse, Goto
<1>0. tracked \in SUBSET Pairs
  BY DEF TypeOK
<1>1. CASE tracked' \subseteq tracked
  BY <1>1
<1>2. CASE RunMark(n)
  BY <1>0, <1>2, ForSweepPairs DEF RunMark
<1>3. ASSUME NEW d \in Deps, Ask(n, d)
      PROVE  \A tq \in tracked' : \E tp \in tracked :
               SameUse(tp, tq) /\ tq.cacheAccessed = tp.cacheAccessed
  <2>1. tracked' = MarkInUse(tracked, n, d)
    BY <1>3 DEF Ask
  <2>2. \A tq \in MarkInUse(tracked, n, d) : \E tp \in tracked :
          /\ SameUse(tp, tq) /\ tq.cacheAccessed = tp.cacheAccessed
          /\ tq.mark <=> tp.mark \/ Of(n, d, tp)
    BY <1>0, MarkInUsePairs
  <2>3. QED
    BY <2>1, <2>2
<1>4. CASE TrackAdd(n)
  <2>1. /\ rpc'[n] = "recall" /\ rdep' = rdep /\ rdep[n] \in Deps
        /\ tracked' = AddPair(tracked, n, rdep[n])
    BY <1>4 DEF TrackAdd, TypeOK, PcInv, Asking
  <2>2. PICK tp \in Pairs : /\ Of(n, rdep[n], tp) /\ ~tp.cacheAccessed
                            /\ tracked' = tracked \cup {tp}
    BY <1>0, <2>1, AddedPair
  <2>3. tp.notify = n /\ ~Recalled(n, tp.view)'
    BY <2>1, <2>2 DEF Recalled, Of
  <2>4. QED
    BY <2>2, <2>3
<1>5. CASE RecallHit(n)
  <2>1. /\ rpc[n] = "accessed" /\ rdep[n] \in Deps
        /\ tracked' = CacheAccessed(tracked, n, rdep[n])
    BY <1>5 DEF RecallHit, PcInv, Asking
  <2>2. \A tq \in tracked' : \E tp \in tracked :
          /\ SameUse(tp, tq)
          /\ tq.cacheAccessed <=> tp.cacheAccessed \/ Of(n, rdep[n], tp)
    BY <1>0, <2>1, AccessedPairs
  <2>3. QED
    BY <2>1, <2>2
<1>6. CASE Sweep(n)
  BY <1>1, <1>6 DEF Sweep, SweepEffect, Kept
<1>7. QED
  BY <1>1, <1>2, <1>3, <1>4, <1>5, <1>6
     DEF RunStep, Execute, TrackLookup, Recall, RecallMiss, Rendered,
         RenderFails, Return, trackerVars

-----------------------------------------------------------------------------
(* Values.                                                                 *)

\* Every step keeps what is delivered a value.
LEMMA DataStep ==
    ASSUME TypeOK, PcInv, DataInv, [Next]_vars
    PROVE  DataInv'
<1> USE NoneAssumption, DepOfType
    DEF vars, upstream, trackerVars, viewVars, waitVars, resolverVars,
        templateVars, controlVars, Goto
<1>1. CASE UNCHANGED <<vstate, vdata, dataCh, wpc, wdata>>
  BY <1>1 DEF DataInv
<1>2. ASSUME NEW v \in Views, ViewFetch(v) PROVE DataInv'
  <2>1. /\ vdata' \in [Views -> Values] /\ vdata'[v] # None
        /\ \A w \in Views : w # v => vdata'[w] = vdata[w] /\ vstate'[w] = vstate[w]
        /\ UNCHANGED <<dataCh, wpc, wdata>>
    BY <1>2 DEF ViewFetch, TypeOK, Values
  <2>2. \A i \in 1..Len(dataCh) : dataCh[i] \in Views
    BY DEF TypeOK
  <2>3. QED
    BY <2>1, <2>2 DEF DataInv
<1>3. ASSUME NEW v \in Views, ViewDeliver(v) PROVE DataInv'
  <2>1. /\ vstate[v] = "ready" /\ vstate'[v] # "ready"
        /\ \A w \in Views : w # v => vstate'[w] = vstate[w]
        /\ dataCh' = Append(dataCh, v) /\ UNCHANGED <<vdata, wpc, wdata>>
    BY <1>3 DEF ViewDeliver, TypeOK
  <2>2. \A i \in 1..Len(dataCh') :
          dataCh'[i] = v \/ \E j \in 1..Len(dataCh) : dataCh'[i] = dataCh[j]
    BY <2>1, AppendType DEF TypeOK
  <2>3. QED
    BY <2>1, <2>2 DEF DataInv
<1>4. ASSUME NEW v \in Views, ViewEnds(v) \/ ViewGivesUp(v) PROVE DataInv'
  <2>1. /\ \A w \in Views : vstate'[w] = "ready" => vstate[w] = "ready"
        /\ UNCHANGED <<vdata, dataCh, wdata>>
        /\ wpc' = "save" => wpc = "save"
    BY <1>4 DEF ViewEnds, ViewGivesUp, TypeOK
  <2>2. QED
    BY <2>1 DEF DataInv
<1>5. CASE WaitReceive \/ (WaitNotified /\ dataCh # << >>)
  <2>1. /\ dataCh # << >> /\ wdata' = vdata[Head(dataCh)]
        /\ dataCh' = Tail(dataCh) /\ UNCHANGED <<vstate, vdata>>
    BY <1>5 DEF WaitReceive, WaitNotified
  <2>2. /\ Head(dataCh) = dataCh[1] /\ 1 \in 1..Len(dataCh)
        /\ \A i \in 1..Len(dataCh') : \E j \in 1..Len(dataCh) :
             dataCh'[i] = dataCh[j]
    BY <2>1, HeadTailType DEF TypeOK
  <2>3. QED
    BY <2>1, <2>2 DEF DataInv
<1>6. ASSUME UNCHANGED <<vstate, vdata, dataCh>>, wpc' # "save" PROVE DataInv'
  BY <1>6 DEF DataInv
<1>7. ASSUME NEW n \in Notifiers, TrackAdd(n) PROVE DataInv'
  <2>1. rdep[n] \in Deps /\ UNCHANGED <<dataCh, wpc, wdata>>
    BY <1>7 DEF TrackAdd, PcInv, Asking
  <2>2. CASE views[rdep[n]] # None
    BY <1>1, <1>7, <2>2 DEF TrackAdd
  <2>3. CASE views[rdep[n]] = None
    <3>1. PICK v \in Views :
            /\ v = NewView(rdep[n])
            /\ vstate' = [vstate EXCEPT ![v] = "new"]
            /\ vdata' = [vdata EXCEPT ![v] = None]
      BY <1>7, <2>3 DEF TrackAdd
    <3>2. \A i \in 1..Len(dataCh) : dataCh[i] # v /\ dataCh[i] \in Views
      BY <2>1, <3>1, NewViewIsUnused DEF Garbage, TypeOK
    <3>3. /\ vstate'[v] = "new"
          /\ \A w \in Views : w # v => vstate'[w] = vstate[w] /\ vdata'[w] = vdata[w]
      BY <3>1 DEF TypeOK
    <3>4. QED
      BY <2>1, <3>2, <3>3 DEF DataInv
  <2>4. QED
    BY <2>2, <2>3
<1>8. ASSUME NEW n \in Notifiers, RecallMiss(n) PROVE DataInv'
  <2>1. views[rdep[n]] \in Views \cup {None}
    BY <1>8 DEF RecallMiss, PcInv, Asking, TypeOK
  <2>2. /\ \A w \in Views : vstate'[w] = "ready" => vstate[w] = "ready"
        /\ UNCHANGED <<vdata, dataCh, wpc, wdata>>
    BY <1>8, <2>1, PolledState DEF RecallMiss
  <2>3. QED
    BY <2>2 DEF DataInv
<1>9. QED
  BY <1>1, <1>2, <1>3, <1>4, <1>5, <1>6, <1>7, <1>8
     DEF Next, Change, ViewStep, WaitEnter, WaitLeave, WaitStep, WaitStopped,
         WaitSave, WaitLookup, WaitNotify, WaitNotified,
         RunMark, RunStep, Execute, TrackLookup, Recall, RecallHit,
         Rendered, RenderFails, Sweep, Return, Ask,
         ControlStep, Deregister, DeregisterMark, DeregisterSweep,
         StopViews, StopSignal, StopReset

\* A template whose run has recalled d has a pair for it.
LEMMA AccessedIsTracked ==
    ASSUME RegInv, PcInv, TrackInv, NEW n \in Notifiers, rpc[n] = "accessed"
    PROVE  /\ n \in notifiers /\ rdep[n] \in Deps
           /\ \E tp \in tracked : Of(n, rdep[n], tp)
BY DEF RegInv, PcInv, TrackInv, Reached, Asking

\* Every step keeps used values in the cache.
LEMMA AccessStep ==
    ASSUME TypeOK, PcInv, RegInv, ViewsAccounted, TrackInv, DataInv,
           AccessInv, [Next]_vars
    PROVE  AccessInv'
<1> USE DEF vars, upstream, trackerVars, viewVars, waitVars, resolverVars,
        templateVars, controlVars, Goto
<1> DEFINE Kept1(tp) == tp.cacheAccessed =>
                 /\ cache[tp.view] # None
                 /\ Recalled(tp.notify, tp.view) => got[tp.notify][tp.view] # None
           Hit(n) == rpc[n] = "accessed" =>
                 cache[rdep[n]] # None /\ got[n][rdep[n]] # None
<1>1. CASE halted'
  BY <1>1 DEF AccessInv
<1> SUFFICES ASSUME ~halted'
             PROVE  (\A tp \in tracked' : Kept1(tp)') /\ \A n \in Notifiers : Hit(n)'
  BY <1>1 DEF AccessInv
<1>2. ~halted
  BY DEF Next, Change, ViewStep, ViewFetch, ViewDeliver, ViewEnds,
         ViewGivesUp, WaitEnter, WaitLeave, WaitStep, WaitStopped,
         WaitReceive, WaitSave, WaitLookup, WaitNotify, WaitNotified,
         RunMark, RunStep, Execute, TrackLookup, TrackAdd, Recall, RecallHit,
         RecallMiss, Rendered, RenderFails, Sweep, Return, Ask, ControlStep,
         Deregister, DeregisterMark, DeregisterSweep, StopViews, StopSignal,
         StopReset
<1>0. (\A tp \in tracked : Kept1(tp)) /\ \A n \in Notifiers : Hit(n)
  BY <1>2 DEF AccessInv
<1>00. \A tp \in tracked : tp.notify \in Notifiers /\ tp.view \in Deps
  BY DEF TypeOK, Pairs
<1>3. CASE UNCHANGED <<tracked, cache, resolverVars>>
  BY <1>0, <1>3 DEF Recalled
<1>4. CASE WaitSave
  <2>1. /\ wdata # None /\ DepOf(wview) \in Deps /\ UNCHANGED <<tracked, resolverVars>>
        /\ cache' = [cache EXCEPT ![DepOf(wview)] = wdata]
    BY <1>4, NoneAssumption, DepOfType DEF WaitSave, DataInv, PcInv, TypeOK
  <2>2. \A d \in Deps : cache[d] # None => cache'[d] # None
    BY <2>1 DEF TypeOK
  <2>3. \A n \in Notifiers : rpc[n] = "accessed" => rdep[n] \in Deps
    BY DEF PcInv, Asking
  <2>4. QED
    BY <1>0, <1>00, <2>1, <2>2, <2>3 DEF Recalled
<1>5. ASSUME NEW n \in Notifiers, RunMark(n) \/ RunStep(n)
      PROVE  \A tq \in tracked' : tq.cacheAccessed /\ cache'[tq.view] # None =>
               (Recalled(tq.notify, tq.view)' => got'[tq.notify][tq.view] # None)
  <2> SUFFICES ASSUME NEW tq \in tracked', tq.cacheAccessed,
                      Recalled(tq.notify, tq.view)'
               PROVE  got'[tq.notify][tq.view] # None
    OBVIOUS
  <2>1. PICK tp \in tracked :
          /\ SameUse(tp, tq)
          /\ tp.cacheAccessed \/ (rpc[n] = "accessed" /\ Of(n, rdep[n], tp))
    BY <1>5, RunPairs
  <2>2. cache[tp.view] # None
    BY <1>0, <2>1 DEF Of
  <2>3. Recalled(tp.notify, tp.view) => got[tp.notify][tp.view] # None
    BY <1>0, <2>1 DEF Of
  <2>4. tp.notify = tq.notify /\ tp.view = tq.view
        /\ tp.notify \in Notifiers /\ tp.view \in Deps
    BY <1>00, <2>1 DEF SameUse
  <2>5. CASE tp.notify # n
    BY <1>5, <2>3, <2>4, <2>5, RunRecalls
  <2>6. CASE tp.notify = n
    BY <1>5, <2>2, <2>3, <2>4, <2>6, RunRecalls
  <2>7. QED
    BY <2>5, <2>6
<1>6. ASSUME NEW n \in Notifiers, RunMark(n) \/ RunStep(n), ~Sweep(n)
      PROVE  (\A tq \in tracked' : Kept1(tq)') /\ \A m \in Notifiers : Hit(m)'
  <2>1. cache' = cache
    BY <1>6 DEF RunMark, RunStep, Execute, TrackLookup, TrackAdd, Recall,
                RecallHit, RecallMiss, Rendered, RenderFails, Return, Ask
  <2>2. ASSUME NEW tq \in tracked', tq.cacheAccessed PROVE cache'[tq.view] # None
    <3>1. PICK tp \in tracked :
            /\ SameUse(tp, tq)
            /\ tp.cacheAccessed \/ (rpc[n] = "accessed" /\ Of(n, rdep[n], tp))
      BY <1>6, <2>2, RunPairs
    <3>2. QED
      BY <1>0, <2>1, <3>1 DEF Of, SameUse
  <2>3. ASSUME NEW m \in Notifiers, rpc'[m] = "accessed"
        PROVE  cache'[rdep'[m]] # None /\ got'[m][rdep'[m]] # None
    <3>1. CASE m # n
      <4>1. rpc'[m] = rpc[m] /\ rdep'[m] = rdep[m] /\ got'[m] = got[m]
        BY <1>6, <3>1
           DEF RunMark, RunStep, Execute, TrackLookup, TrackAdd, Recall,
               RecallHit, RecallMiss, Rendered, RenderFails, Return, Ask,
               TypeOK
      <4>2. QED
        BY <1>0, <2>1, <2>3, <4>1
    <3>2. CASE m = n
      <4>1. Recall(n)
        BY <1>6, <2>3, <3>2
           DEF RunMark, RunStep, Execute, TrackLookup, TrackAdd, RecallHit,
               RecallMiss, Rendered, RenderFails, Return, Ask, TypeOK
      <4>2. /\ rdep[n] \in Deps /\ rdep' = rdep /\ cache[rdep[n]] # None
            /\ got'[n] = [got[n] EXCEPT ![rdep[n]] = cache[rdep[n]]]
            /\ got[n] \in [Deps -> Values]
        BY <2>3, <3>2, <4>1 DEF Recall, PcInv, Asking, TypeOK
      <4>3. QED
        BY <2>1, <3>2, <4>2
    <3>3. QED
      BY <3>1, <3>2
  <2>4. QED
    BY <1>5, <1>6, <2>2, <2>3
<1>7. CASE Sweeps
  <2>1. PICK n \in Notifiers :
          /\ SweepEffect(n) /\ UNCHANGED <<asked, got, rdep>>
          /\ \A m \in Notifiers : m # n => rpc'[m] = rpc[m]
          /\ \/ Sweep(n)
             \/ cpc = "sweep" /\ n = ctarget /\ rpc' = rpc
    BY <1>7, SweepsEffect
  <2>2. /\ tracked' \subseteq tracked /\ tracked' = Kept(tracked, n)
        /\ \A tp \in tracked' : cache'[tp.view] = cache[tp.view]
    BY <2>1, SweepFacts
  <2>3. \A tp \in tracked' : Recalled(tp.notify, tp.view)' =>
                               Recalled(tp.notify, tp.view)
    <3>1. CASE Sweep(n)
      BY <1>00, <2>1, <2>2, <3>1 DEF Sweep, Recalled, TypeOK
    <3>2. CASE rpc' = rpc
      BY <2>1, <3>2 DEF Recalled
    <3>3. QED
      BY <2>1, <3>1, <3>2
  <2>4. \A tp \in tracked' : Kept1(tp)'
    BY <1>0, <2>1, <2>2, <2>3
  <2>5. ASSUME NEW m \in Notifiers, rpc'[m] = "accessed" PROVE Hit(m)'
    <3>1. m # n /\ rpc[m] = "accessed"
      <4>1. CASE Sweep(n)
        BY <2>1, <2>5, <4>1 DEF Sweep, TypeOK
      <4>2. CASE cpc = "sweep" /\ n = ctarget /\ rpc' = rpc
        BY <2>5, <4>2 DEF RegInv
      <4>3. QED
        BY <2>1, <4>1, <4>2
    <3>2. PICK tp \in tracked : Of(m, rdep[m], tp)
      BY <3>1, AccessedIsTracked
    <3>3. tp \in tracked'
      BY <2>2, <3>1, <3>2 DEF Kept, Of
    <3>4. QED
      BY <1>0, <2>1, <2>2, <3>1, <3>2, <3>3 DEF Of
  <2>6. QED
    BY <2>4, <2>5
<1>8. CASE DeregisterMark
  <2>1. /\ UNCHANGED <<cache, resolverVars>>
        /\ tracked' = MarkForSweep(tracked, ctarget)
        /\ ctarget \in Notifiers /\ tracked \in SUBSET Pairs
    BY <1>8 DEF DeregisterMark, RegInv, TypeOK
  <2>2. \A tq \in tracked' : \E tp \in tracked :
          /\ SameUse(tp, tq) /\ tq.cacheAccessed = tp.cacheAccessed
          /\ tq.mark <=> tp.mark /\ tp.notify # ctarget
    BY <2>1, ForSweepPairs
  <2>3. QED
    BY <1>0, <2>1, <2>2 DEF SameUse, Recalled
<1>9. CASE StopReset
  BY <1>2, <1>9 DEF StopReset, PcInv
<1>10. QED
  BY <1>2, <1>3, <1>4, <1>6, <1>7, <1>8, <1>9
     DEF Next, Change, ViewStep, ViewFetch, ViewDeliver, ViewEnds,
         ViewGivesUp, WaitEnter, WaitLeave, WaitStep, WaitStopped,
         WaitReceive, WaitLookup, WaitNotify, WaitNotified,
         ControlStep, Deregister, StopViews, StopSignal, Sweeps

\* Every step keeps a template from being left behind the cache.
LEMMA FreshStep ==
    ASSUME TypeOK, PcInv, RegInv, RegInv', ViewsAccounted, TrackInv,
           LastGotIsFresh, [Next]_vars
    PROVE  LastGotIsFresh'
<1> USE DEF vars, upstream, trackerVars, viewVars, waitVars, resolverVars,
        templateVars, controlVars, Goto
<1> DEFINE Fresh(n, d) == Recalled(n, d) /\ ~halted /\ wpc # "panic"
                 => got[n][d] = cache[d] \/ dirty[n] \/ AboutToNotify(n, d)
<1> SUFFICES ASSUME ~halted', wpc' # "panic"
             PROVE  \A tp \in tracked' : Fresh(tp.notify, tp.view)'
  BY DEF LastGotIsFresh
<1>1. ~halted /\ wpc # "panic"
  BY DEF Next, Change, ViewStep, ViewFetch, ViewDeliver, ViewEnds,
         ViewGivesUp, WaitEnter, WaitLeave, WaitStep, WaitStopped,
         WaitReceive, WaitSave, WaitLookup, WaitNotify, WaitNotified,
         RunMark, RunStep, Execute, TrackLookup, TrackAdd, Recall, RecallHit,
         RecallMiss, Rendered, RenderFails, Sweep, Return, Ask, ControlStep,
         Deregister, DeregisterMark, DeregisterSweep, StopViews, StopSignal,
         StopReset
<1>0. \A tp \in tracked : Fresh(tp.notify, tp.view)
  BY DEF LastGotIsFresh
<1>00. \A tp \in tracked : tp.notify \in Notifiers /\ tp.view \in Deps
  BY DEF TypeOK, Pairs
<1>2. CASE UNCHANGED <<tracked, cache, resolverVars, dirty, wpc, wview, toNotify>>
  BY <1>0, <1>1, <1>2 DEF Recalled, AboutToNotify
<1>3. ASSUME UNCHANGED <<tracked, cache, resolverVars, dirty>>,
             \A n \in Notifiers, d \in Deps : ~AboutToNotify(n, d)
      PROVE  \A tp \in tracked' : Fresh(tp.notify, tp.view)'
  BY <1>0, <1>00, <1>1, <1>3 DEF Recalled
<1>4. ASSUME wpc \notin {"lookup", "notify"} \/ (wpc = "notify" /\ toNotify = {})
      PROVE  \A n \in Notifiers, d \in Deps : ~AboutToNotify(n, d)
  BY <1>4 DEF AboutToNotify
<1>5. CASE WaitSave
  <2>1. /\ wpc = "save" /\ wpc' = "lookup" /\ wview # None /\ wview' = wview
        /\ cache' = [cache EXCEPT ![DepOf(wview)] = wdata]
        /\ UNCHANGED <<tracked, resolverVars, dirty>>
    BY <1>5 DEF WaitSave, PcInv
  <2>2. \A n \in Notifiers, d \in Deps : ~AboutToNotify(n, d)
    BY <1>4, <2>1
  <2>3. \A d \in Deps : d # DepOf(wview) => cache'[d] = cache[d]
    BY <2>1 DEF TypeOK
  <2>4. \A n \in Notifiers : AboutToNotify(n, DepOf(wview))'
    BY <2>1 DEF AboutToNotify
  <2>5. QED
    BY <1>0, <1>00, <1>1, <2>1, <2>2, <2>3, <2>4 DEF Recalled
<1>6. CASE WaitLookup
  <2>1. /\ UNCHANGED <<tracked, cache, resolverVars, dirty, wview>>
        /\ wpc = "lookup" /\ wview # None
        /\ toNotify' = NotifiersFor(tracked, DepOf(wview)) /\ wpc' = "notify"
    BY <1>6 DEF WaitLookup, PcInv
  <2>2. \A tp \in tracked : tp.view = DepOf(wview) => tp.notify \in toNotify'
    BY <2>1 DEF NotifiersFor
  <2>3. \A tp \in tracked : AboutToNotify(tp.notify, tp.view) =>
                              AboutToNotify(tp.notify, tp.view)'
    BY <2>1, <2>2 DEF AboutToNotify
  <2>4. QED
    BY <1>0, <1>1, <2>1, <2>3 DEF Recalled
<1>7. ASSUME NEW m \in Notifiers, WaitNotify(m)
      PROVE  \A tp \in tracked' : Fresh(tp.notify, tp.view)'
  <2>1. /\ UNCHANGED <<tracked, cache, resolverVars, wview, wpc>>
        /\ wpc = "notify" /\ toNotify' = toNotify \ {m} /\ dirty'[m]
        /\ \A n \in Notifiers : n # m => dirty'[n] = dirty[n]
    BY <1>7 DEF WaitNotify, TypeOK
  <2>2. \A n \in Notifiers, d \in Deps :
          AboutToNotify(n, d) => n = m \/ AboutToNotify(n, d)'
    BY <2>1 DEF AboutToNotify
  <2>3. QED
    BY <1>0, <1>00, <1>1, <2>1, <2>2 DEF Recalled
<1>8. CASE WaitEnter \/ WaitStopped \/ WaitLeave \/ WaitReceive \/ WaitNotified
  <2>1. /\ UNCHANGED <<tracked, cache, resolverVars, dirty>>
        /\ wpc \notin {"lookup", "notify"} \/ (wpc = "notify" /\ toNotify = {})
    BY <1>8 DEF WaitEnter, WaitStopped, WaitLeave, WaitReceive, WaitNotified
  <2>2. QED
    BY <1>3, <1>4, <2>1
<1>9. ASSUME NEW v \in Views, ViewStep(v)
      PROVE  \A tp \in tracked' : Fresh(tp.notify, tp.view)'
  <2>1. CASE ViewGivesUp(v)
    BY <1>3, <1>4, <2>1 DEF ViewGivesUp
  <2>2. CASE ~ViewGivesUp(v)
    BY <1>2, <1>9, <2>2 DEF ViewStep, ViewFetch, ViewDeliver, ViewEnds
  <2>3. QED
    BY <2>1, <2>2
<1>10. ASSUME NEW n \in Notifiers, RunMark(n) \/ RunStep(n),
              UNCHANGED <<wpc, wview, toNotify>>,
              \A tq \in tracked' : cache'[tq.view] = cache[tq.view]
       PROVE  \A tq \in tracked' : Fresh(tq.notify, tq.view)'
  <2> SUFFICES ASSUME NEW tq \in tracked', Recalled(tq.notify, tq.view)'
               PROVE  \/ got'[tq.notify][tq.view] = cache[tq.view]
                      \/ dirty'[tq.notify]
                      \/ AboutToNotify(tq.notify, tq.view)
    BY <1>10 DEF AboutToNotify
  <2>1. PICK tp \in tracked : SameUse(tp, tq)
    BY <1>10, RunPairs
  <2>2. /\ Fresh(tq.notify, tq.view)
        /\ tq.notify \in Notifiers /\ tq.view \in Deps
    BY <1>0, <1>00, <2>1 DEF SameUse
  <2>3. CASE tq.notify # n
    BY <1>1, <1>10, <2>2, <2>3, RunRecalls
  <2>4. CASE tq.notify = n
    BY <1>1, <1>10, <2>2, <2>4, RunRecalls
  <2>5. QED
    BY <2>3, <2>4
<1>11. ASSUME NEW n \in Notifiers, RunMark(n) \/ RunStep(n)
       PROVE  \A tq \in tracked' : Fresh(tq.notify, tq.view)'
  <2>1. UNCHANGED <<wpc, wview, toNotify>>
    BY <1>11 DEF RunMark, RunStep, Execute, TrackLookup, TrackAdd, Recall,
                 RecallHit, RecallMiss, Rendered, RenderFails, Sweep, Return,
                 Ask
  <2>2. CASE Sweep(n)
    BY <1>10, <1>11, <2>1, <2>2, SweepFacts DEF Sweep
  <2>3. CASE ~Sweep(n)
    <3>1. cache' = cache
      BY <1>11, <2>3
         DEF RunMark, RunStep, Execute, TrackLookup, TrackAdd, Recall,
             RecallHit, RecallMiss, Rendered, RenderFails, Return, Ask
    <3>2. QED
      BY <1>10, <1>11, <2>1, <3>1
  <2>4. QED
    BY <2>2, <2>3
<1>12. CASE DeregisterMark
  <2>1. /\ UNCHANGED <<cache, resolverVars, dirty, wpc, wview, toNotify>>
    BY <1>12 DEF DeregisterMark
  <2>2. \A tq \in tracked' : \E tp \in tracked : SameUse(tp, tq)
    BY <1>12, SameUses DEF Remarks
  <2>3. QED
    BY <1>0, <1>1, <2>1, <2>2 DEF SameUse, Recalled, AboutToNotify
<1>13. CASE DeregisterSweep
  <2>1. UNCHANGED <<resolverVars, dirty, wpc, wview, toNotify>>
        /\ \E n \in Notifiers : SweepEffect(n)
    BY <1>13 DEF DeregisterSweep, RegInv
  <2>2. /\ tracked' \subseteq tracked
        /\ \A tp \in tracked' : cache'[tp.view] = cache[tp.view]
    BY <2>1, SweepFacts
  <2>3. QED
    BY <1>0, <1>1, <2>1, <2>2 DEF Recalled, AboutToNotify
<1>14. CASE StopReset
  BY <1>1, <1>14 DEF StopReset, PcInv
<1>15. QED
  BY <1>1, <1>2, <1>5, <1>6, <1>7, <1>8, <1>9, <1>11, <1>12, <1>13, <1>14
     DEF Next, Change, WaitStep, ControlStep, Deregister, StopViews, StopSignal

\* Every step keeps what was rendered the same as what was got.
LEMMA RenderStep ==
    ASSUME TypeOK, RenderInv, [Next]_vars
    PROVE  RenderInv'
<1> USE DEF vars, upstream, trackerVars, viewVars, waitVars, resolverVars,
        templateVars, controlVars, Goto
<1> SUFFICES ASSUME ~MayFail, NEW m \in Notifiers,
                    rpc'[m] \in {"idle", "execute", "sweep", "complete"}
             PROVE  rendered'[m] = got'[m]
  BY DEF RenderInv
<1>1. CASE UNCHANGED <<rpc, got, rendered>>
  BY <1>1 DEF RenderInv
<1>2. ASSUME NEW n \in Notifiers, RunMark(n) \/ RunStep(n)
      PROVE  rendered'[m] = got'[m]
  <2>1. CASE m # n
    <3>1. /\ rpc'[m] = rpc[m] /\ got'[m] = got[m] /\ rendered'[m] = rendered[m]
      BY <1>2, <2>1
         DEF RunMark, RunStep, Execute, TrackLookup, TrackAdd, Recall,
             RecallHit, RecallMiss, Rendered, RenderFails, Sweep, Return, Ask,
             TypeOK
    <3>2. QED
      BY <3>1 DEF RenderInv
  <2>2. CASE m = n
    <3>1. CASE RunMark(n) \/ Sweep(n) \/ Return(n)
      BY <2>2, <3>1 DEF RunMark, Sweep, Return, RenderInv
    <3>2. CASE Execute(n)
      BY <2>2, <3>2 DEF Execute, RenderInv, TypeOK
    <3>3. CASE Rendered(n)
      BY <2>2, <3>3 DEF Rendered, TypeOK
    <3>4. QED
      BY <1>2, <2>2, <3>1, <3>2, <3>3
         DEF RunStep, TrackLookup, TrackAdd, Recall, RecallHit, RecallMiss,
             RenderFails, Ask, TypeOK
  <2>3. QED
    BY <2>1, <2>2
<1>3. QED
  BY <1>1, <1>2
     DEF Next, Change, ViewStep, ViewFetch, ViewDeliver, ViewEnds,
         ViewGivesUp, WaitEnter, WaitLeave, WaitStep, WaitStopped,
         WaitReceive, WaitSave, WaitLookup, WaitNotify, WaitNotified,
         ControlStep, Deregister, DeregisterMark, DeregisterSweep,
         StopViews, StopSignal, StopReset

-----------------------------------------------------------------------------
(* Theorems.                                                               *)

\* Every step keeps the invariant.
LEMMA IndStep == Ind /\ [Next]_vars => Ind'
<1> SUFFICES ASSUME Ind, [Next]_vars PROVE Ind'
  OBVIOUS
<1>1. RegInv'
  BY RegStep DEF Ind
<1>2. QED
  BY <1>1, TypeStep, PcStep, ViewsStep, TrackStep, DataStep, AccessStep,
     FreshStep, RenderStep DEF Ind

\* The invariant holds in every state of the watcher.
THEOREM IndInvariant == Spec => []Ind
BY InitInd, IndStep, PTL DEF Spec

\* The variables have their types.
THEOREM TypeCorrect == Spec => []TypeOK
BY IndInvariant, PTL DEF Ind

\* The tracker's table and the view objects agree (tracker.add, sweep and
\* stopViews, watcher.go), whichever templates add and sweep concurrently.
THEOREM ViewsAccountedHolds == Spec => []ViewsAccounted
BY IndInvariant, PTL DEF Ind

\* notifiersFor returns a notifier that is gone (watcher.go) only while
\* Deregister has deleted the notifier and not yet its pairs.
THEOREM PanicsOnlyInDeregisterHolds == Spec => PanicsOnlyInDeregister
<1>1. Ind /\ [Next]_vars =>
        [WaitLookup /\ wpc' = "panic" => cpc \in {"mark", "sweep"}]_vars
  <2> SUFFICES ASSUME Ind, WaitLookup, wpc' = "panic"
               PROVE  cpc \in {"mark", "sweep"}
    OBVIOUS
  <2>1. ~(NotifiersFor(tracked, DepOf(wview)) \subseteq notifiers)
    BY DEF WaitLookup
  <2>2. PICK tp \in tracked : tp.notify \notin notifiers
    BY <2>1 DEF NotifiersFor
  <2>3. QED
    BY <2>2 DEF Ind, RegInv
<1>2. QED
  BY IndInvariant, <1>1, PTL DEF Spec, PanicsOnlyInDeregister

\* Whatever happens between Recall, Save, Notify and Sweep, the values that a
\* template got in its last evaluation, also in one that failed, are the ones
\* in the cache, or the template is going to be evaluated again (until Stop,
\* or the panic above, ends the process).
THEOREM LastGotIsFreshHolds == Spec => []LastGotIsFresh
BY IndInvariant, PTL DEF Ind

\* A template that evaluates without an error is never left behind the cache.
THEOREM NoStaleTemplateHolds ==
    ASSUME ~MayFail
    PROVE  Spec => []NoStaleTemplate
<1>1. Ind => NoStaleTemplate
  <2> SUFFICES ASSUME Ind, NEW tp \in tracked,
                      rpc[tp.notify] = "idle", tp.view \in asked[tp.notify],
                      ~halted, wpc # "panic"
               PROVE  \/ rendered[tp.notify][tp.view] = cache[tp.view]
                      \/ dirty[tp.notify]
                      \/ AboutToNotify(tp.notify, tp.view)
    BY DEF NoStaleTemplate
  <2>1. tp.notify \in Notifiers
    BY DEF Ind, TypeOK, Pairs
  <2>2. rendered[tp.notify] = got[tp.notify]
    BY <2>1 DEF Ind, RenderInv
  <2>3. Recalled(tp.notify, tp.view)
    BY DEF Recalled
  <2>4. QED
    BY <2>2, <2>3 DEF Ind, LastGotIsFresh
<1>2. QED
  BY IndInvariant, <1>1, PTL

\* Resolver.Run reports Complete only if the last evaluation of the template,
\* failed or not, got a value for every dependency it asked for.
THEOREM CompleteMeansRecalledHolds == Spec => CompleteMeansRecalled
<1>1. Ind /\ [Next]_vars =>
        [\A n \in Notifiers :
           Return(n) /\ Complete(tracked, n) /\ ~halted =>
               \A d \in asked[n] : got[n][d] # None]_vars
  <2> SUFFICES ASSUME Ind, NEW n \in Notifiers, Return(n),
                      Complete(tracked, n), ~halted, NEW d \in asked[n]
               PROVE  got[n][d] # None
    OBVIOUS
  <2>1. rpc[n] = "complete"
    BY DEF Return
  <2>2. n \in notifiers /\ d \in Deps /\ Reached(n, d) /\ Recalled(n, d)
    BY <2>1 DEF Ind, RegInv, TypeOK, Reached, Recalled
  <2>3. PICK tp \in tracked : Of(n, d, tp)
    BY <2>2 DEF Ind, TrackInv
  <2>4. tp.cacheAccessed
    BY <2>3 DEF Complete, Of
  <2>5. QED
    BY <2>2, <2>3, <2>4 DEF Ind, AccessInv, Of
<1>2. QED
  BY IndInvariant, <1>1, PTL DEF Spec, CompleteMeansRecalled
=============================================================================
