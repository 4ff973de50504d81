-------------------------- MODULE ConsulFeedProofs --------------------------
(***************************************************************************)
(* Proofs about ConsulFeed and ClientSet: for any template, any states of  *)
(* Consul, any limit on hasLeader's waits and any number of calls.         *)
(*                                                                         *)
(* The program that sets up its clients and the one that evaluates a       *)
(* template are invariants of their own: the first follows a call of       *)
(* AddConsul or AddVault (MakerInv), the second what the views carry.      *)
(***************************************************************************)
EXTENDS ConsulFeed, TLAPS

\* A call of AddConsul or AddVault: the input under way can be used, and
\* hasLeader has slept for every wait before the last.
Makers ==
  [pc : {"idle", "failed", "leader", "sleep", "noLeader", "unwrap"},
   input : Inputs, retryTime : Nat, waited : Nat]

MakerInv ==
  /\ maker \in Makers
  /\ maker.pc \in {"leader", "sleep", "unwrap"} => ~ creationFails(maker.input)
  /\ maker.pc = "leader" =>
       /\ maker.retryTime \in 1 .. MaxRetryWait
       /\ maker.waited = 2 * maker.retryTime - 2
  /\ maker.pc = "sleep" =>
       /\ maker.retryTime \in 2 .. MaxRetryWait
       /\ maker.waited = maker.retryTime - 2
  /\ maker.pc = "noLeader" =>
       /\ maker.retryTime \in MaxRetryWait + 1 .. 2 * MaxRetryWait
       /\ maker.waited = maker.retryTime - 2
       /\ \E k \in Nat : maker.retryTime = 2 * k

ClientInv == MakerInv /\ SetHoldsWorkingClients

-----------------------------------------------------------------------------
\* A call that has ended is a call.
LEMMA RestingIsMaker ==
  ASSUME NEW pc \in {"idle", "failed"}
  PROVE  Resting(pc) \in Makers /\ Resting(pc).pc = pc
BY DEF Resting, Makers, NoInput, Inputs

\* A call that has slept goes on with all it has.
LEMMA MakerSlept ==
  ASSUME NEW m \in Makers
  PROVE  LET n == [m EXCEPT !.pc = "leader", !.waited = m.waited + m.retryTime]
         IN  /\ n \in Makers /\ n.pc = "leader" /\ n.retryTime = m.retryTime
             /\ n.waited = m.waited + m.retryTime /\ n.input = m.input
<1>1. m.waited + m.retryTime \in Nat
  BY DEF Makers
<1>2. QED
  BY <1>1 DEF Makers

\* A client made of an input that can be used is a working one.
LEMMA WorkingClient ==
  ASSUME NEW i \in Inputs, NEW token, ~ creationFails(i)
  PROVE  LET c == Client(i, token)
         IN  /\ ~ creationFails(c.input) /\ (c.skipsVerify => ~ c.input.verify)
             /\ c.token = token /\ c.input = i
BY DEF Client, Inputs

\* Steps of AddConsul and AddVault that change neither client.
LEMMA ClientsAlone ==
  ASSUME MakerInv', SetHoldsWorkingClients, UNCHANGED <<consul, vault>>
  PROVE  ClientInv'
BY DEF ClientInv, SetHoldsWorkingClients

\* Every step of AddConsul and AddVault keeps the invariant.
LEMMA ClientStep ==
  ASSUME ClientInv, ClientNext
  PROVE  ClientInv'
<1> USE ClientSetAssumption
<1>0. MakerInv /\ SetHoldsWorkingClients /\ maker \in Makers /\ maker.input \in Inputs
  BY DEF ClientInv, MakerInv, Makers
<1>1. ASSUME NEW pc \in {"idle", "failed"}, maker' = Resting(pc)
      PROVE  MakerInv'
  BY <1>1, RestingIsMaker DEF MakerInv
<1>2. ASSUME NEW i \in Inputs, CreateConsulClient(i) PROVE ClientInv'
  <2>1. CASE creationFails(i)
    BY <1>0, <1>1, <1>2, <2>1, ClientsAlone DEF CreateConsulClient
  <2>2. CASE ~ creationFails(i)
    <3>1. maker' = [pc |-> "leader", input |-> i, retryTime |-> 1, waited |-> 0]
      BY <1>2, <2>2 DEF CreateConsulClient
    <3>2. MakerInv'
      BY <2>2, <3>1 DEF MakerInv, Makers
    <3>3. QED
      BY <1>0, <1>2, <3>2, ClientsAlone DEF CreateConsulClient
  <2>3. QED
    BY <2>1, <2>2
<1>3. ASSUME NEW i \in Inputs, CreateVaultClient(i) PROVE ClientInv'
  <2>1. CASE creationFails(i)
    BY <1>0, <1>1, <1>3, <2>1, ClientsAlone DEF CreateVaultClient
  <2>2. CASE ~ creationFails(i) /\ i.unwrap
    <3>1. maker' = [Resting("unwrap") EXCEPT !.input = i] /\ UNCHANGED <<consul, vault>>
      BY <1>3, <2>2 DEF CreateVaultClient
    <3>2. MakerInv'
      BY <2>2, <3>1 DEF MakerInv, Makers, Resting
    <3>3. QED
      BY <1>0, <3>1, <3>2, ClientsAlone
  <2>3. CASE ~ creationFails(i) /\ ~ i.unwrap
    <3>1. /\ vault' = Client(i, i.token) /\ UNCHANGED consul
          /\ maker' = Resting("idle")
      BY <1>3, <2>3 DEF CreateVaultClient
    <3>2. SetHoldsWorkingClients'
      BY <1>0, <2>3, <3>1, WorkingClient DEF SetHoldsWorkingClients
    <3>3. QED
      BY <1>1, <3>1, <3>2 DEF ClientInv
  <2>4. QED
    BY <2>1, <2>2, <2>3
<1>4. CASE LeaderFound
  <2>1. /\ consul' = Client(maker.input, maker.input.token) /\ UNCHANGED vault
        /\ maker' = Resting("idle") /\ ~ creationFails(maker.input)
    BY <1>0, <1>4 DEF LeaderFound, MakerInv
  <2>2. SetHoldsWorkingClients'
    BY <1>0, <2>1, WorkingClient DEF SetHoldsWorkingClients
  <2>3. QED
    BY <1>1, <2>1, <2>2 DEF ClientInv
<1>5. CASE LeaderRefused \/ UnwrapFails
  BY <1>0, <1>1, <1>5, ClientsAlone DEF LeaderRefused, UnwrapFails
<1>6. CASE NoLeaderYet
  <2>1. /\ maker.pc = "leader"
        /\ maker.retryTime \in 1 .. MaxRetryWait
        /\ maker.waited = 2 * maker.retryTime - 2
        /\ ~ creationFails(maker.input)
    BY <1>0, <1>6 DEF NoLeaderYet, MakerInv
  <2>2. maker' = [maker EXCEPT
                    !.pc = IF maker.retryTime * 2 > MaxRetryWait THEN "noLeader" ELSE "sleep",
                    !.retryTime = maker.retryTime * 2]
    BY <1>6 DEF NoLeaderYet
  <2>3. /\ maker' \in Makers
        /\ maker'.pc = IF maker.retryTime * 2 > MaxRetryWait THEN "noLeader" ELSE "sleep"
        /\ maker'.retryTime = maker.retryTime * 2
        /\ maker'.waited = maker.waited /\ maker'.input = maker.input
    <3> DEFINE pc == IF maker.retryTime * 2 > MaxRetryWait THEN "noLeader" ELSE "sleep"
               time == maker.retryTime * 2
    <3>1. pc \in {"sleep", "noLeader"} /\ time \in Nat
      BY <2>1
    <3>2. maker' = [maker EXCEPT !.pc = pc, !.retryTime = time]
      BY <2>2
    <3> HIDE DEF pc, time
    <3>3. /\ maker' \in Makers /\ maker'.pc = pc /\ maker'.retryTime = time
          /\ maker'.waited = maker.waited /\ maker'.input = maker.input
      BY <1>0, <3>1, <3>2 DEF Makers
    <3>4. QED
      BY <3>3 DEF pc, time
  <2>4. maker'.waited = maker'.retryTime - 2 /\ maker'.retryTime >= 2
    BY <2>1, <2>3
  <2>5. MakerInv'
    BY <2>1, <2>3, <2>4 DEF MakerInv
  <2>6. QED
    BY <1>0, <1>6, <2>5, ClientsAlone DEF NoLeaderYet
<1>7. CASE LeaderSleepEnds
  <2>1. /\ maker.pc = "sleep"
        /\ maker.retryTime \in 2 .. MaxRetryWait
        /\ maker.waited = maker.retryTime - 2
        /\ ~ creationFails(maker.input)
    BY <1>0, <1>7 DEF LeaderSleepEnds, MakerInv
  <2>2. maker' = [maker EXCEPT !.pc = "leader", !.waited = maker.waited + maker.retryTime]
    BY <1>7 DEF LeaderSleepEnds
  <2>3. /\ maker' \in Makers /\ maker'.pc = "leader"
        /\ maker'.retryTime = maker.retryTime
        /\ maker'.waited = maker.waited + maker.retryTime
        /\ maker'.input = maker.input
    BY <1>0, <2>2, MakerSlept
  <2>4. MakerInv'
    BY <2>1, <2>3 DEF MakerInv
  <2>5. QED
    BY <1>0, <1>7, <2>4, ClientsAlone DEF LeaderSleepEnds
<1>8. CASE Unwrapped
  <2>1. /\ vault' = Client(maker.input, "unwrapped") /\ UNCHANGED consul
        /\ maker' = Resting("idle") /\ ~ creationFails(maker.input)
    BY <1>0, <1>8 DEF Unwrapped, MakerInv
  <2>2. SetHoldsWorkingClients'
    BY <1>0, <2>1, WorkingClient DEF SetHoldsWorkingClients
  <2>3. QED
    BY <1>1, <2>1, <2>2 DEF ClientInv
<1>9. QED
  BY <1>2, <1>3, <1>4, <1>5, <1>6, <1>7, <1>8 DEF ClientNext

\* The program that evaluates a template leaves its clients alone.
LEMMA ClientsOfFeed ==
  ASSUME FeedNext
  PROVE  UNCHANGED clientVars
BY DEF FeedNext, Ask, Stop, ViewStep, FetchStopped, FetchAsks, SleepEnds,
   SleepStopped, NodeNamed, FetchAnswered, FetchFails, FetchCancelled, Deliver,
   PollStopped, PollAgain, Goes, To, Change, Touch, Hang, Serves

\* The clients of the set and the call under way are in order in every
\* reachable state.
THEOREM ClientInvariant == Spec => []ClientInv
<1>1. Init => ClientInv
  <2> SUFFICES ASSUME Init PROVE ClientInv
    OBVIOUS
  <2>1. maker = Resting("idle") /\ vault = NoClient
        /\ (consul = NoClient \/ consul = Client(NoInput, "none"))
    BY DEF Init, ClientInit
  <2>2. MakerInv
    BY <2>1, RestingIsMaker DEF MakerInv
  <2>3. SetHoldsWorkingClients
    <3>1. ~ NoClient.made
      BY DEF NoClient
    <3>2. NoInput \in Inputs /\ ~ creationFails(NoInput)
      BY DEF NoInput, Inputs, newTransportFails, creationFails
    <3>3. QED
      BY <2>1, <3>1, <3>2, WorkingClient DEF SetHoldsWorkingClients
  <2>4. QED
    BY <2>2, <2>3 DEF ClientInv
<1>2. ClientInv /\ [Next]_vars => ClientInv'
  <2> SUFFICES ASSUME ClientInv, [Next]_vars PROVE ClientInv'
    OBVIOUS
  <2>1. CASE ClientNext
    BY <2>1, ClientStep
  <2>2. CASE UNCHANGED clientVars
    BY <2>2 DEF ClientInv, MakerInv, SetHoldsWorkingClients, clientVars
  <2>3. QED
    BY <2>1, <2>2, ClientsOfFeed DEF Next, vars
<1>3. QED
  BY <1>1, <1>2, PTL DEF Spec

\* CreateConsulClient and CreateVaultClient: only clients that were made of
\* certificates that load, of a valid address, and of an unwrapped token where
\* one was asked for, reach the set, however calls fail and are made again.
THEOREM SetHoldsWorkingClientsHolds == Spec => []SetHoldsWorkingClients
<1>1. ClientInv => SetHoldsWorkingClients
  BY DEF ClientInv
<1>2. QED
  BY <1>1, ClientInvariant, PTL

\* hasLeader: for any even limit, as the code's sixty seconds are, a cluster
\* without a leader gets the whole of it.  (For an odd one it may get a second
\* less: with a limit of 2^n - 1 seconds the waits add up to 2^n - 2.)
THEOREM LeaderGetsItsTimeHolds ==
  ASSUME NEW half \in Nat, MaxRetryWait = 2 * half
  PROVE  Spec => []LeaderGetsItsTime
<1>1. ClientInv => LeaderGetsItsTime
  <2> SUFFICES ASSUME ClientInv, maker.pc = "noLeader"
               PROVE  maker.waited \in MaxRetryWait .. 2 * MaxRetryWait
    BY DEF LeaderGetsItsTime
  <2>1. PICK k \in Nat : maker.retryTime = 2 * k
    BY DEF ClientInv, MakerInv
  <2>2. /\ maker.retryTime > MaxRetryWait /\ maker.retryTime <= 2 * MaxRetryWait
        /\ maker.waited = maker.retryTime - 2 /\ maker.retryTime \in Nat
    BY ClientSetAssumption DEF ClientInv, MakerInv, Makers
  <2>3. k >= half + 1
    BY <2>1, <2>2
  <2>4. QED
    BY <2>1, <2>2, <2>3
<1>2. QED
  BY <1>1, ClientInvariant, PTL

-----------------------------------------------------------------------------
(***************************************************************************)
(* The template: what a view and a request look like.                      *)
(***************************************************************************)
ViewOK(v) ==
  v \in [ query : {v.query}, lastIndex : Nat, received : BOOLEAN,
          pc : {"fetch", "sleep", "naming", "asked", "deliver", "ended"},
          data : {v.data}, request : {v.request}, stopped : BOOLEAN ]

\* A blocking query asks for what is newer than the last answer.
AsksForNews(v) ==
  /\ v.pc \in {"sleep", "naming", "asked"}
  /\ v.query.kind \notin {"kv.exists", "catalog.datacenters"}
  => v.request.WaitIndex = v.lastIndex

ServerOK(s) == s \in [world : {s.world}, index : Nat \ {0}, hung : BOOLEAN]

FeedInv ==
  /\ ServerOK(server) /\ errors \in Nat
  /\ \A i \in DOMAIN views : ViewOK(views[i]) /\ AsksForNews(views[i])

\* The index of the last answer gets through the options of the query itself.
LEMMA WaitIndexSurvives ==
  ASSUME NEW q, NEW v, v.lastIndex \in Nat, q.kind # "kv.exists"
  PROVE  ToConsulOpts(Merge(SetOptions(q, ViewOptions(v)), OwnOptions(q))).WaitIndex
           = v.lastIndex
<1> DEFINE o == ViewOptions(v)
           own == OwnOptions(q)
           merged == Merge(o, own)
<1>1. SetOptions(q, o) = o
  BY DEF SetOptions
<1>2. /\ o.WaitIndex = v.lastIndex /\ "WaitIndex" \in DOMAIN o
      /\ own.WaitIndex = ZeroOptions.WaitIndex
  BY DEF ViewOptions, OwnOptions, ZeroOptions
<1> HIDE DEF o, own
<1>3. merged.WaitIndex = v.lastIndex /\ DOMAIN merged = DOMAIN o
  BY <1>2 DEF Merge
<1> HIDE DEF merged
<1>4. ToConsulOpts(merged).WaitIndex = v.lastIndex
  BY <1>2, <1>3 DEF ToConsulOpts
<1>5. QED
  BY <1>1, <1>4 DEF merged, o, own

\* A view that moves, the others stay.
LEMMA FeedGoes ==
  ASSUME FeedInv, NEW i \in DOMAIN views, NEW v, ViewOK(v), AsksForNews(v),
         views' = [views EXCEPT ![i] = v], server' = server,
         errors' \in {errors, errors + 1}
  PROVE  FeedInv'
BY DEF FeedInv

\* A place at which nothing is asked of a request.
LEMMA FeedRests ==
  ASSUME FeedInv, NEW i \in DOMAIN views, NEW pc \in {"fetch", "deliver", "ended"}
  PROVE  LET v == [views[i] EXCEPT !.pc = pc]
         IN  ViewOK(v) /\ AsksForNews(v)
<1> DEFINE v == [views[i] EXCEPT !.pc = pc]
<1>1. ViewOK(views[i])
  BY DEF FeedInv
<1>2. ViewOK(v) /\ v.pc = pc
  BY <1>1 DEF ViewOK
<1> HIDE DEF v
<1>3. AsksForNews(v)
  BY <1>2 DEF AsksForNews
<1>4. QED
  BY <1>2, <1>3 DEF v

\* What an error does to a view: it asks again or ends, with the index it had
\* or with none.
LEMMA FailureMoves ==
  ASSUME FeedInv, NEW i \in DOMAIN views, NEW code, FetchFails(i, code)
  PROVE  /\ UNCHANGED <<clientVars, template, server, cache>> /\ errors' = errors + 1
         /\ \E pc \in {"fetch", "ended"}, n \in Nat :
              views' = [views EXCEPT ![i] = [views[i] EXCEPT !.pc = pc, !.lastIndex = n]]
<1> DEFINE n == IF code = 500 THEN 0 ELSE views[i].lastIndex
<1>1. n \in Nat
  BY DEF FeedInv, ViewOK
<1>2. PICK pc \in {"fetch", "ended"} :
        views' = [views EXCEPT ![i].pc = pc,
                               ![i].lastIndex = IF code = 500 THEN 0 ELSE @]
  BY DEF FetchFails
<1>3. views' = [views EXCEPT ![i] = [views[i] EXCEPT !.pc = pc, !.lastIndex = n]]
  <2>1. [views[i] EXCEPT !.pc = pc].lastIndex = views[i].lastIndex
    BY DEF FeedInv, ViewOK
  <2>2. views' = [views EXCEPT ![i] = [views[i] EXCEPT !.pc = pc,
                                          !.lastIndex = IF code = 500 THEN 0 ELSE @]]
    BY <1>2
  <2>3. QED
    BY <2>1, <2>2
<1> HIDE DEF n
<1>4. QED
  BY <1>1, <1>3 DEF FetchFails

\* A place further on, with the same request.
LEMMA FeedAsked ==
  ASSUME FeedInv, NEW i \in DOMAIN views, views[i].pc \in {"sleep", "naming"}
  PROVE  LET v == [views[i] EXCEPT !.pc = "asked"]
         IN  ViewOK(v) /\ AsksForNews(v)
<1> DEFINE v == [views[i] EXCEPT !.pc = "asked"]
<1>1. ViewOK(views[i]) /\ AsksForNews(views[i])
  BY DEF FeedInv
<1>2. /\ ViewOK(v) /\ v.request = views[i].request /\ v.query = views[i].query
      /\ v.lastIndex = views[i].lastIndex
  BY <1>1 DEF ViewOK
<1> HIDE DEF v
<1>3. AsksForNews(v)
  BY <1>1, <1>2 DEF AsksForNews
<1>4. QED
  BY <1>2, <1>3 DEF v

\* Fetch asks with the options the view has set and its own.
LEMMA FeedAsks ==
  ASSUME FeedInv, NEW i \in DOMAIN views, FetchAsks(i)
  PROVE  FeedInv'
<1> DEFINE v == views[i]
           merged == ToConsulOpts(Merge(SetOptions(v.query, ViewOptions(v)), OwnOptions(v.query)))
<1>0. ViewOK(v) /\ v.lastIndex \in Nat
  BY DEF FeedInv, ViewOK
<1>1. v.query.kind # "kv.exists" => merged.WaitIndex = v.lastIndex
  BY <1>0, WaitIndexSurvives
<1> HIDE DEF merged
<1>2. ASSUME NEW request, NEW pc \in {"sleep", "naming", "asked"},
             \/ v.query.kind = "catalog.datacenters"
             \/ request = merged
      PROVE  LET u == [v EXCEPT !.request = request, !.pc = pc]
             IN  ViewOK(u) /\ AsksForNews(u)
  <2> DEFINE u == [v EXCEPT !.request = request, !.pc = pc]
  <2>1. /\ ViewOK(u) /\ u.request = request /\ u.query = v.query
        /\ u.lastIndex = v.lastIndex
    BY <1>0 DEF ViewOK
  <2> HIDE DEF u
  <2>2. AsksForNews(u)
    BY <1>1, <1>2, <2>1 DEF AsksForNews
  <2>3. QED
    BY <2>1, <2>2 DEF u
<1>3. CASE v.query.kind = "catalog.datacenters"
  <2> DEFINE pc == IF merged.WaitIndex # 0 THEN "sleep" ELSE "asked"
             u == [v EXCEPT !.request = NoRequest, !.pc = pc]
  <2>1. Goes(i, u)
    BY <1>3 DEF FetchAsks, merged
  <2>2. pc \in {"sleep", "naming", "asked"}
    OBVIOUS
  <2> HIDE DEF pc
  <2>3. ViewOK(u) /\ AsksForNews(u)
    BY <1>2, <1>3, <2>2
  <2> HIDE DEF u
  <2>4. QED
    BY <2>1, <2>3, FeedGoes DEF Goes
<1>4. ASSUME v.query.kind # "catalog.datacenters" PROVE FeedInv'
  <2>1. PICK pc \in {"naming", "asked"} :
          Goes(i, [v EXCEPT !.request = merged, !.pc = pc])
    BY <1>4 DEF FetchAsks, merged
  <2> DEFINE u == [v EXCEPT !.request = merged, !.pc = pc]
  <2>2. ViewOK(u) /\ AsksForNews(u)
    BY <1>2
  <2> HIDE DEF u
  <2>3. Goes(i, u)
    BY <2>1 DEF u
  <2>4. QED
    BY <2>2, <2>3, FeedGoes DEF Goes
<1>5. QED
  BY <1>3, <1>4

\* What an answer does to a view.
LEMMA FeedAnswered ==
  ASSUME FeedInv, NEW i \in DOMAIN views, NEW shown, FetchAnswered(i, shown)
  PROVE  FeedInv'
<1> DEFINE v == views[i]
           data == Result(v.query, Worlds[server.world], v.request, shown)
           read == [v EXCEPT !.pc = "fetch", !.lastIndex = IndexOf(v)]
           news == [read EXCEPT !.pc = "deliver", !.data = data, !.received = TRUE]
           same == [v EXCEPT !.pc = "fetch"]
<1>0. ViewOK(v) /\ server.index \in Nat
  BY DEF FeedInv, ServerOK
<1>1. \E u \in {same, read, news} : Goes(i, u)
  BY DEF FetchAnswered
<1>2. IndexOf(v) \in Nat
  BY <1>0 DEF IndexOf
<1>3. ViewOK(read) /\ read.pc = "fetch"
  BY <1>0, <1>2 DEF ViewOK
<1>4. ViewOK(same) /\ same.pc = "fetch"
  BY <1>0 DEF ViewOK
<1> HIDE DEF read, data
<1>5. ViewOK(news) /\ news.pc = "deliver"
  BY <1>3 DEF ViewOK
<1> HIDE DEF same, news
<1>6. AsksForNews(same) /\ AsksForNews(read) /\ AsksForNews(news)
  BY <1>3, <1>4, <1>5 DEF AsksForNews
<1>7. QED
  BY <1>1, <1>3, <1>4, <1>5, <1>6, FeedGoes DEF Goes

\* Every step of the template, its views and Consul keeps the invariant.
LEMMA FeedStep ==
  ASSUME FeedInv, FeedNext
  PROVE  FeedInv'
<1>1. ASSUME NEW c \in Asking, Ask(c) PROVE FeedInv'
  <2> DEFINE new == NewView(QueryOf(c))
  <2>1. ViewOK(new) /\ new.pc = "fetch"
    BY DEF ViewOK, NewView
  <2> HIDE DEF new
  <2>2. AsksForNews(new)
    BY <2>1 DEF AsksForNews
  <2>3. /\ views' = With(views, IDOf(c), new) /\ UNCHANGED <<server, errors>>
    BY <1>1 DEF Ask, new
  <2>4. \A i \in DOMAIN views' : views'[i] = new \/ (i \in DOMAIN views /\ views'[i] = views[i])
    BY <2>3 DEF With
  <2>5. QED
    BY <2>1, <2>2, <2>3, <2>4 DEF FeedInv
<1>2. ASSUME NEW i \in DOMAIN views, Stop(i) PROVE FeedInv'
  <2> DEFINE v == [views[i] EXCEPT !.stopped = TRUE]
  <2>1. ViewOK(views[i]) /\ AsksForNews(views[i])
    BY DEF FeedInv
  <2>2. /\ ViewOK(v) /\ v.request = views[i].request /\ v.query = views[i].query
        /\ v.lastIndex = views[i].lastIndex /\ v.pc = views[i].pc
    BY <2>1 DEF ViewOK
  <2>3. views' = [views EXCEPT ![i] = v] /\ UNCHANGED <<server, errors>>
    BY <1>2 DEF Stop
  <2> HIDE DEF v
  <2>4. AsksForNews(v)
    BY <2>1, <2>2 DEF AsksForNews
  <2>5. QED
    BY <2>2, <2>3, <2>4, FeedGoes
<1>3. ASSUME NEW i \in DOMAIN views,
             \/ FetchStopped(i) \/ SleepStopped(i) \/ PollAgain(i)
             \/ FetchCancelled(i) \/ Deliver(i) \/ PollStopped(i)
      PROVE  FeedInv'
  <2>1. PICK pc \in {"fetch", "ended"} : views' = [views EXCEPT ![i].pc = pc]
    BY <1>3 DEF FetchStopped, SleepStopped, PollAgain, FetchCancelled, Deliver,
       PollStopped, To, Goes
  <2>2. server' = server /\ errors' \in {errors, errors + 1}
    BY <1>3 DEF FetchStopped, SleepStopped, PollAgain, FetchCancelled, Deliver,
       PollStopped, To, Goes
  <2> DEFINE v == [views[i] EXCEPT !.pc = pc]
  <2>3. ViewOK(v) /\ AsksForNews(v)
    BY FeedRests
  <2>4. views' = [views EXCEPT ![i] = v]
    BY <2>1
  <2> HIDE DEF v
  <2>5. QED
    BY <2>2, <2>3, <2>4, FeedGoes
<1>4. ASSUME NEW i \in DOMAIN views, NEW code, FetchFails(i, code) PROVE FeedInv'
  <2>1. PICK pc \in {"fetch", "ended"}, n \in Nat :
          views' = [views EXCEPT ![i] = [views[i] EXCEPT !.pc = pc, !.lastIndex = n]]
    BY <1>4, FailureMoves
  <2> DEFINE v == [views[i] EXCEPT !.pc = pc, !.lastIndex = n]
  <2>2. server' = server /\ errors' = errors + 1
    BY <1>4, FailureMoves
  <2>3. ViewOK(v) /\ v.pc = pc
    BY DEF FeedInv, ViewOK
  <2> HIDE DEF v
  <2>4. AsksForNews(v)
    BY <2>3 DEF AsksForNews
  <2>5. views' = [views EXCEPT ![i] = v]
    BY <2>1 DEF v
  <2>6. QED
    BY <2>2, <2>3, <2>4, <2>5, FeedGoes
<1>5. ASSUME NEW i \in DOMAIN views, SleepEnds(i) \/ NodeNamed(i) PROVE FeedInv'
  <2> DEFINE v == [views[i] EXCEPT !.pc = "asked"]
  <2>1. Goes(i, v) /\ views[i].pc \in {"sleep", "naming"}
    BY <1>5 DEF SleepEnds, NodeNamed, To, At
  <2>2. ViewOK(v) /\ AsksForNews(v)
    BY <2>1, FeedAsked
  <2> HIDE DEF v
  <2>3. QED
    BY <2>1, <2>2, FeedGoes DEF Goes
<1>6. ASSUME NEW s, Serves(s), ServerOK(s) PROVE FeedInv'
  BY <1>6 DEF Serves, FeedInv
<1>7. ASSUME NEW w \in DOMAIN Worlds, Change(w) PROVE FeedInv'
  <2> DEFINE next == server.index + 1
             s == [server EXCEPT !.world = w, !.index = next]
  <2>1. server \in [world : {server.world}, index : Nat \ {0}, hung : BOOLEAN]
    BY DEF FeedInv, ServerOK
  <2>2. next \in Nat \ {0}
    BY <2>1
  <2>3. Serves(s)
    BY <1>7 DEF Change
  <2> HIDE DEF next
  <2>4. s \in [world : {w}, index : Nat \ {0}, hung : BOOLEAN] /\ s.world = w
    BY <2>1, <2>2
  <2> HIDE DEF s
  <2>5. QED
    BY <1>6, <2>3, <2>4 DEF ServerOK
<1>8. CASE Touch
  <2>1. ServerOK([server EXCEPT !.index = @ + 1])
    BY DEF FeedInv, ServerOK
  <2>2. QED
    BY <1>6, <1>8, <2>1 DEF Touch
<1>9. CASE Hang
  <2>1. ServerOK([server EXCEPT !.hung = TRUE])
    BY DEF FeedInv, ServerOK
  <2>2. QED
    BY <1>6, <1>9, <2>1 DEF Hang
<1>10. QED
  BY <1>1, <1>2, <1>3, <1>5, <1>7, <1>8, <1>9, <1>4, FeedAsks, FeedAnswered
     DEF FeedNext, ViewStep

\* What the views ask, and what they were told, is in order in every reachable
\* state.
THEOREM FeedInvariant == Spec => []FeedInv
<1>1. Init => FeedInv
  BY DEF Init, FeedInit, FeedInv, ServerOK
<1>2. FeedInv /\ [Next]_vars => FeedInv'
  BY FeedStep DEF Next, vars, feedVars, FeedInv
<1>3. QED
  BY <1>1, <1>2, PTL DEF Spec

\* Only an answer or a failure brings a view from its question to the next.
LEMMA AnswerOrFailure ==
  ASSUME [Next]_vars, NEW i \in DOMAIN views, At(i, "asked"), views'[i].pc = "fetch",
         ViewOK(views[i])
  PROVE  \/ \E code \in {0, 400, 500} : FetchFails(i, code)
         \/ \E shown \in Orders : FetchAnswered(i, shown)
<1>0. i \in DOMAIN views /\ views[i].pc = "asked"
  BY DEF At
<1> SUFFICES ASSUME FeedNext
             PROVE  \/ \E code \in {0, 400, 500} : FetchFails(i, code)
                    \/ \E shown \in Orders : FetchAnswered(i, shown)
  BY <1>0 DEF Next, vars, feedVars
<1>1. ASSUME NEW c \in Asking, Ask(c) PROVE FALSE
  BY <1>0, <1>1 DEF Ask, With
<1>2. ASSUME NEW j \in DOMAIN views, Stop(j) PROVE FALSE
  <2>1. CASE j = i
    <3>1. views'[i] = [views[i] EXCEPT !.stopped = TRUE]
      BY <1>2, <2>1 DEF Stop
    <3>2. QED
      BY <1>0, <3>1 DEF ViewOK
  <2>2. CASE j # i
    BY <1>0, <1>2, <2>2 DEF Stop
  <2>3. QED
    BY <2>1, <2>2
<1>3. ASSUME NEW j \in DOMAIN views, j # i, ViewStep(j) \/ PollAgain(j) PROVE FALSE
  <2>1. views'[i] = views[i]
    BY <1>3 DEF ViewStep, FetchStopped, FetchAsks, SleepEnds, SleepStopped,
       NodeNamed, FetchAnswered, FetchCancelled, Deliver, PollStopped,
       PollAgain, Goes, To
  <2>2. QED
    BY <1>0, <2>1
<1>4. ASSUME NEW j \in DOMAIN views, j # i, NEW code, FetchFails(j, code) PROVE FALSE
  <2>1. views'[i] = views[i]
    BY <1>4 DEF FetchFails
  <2>2. QED
    BY <1>0, <2>1
<1>5. CASE FetchCancelled(i)
  <2>1. views'[i] = [views[i] EXCEPT !.pc = "ended"]
    BY <1>5 DEF FetchCancelled, To, Goes
  <2>2. QED
    BY <2>1 DEF ViewOK
<1>6. ~ (\/ FetchStopped(i) \/ FetchAsks(i) \/ SleepEnds(i) \/ SleepStopped(i)
         \/ NodeNamed(i) \/ Deliver(i) \/ PollStopped(i) \/ PollAgain(i))
  BY <1>0 DEF FetchStopped, FetchAsks, SleepEnds, SleepStopped, NodeNamed,
     Deliver, PollStopped, PollAgain, At
<1>7. views' # views
  BY <1>0
<1>8. PICK j \in DOMAIN views :
        ViewStep(j) \/ PollAgain(j) \/ \E code \in {0, 400, 500} : FetchFails(j, code)
  <2>1. ~ ((\E w \in DOMAIN Worlds : Change(w)) \/ Touch \/ Hang)
    BY <1>7 DEF Change, Touch, Hang, Serves
  <2>2. /\ ~ (\E c \in Asking : Ask(c))
        /\ ~ (\E j \in DOMAIN views : Stop(j))
    BY <1>1, <1>2
  <2>3. QED
    BY <2>1, <2>2 DEF FeedNext
<1>9. j = i
  BY <1>3, <1>4, <1>8
<1>10. QED
  BY <1>5, <1>6, <1>8, <1>9 DEF ViewStep

\* fetch and the Fetch of every blocking query: a view that hears nothing new
\* had asked Consul to wait for what is newer than it has; no merge of options
\* loses the index, for whatever template, so that no view polls in a busy loop.
THEOREM RestsBetweenAnswersHolds == Spec => RestsBetweenAnswers
<1>1. FeedInv /\ [Next]_vars =>
        [\A i \in DOMAIN views :
           LET v == views[i]
           IN  /\ At(i, "asked") /\ views'[i].pc = "fetch"
               /\ errors' = errors /\ views'[i].lastIndex = v.lastIndex
               /\ v.query.kind \notin {"kv.exists", "catalog.datacenters"}
               => v.request.WaitIndex # 0]_vars
  <2> SUFFICES ASSUME FeedInv, [Next]_vars, NEW i \in DOMAIN views,
                      At(i, "asked"), views'[i].pc = "fetch", errors' = errors,
                      views'[i].lastIndex = views[i].lastIndex,
                      views[i].query.kind \notin {"kv.exists", "catalog.datacenters"}
               PROVE  views[i].request.WaitIndex # 0
    OBVIOUS
  <2> DEFINE v == views[i]
             read == [v EXCEPT !.pc = "fetch", !.lastIndex = IndexOf(v)]
  <2>1. /\ ViewOK(v) /\ v.request.WaitIndex = v.lastIndex
        /\ server.index \in Nat \ {0} /\ errors \in Nat
    BY DEF FeedInv, ServerOK, AsksForNews, At
  <2>2. ASSUME NEW code, FetchFails(i, code) PROVE FALSE
    BY <2>1, <2>2 DEF FetchFails
  <2>3. PICK shown \in Orders : FetchAnswered(i, shown)
    BY <2>1, <2>2, AnswerOrFailure
  <2>4. IsNews(v) <=> server.index # v.lastIndex
    BY DEF IsNews
  <2>5. ASSUME IsNews(v) PROVE FALSE
    <3> DEFINE data == Result(v.query, Worlds[server.world], v.request, shown)
               news == [read EXCEPT !.pc = "deliver", !.data = data, !.received = TRUE]
    <3>1. views'[i] \in {read, news}
      BY <2>3, <2>5 DEF FetchAnswered, Goes
    <3>2. read.lastIndex = IndexOf(v) /\ IndexOf(v) = server.index
      BY <2>1 DEF ViewOK, IndexOf
    <3> HIDE DEF data
    <3>3. news.pc = "deliver"
      BY <2>1 DEF ViewOK
    <3> HIDE DEF read, news
    <3>4. QED
      BY <2>4, <2>5, <3>1, <3>2, <3>3
  <2>6. QED
    BY <2>1, <2>4, <2>5
<1>2. QED
  BY <1>1, FeedInvariant, PTL DEF Spec, RestsBetweenAnswers

-----------------------------------------------------------------------------
(***************************************************************************)
(* The types.  A value goes from the Fetch of a query through its view and *)
(* the cache, both found by ID alone, to a function that asserts its type. *)
(* What holds this together is that an ID starts with the kind of its      *)
(* query, and that a view delivers what the functions of its kind take:    *)
(* never nil, which fetch keeps back for a blocking query.                 *)
(***************************************************************************)
\* The type a view of each kind of query delivers.
TypeOf(kind) ==
  CASE kind = "health.service"      -> "HealthServices"
    [] kind = "catalog.services"    -> "Snippets"
    [] kind = "catalog.service"     -> "CatalogServices"
    [] kind = "catalog.node"        -> "CatalogNode"
    [] kind = "catalog.nodes"       -> "Nodes"
    [] kind = "catalog.datacenters" -> "Datacenters"
    [] kind = "kv.get"              -> "KvValue"
    [] kind = "kv.exists"           -> "KVExists"
    [] kind = "kv.exists.get"       -> "KeyPair"
    [] kind = "kv.list"             -> "KeyPairs"
    [] kind = "kv.keys"             -> "Keys"
    [] kind = "connect.caroots"     -> "CARoots"
    [] kind = "connect.caleaf"      -> "LeafCert"

Kinds ==
  {"health.service", "catalog.services", "catalog.service", "catalog.node",
   "catalog.nodes", "catalog.datacenters", "kv.get", "kv.exists",
   "kv.exists.get", "kv.list", "kv.keys", "connect.caroots", "connect.caleaf"}

\* The functions of the maps ConsulV0 and ConsulV1, and what is only tracked.
Functions ==
  {"datacenters", "key", "keyExists", "keyOrDefault", "ls", "tree", "node", "nodes", "service",
   "services", "connect", "caRoots", "caLeaf", "servicesV1", "serviceV1",
   "connectV1", "keysV1", "keyV1", "keyExistsV1", "keyExistsGetV1",
   "trackService", "trackKeys"}

\* A function asks for a query that delivers what it takes, or for none.
Fits(asks) ==
  \/ asks.query = NoQuery
  \/ asks.query.kind \in Kinds /\ TypeOf(asks.query.kind) \in asks.takes

\* A function asks for a query of one of the kinds, or for none.
Known(asks) == asks.query = NoQuery \/ asks.query.kind \in Kinds

FitInv ==
  /\ template \in Templates
  /\ \A i \in DOMAIN views :
       /\ views[i].query.kind \in Kinds
       /\ i[1] = views[i].query.kind
       /\ views[i].pc = "deliver" =>
            views[i].data.type = TypeOf(views[i].query.kind)
  /\ \A i \in DOMAIN cache : cache[i].type = TypeOf(i[1])

\* Every constructor returns an error or a query of its kind.
LEMMA Constructed ==
  ASSUME NEW name, NEW flag, NEW opts, NEW text, NEW path,
         NEW kind \in {"kv.get", "kv.exists", "kv.exists.get"}
  PROVE  LET Builds(q, k) == q = NoQuery \/ q.kind = k
         IN  /\ Builds(NewHealthServiceQueryV1(name, flag, opts), "health.service")
             /\ Builds(NewHealthServiceQuery(text, flag), "health.service")
             /\ Builds(NewCatalogServicesQueryV1(opts), "catalog.services")
             /\ Builds(NewCatalogServicesQuery(text), "catalog.services")
             /\ Builds(NewCatalogServiceQuery(text), "catalog.service")
             /\ Builds(NewCatalogNodeQuery(text), "catalog.node")
             /\ Builds(NewCatalogNodesQuery(text), "catalog.nodes")
             /\ Builds(NewCatalogDatacentersQuery(flag), "catalog.datacenters")
             /\ Builds(NewKVExistsQueryV1(kind, path, opts), kind)
             /\ Builds(NewKVExistsQuery(kind, text), kind)
             /\ Builds(NewKVListQueryV1(path, opts), "kv.list")
             /\ Builds(NewKVListQuery(text), "kv.list")
             /\ Builds(NewKVKeysQuery(text), "kv.keys")
             /\ Builds(NewConnectCAQuery, "connect.caroots")
             /\ Builds(NewConnectLeafQuery(name), "connect.caleaf")
<1> DEFINE Builds(q, k) == q = NoQuery \/ q.kind = k
<1>1. Builds(NewHealthServiceQueryV1(name, flag, opts), "health.service")
  BY Zenon DEF NewHealthServiceQueryV1, NoQuery
<1>2. Builds(NewHealthServiceQuery(text, flag), "health.service")
  BY Zenon DEF NewHealthServiceQuery, NoQuery
<1>3. /\ Builds(NewCatalogServicesQueryV1(opts), "catalog.services")
      /\ Builds(NewCatalogServicesQuery(text), "catalog.services")
  BY DEF NewCatalogServicesQueryV1, NewCatalogServicesQuery, NoQuery
<1>4. /\ Builds(NewCatalogServiceQuery(text), "catalog.service")
      /\ Builds(NewCatalogNodeQuery(text), "catalog.node")
      /\ Builds(NewCatalogNodesQuery(text), "catalog.nodes")
      /\ Builds(NewCatalogDatacentersQuery(flag), "catalog.datacenters")
  BY DEF NewCatalogServiceQuery, NewCatalogNodeQuery, NewCatalogNodesQuery,
     NewCatalogDatacentersQuery, NoQuery
<1>5. /\ Builds(NewKVExistsQueryV1(kind, path, opts), kind)
      /\ Builds(NewKVExistsQuery(kind, text), kind)
  BY DEF NewKVExistsQueryV1, NewKVExistsQuery, NoQuery
<1>6. /\ Builds(NewKVListQueryV1(path, opts), "kv.list")
      /\ Builds(NewKVListQuery(text), "kv.list")
      /\ Builds(NewKVKeysQuery(text), "kv.keys")
  BY DEF NewKVListQueryV1, NewKVListQuery, NewKVKeysQuery, NoQuery
<1>7. /\ Builds(NewConnectCAQuery, "connect.caroots")
      /\ Builds(NewConnectLeafQuery(name), "connect.caleaf")
  BY DEF NewConnectCAQuery, NewConnectLeafQuery, NoQuery
<1>8. QED
  BY <1>1, <1>2, <1>3, <1>4, <1>5, <1>6, <1>7

\* TypeOf, written out.
LEMMA EveryType ==
  /\ TypeOf("health.service") = "HealthServices"
  /\ TypeOf("catalog.services") = "Snippets"
  /\ TypeOf("catalog.service") = "CatalogServices"
  /\ TypeOf("catalog.node") = "CatalogNode"
  /\ TypeOf("catalog.nodes") = "Nodes"
  /\ TypeOf("catalog.datacenters") = "Datacenters"
  /\ TypeOf("kv.get") = "KvValue"
  /\ TypeOf("kv.exists") = "KVExists"
  /\ TypeOf("kv.exists.get") = "KeyPair"
  /\ TypeOf("kv.list") = "KeyPairs"
  /\ TypeOf("kv.keys") = "Keys"
  /\ TypeOf("connect.caroots") = "CARoots"
  /\ TypeOf("connect.caleaf") = "LeafCert"
BY DEF TypeOf

\* What a function hands to the Recaller fits what it takes back, but for
\* keyOrDefault, which asks for a kv.get like key.
LEMMA EveryFunctionFits ==
  ASSUME NEW c, c.fn \in Functions
  PROVE  Known(Call(c)) /\ (~ AssertsString(c) => Fits(Call(c)))
<1> DEFINE Builds(q, k) == q = NoQuery \/ q.kind = k
<1>1. ASSUME NEW q, NEW k \in Kinds, NEW takes, Builds(q, k), TypeOf(k) \in takes,
             NEW empty
      PROVE  Fits(Asks(q, takes)) /\ Fits(Unless(empty, Asks(q, takes)))
  BY <1>1 DEF Fits, Asks, Unless, AsksNothing
<1>2. /\ Builds(NewKVExistsQuery("kv.get", c.text), "kv.get")
      /\ Builds(NewKVExistsQueryV1("kv.get", c.path, c.opts), "kv.get")
      /\ Builds(NewKVExistsQueryV1("kv.exists", c.path, c.opts), "kv.exists")
      /\ Builds(NewKVExistsQueryV1("kv.exists.get", c.path, c.opts), "kv.exists.get")
  BY Constructed
<1>3. /\ Builds(NewKVListQuery(c.text), "kv.list")
      /\ Builds(NewKVListQueryV1(c.path, c.opts), "kv.list")
      /\ Builds(NewKVKeysQuery(c.text), "kv.keys")
  BY Constructed
<1>4. \A flag \in BOOLEAN :
        /\ Builds(NewHealthServiceQuery(c.text, flag), "health.service")
        /\ Builds(NewHealthServiceQueryV1(c.name, flag, c.opts), "health.service")
  BY Constructed
<1>5. /\ Builds(NewCatalogServicesQuery(c.text), "catalog.services")
      /\ Builds(NewCatalogServicesQueryV1(c.opts), "catalog.services")
      /\ Builds(NewCatalogServiceQuery(c.text), "catalog.service")
      /\ Builds(NewCatalogNodeQuery(c.text), "catalog.node")
      /\ Builds(NewCatalogNodesQuery(c.text), "catalog.nodes")
      /\ Builds(NewCatalogDatacentersQuery(c.ignore), "catalog.datacenters")
      /\ Builds(NewConnectCAQuery, "connect.caroots")
      /\ Builds(NewConnectLeafQuery(c.name), "connect.caleaf")
  BY Constructed
<1> HIDE DEF Builds
<1>6. Fits(keyFunc(c)) /\ Fits(keyExistsFunc(c))
  BY <1>1, <1>2, EveryType DEF keyFunc, keyExistsFunc, Kinds
<1>7. Fits(v1KVGetFunc(c)) /\ Fits(v1KVExistsFunc(c)) /\ Fits(v1KVExistsGetFunc(c))
  BY <1>1, <1>2, EveryType DEF v1KVGetFunc, v1KVExistsFunc, v1KVExistsGetFunc, Kinds
<1>8. Fits(lsFunc(c)) /\ Fits(treeFunc(c)) /\ Fits(v1KVListFunc(c))
  BY <1>1, <1>3, EveryType DEF lsFunc, treeFunc, v1KVListFunc, Kinds
<1>9. Fits(serviceFunc(c)) /\ Fits(connectFunc(c))
  BY <1>1, <1>4, EveryType DEF serviceFunc, connectFunc, Kinds
<1>10. Fits(v1ServiceFunc(c)) /\ Fits(v1ConnectFunc(c))
  BY <1>1, <1>4, EveryType DEF v1ServiceFunc, v1ConnectFunc, Kinds
<1>11. /\ Fits(servicesFunc(c)) /\ Fits(v1ServicesFunc(c))
       /\ Fits(nodeFunc(c)) /\ Fits(nodesFunc(c)) /\ Fits(datacentersFunc(c))
  BY <1>1, <1>5, EveryType DEF servicesFunc, v1ServicesFunc, nodeFunc, nodesFunc,
     datacentersFunc, Kinds
<1>12. Fits(connectCARootsFunc(c)) /\ Fits(connectLeafFunc(c))
  BY <1>1, <1>5, EveryType DEF connectCARootsFunc, connectLeafFunc, Kinds
<1>13. c.fn \in {"trackService", "trackKeys"} => Fits(TrackedQuery(c))
  BY <1>1, <1>3, <1>5, EveryType DEF TrackedQuery, Kinds
<1>14. ~ AssertsString(c) => Fits(Call(c))
  BY <1>6, <1>7, <1>8, <1>9, <1>10, <1>11, <1>12, <1>13
     DEF Call, Functions, AssertsString
<1>15. Known(keyWithDefaultFunc(c))
  BY <1>2 DEF keyWithDefaultFunc, Builds, Known, Kinds, Asks, Unless, AsksNothing
<1>16. AssertsString(c) => Call(c) = keyWithDefaultFunc(c)
  BY DEF AssertsString, Call
<1>17. QED
  BY <1>14, <1>15, <1>16 DEF Fits, Known

\* An ID starts with the kind of its query.
LEMMA IDNamesKind ==
  ASSUME NEW q, q.kind \in Kinds
  PROVE  ID(q)[1] = q.kind
BY DEF Kinds, ID, HealthServiceID, CatalogServicesID, CatalogServiceID,
   CatalogNodeID, CatalogNodesID, KVGetID, KVListID, KVKeysID, KVExistsID,
   KVExistsGetID, ConnectLeafID, DatacentersID, ConnectCAID

\* A Fetch returns the type of its kind; nil only where fetch drops it.
LEMMA ResultFits ==
  ASSUME NEW q, NEW w, NEW opts, NEW shown, q.kind \in Kinds
  PROVE  LET type == Result(q, w, opts, shown).type
         IN  type = TypeOf(q.kind) \/ (BlockingQuery(q) /\ type = "nil")
<1> DEFINE r == Result(q, w, opts, shown)
<1>1. q.kind = "health.service" => r.type = TypeOf(q.kind)
  BY Zenon, EveryType DEF Result, HealthServiceResult, Typed
<1>2. q.kind = "catalog.services" => r.type = TypeOf(q.kind)
  BY Zenon, EveryType DEF Result, CatalogServicesResult, Typed
<1>3. q.kind = "catalog.service" => r.type = TypeOf(q.kind)
  BY Zenon, EveryType DEF Result, CatalogServiceResult, Typed
<1>4. q.kind = "catalog.node" => r.type = TypeOf(q.kind)
  BY Zenon, EveryType DEF Result, CatalogNodeResult, Typed
<1>5. q.kind = "catalog.nodes" => r.type = TypeOf(q.kind)
  BY Zenon, EveryType DEF Result, CatalogNodesResult, Typed
<1>6. q.kind = "catalog.datacenters" => r.type = TypeOf(q.kind)
  BY Zenon, EveryType DEF Result, DatacentersResult, Typed
<1>7. q.kind = "kv.get" =>
         \/ r.type = TypeOf(q.kind)
         \/ BlockingQuery(q) /\ r.type = "nil"
  BY Zenon, EveryType DEF BlockingQuery, Result, KVGetResult, Typed, NoData
<1>8. q.kind = "kv.exists" => r.type = TypeOf(q.kind)
  BY Zenon, EveryType DEF Result, KVExistsResult, Typed
<1>9. q.kind = "kv.exists.get" => r.type = TypeOf(q.kind)
  BY Zenon, EveryType DEF Result, KVExistsGetResult, Typed
<1>10. q.kind = "kv.list" => r.type = TypeOf(q.kind)
  BY Zenon, EveryType DEF Result, KVListResult, Typed
<1>11. q.kind = "kv.keys" => r.type = TypeOf(q.kind)
  BY Zenon, EveryType DEF Result, KVKeysResult, Typed
<1>12. q.kind = "connect.caroots" => r.type = TypeOf(q.kind)
  BY Zenon, EveryType DEF Result, ConnectCAResult, Typed
<1>13. q.kind = "connect.caleaf" => r.type = TypeOf(q.kind)
  BY Zenon, EveryType DEF Result, ConnectLeafResult, Typed
<1> HIDE DEF r
<1>14. r.type = TypeOf(q.kind) \/ (BlockingQuery(q) /\ r.type = "nil")
  BY <1>1, <1>2, <1>3, <1>4, <1>5, <1>6, <1>7, <1>8, <1>9, <1>10, <1>11, <1>12,
     <1>13 DEF Kinds
<1>15. QED
  BY <1>14 DEF r

\* What an answer does to a view, in types: what is delivered fits.
LEMMA FitAnswered ==
  ASSUME FeedInv, FitInv, NEW i \in DOMAIN views, NEW shown, FetchAnswered(i, shown)
  PROVE  FitInv'
<1> DEFINE v == views[i]
           data == Result(v.query, Worlds[server.world], v.request, shown)
           read == [v EXCEPT !.pc = "fetch", !.lastIndex = IndexOf(v)]
           news == [read EXCEPT !.pc = "deliver", !.data = data, !.received = TRUE]
           same == [v EXCEPT !.pc = "fetch"]
<1>0. ViewOK(v) /\ v.query.kind \in Kinds /\ i[1] = v.query.kind
  BY DEF FeedInv, FitInv
<1>1. PICK u : /\ Goes(i, u)
              /\ \/ u = same
                 \/ u = read
                 \/ u = news /\ ~ (BlockingQuery(v.query) /\ data.type = "nil")
  <2>1. CASE ~ IsNews(v)
    BY <2>1 DEF FetchAnswered
  <2>2. CASE IsNews(v) /\ v.received /\ DeepEqual(data, v.data)
    BY <2>2 DEF FetchAnswered
  <2>3. CASE IsNews(v) /\ BlockingQuery(v.query) /\ data.type = "nil"
    BY <2>3 DEF FetchAnswered
  <2>4. ASSUME IsNews(v), ~ (v.received /\ DeepEqual(data, v.data)),
               ~ (BlockingQuery(v.query) /\ data.type = "nil")
        PROVE  Goes(i, news)
    BY <2>4 DEF FetchAnswered
  <2>5. QED
    BY <2>1, <2>2, <2>3, <2>4
<1>2. data.type = TypeOf(v.query.kind) \/ (BlockingQuery(v.query) /\ data.type = "nil")
  BY <1>0, ResultFits
<1> HIDE DEF data
<1>3. /\ read.query = v.query /\ read.pc = "fetch"
      /\ same.query = v.query /\ same.pc = "fetch"
  BY <1>0 DEF ViewOK
<1>4. news.query = v.query /\ news.data = data
  BY <1>0 DEF ViewOK
<1> HIDE DEF read, same, news
<1>5. u.query = v.query /\ (u.pc = "deliver" => u.data.type = TypeOf(v.query.kind))
  BY <1>1, <1>2, <1>3, <1>4
<1>6. /\ views' = [views EXCEPT ![i] = u] /\ UNCHANGED <<template, cache>>
  BY <1>1 DEF Goes
<1>7. QED
  BY <1>0, <1>5, <1>6 DEF FitInv

\* A view that moves on, with nothing new to deliver.
LEMMA FitGoes ==
  ASSUME FitInv, NEW i \in DOMAIN views, NEW v, v.query = views[i].query,
         v.pc = "deliver" => views[i].pc = "deliver" /\ v.data = views[i].data,
         views' = [views EXCEPT ![i] = v], UNCHANGED <<template, cache>>
  PROVE  FitInv'
BY DEF FitInv

\* A Fetch that asks changes the request and the place of its view.
LEMMA AskingMoves ==
  ASSUME NEW i \in DOMAIN views, FetchAsks(i)
  PROVE  \E request : \E pc \in {"sleep", "naming", "asked"} :
           Goes(i, [views[i] EXCEPT !.request = request, !.pc = pc])
<1> DEFINE merged == ToConsulOpts(Merge(SetOptions(views[i].query, ViewOptions(views[i])),
                                        OwnOptions(views[i].query)))
<1>1. CASE views[i].query.kind = "catalog.datacenters"
  <2> DEFINE pc == IF merged.WaitIndex # 0 THEN "sleep" ELSE "asked"
  <2>1. Goes(i, [views[i] EXCEPT !.request = NoRequest, !.pc = pc])
    BY <1>1 DEF FetchAsks
  <2>2. pc \in {"sleep", "naming", "asked"}
    OBVIOUS
  <2> HIDE DEF pc
  <2>3. QED
    BY <2>1, <2>2
<1>2. CASE views[i].query.kind # "catalog.datacenters"
  <2>1. \E pc \in {"naming", "asked"} :
          Goes(i, [views[i] EXCEPT !.request = merged, !.pc = pc])
    BY <1>2 DEF FetchAsks
  <2> HIDE DEF merged
  <2>2. QED
    BY <2>1
<1>3. QED
  BY <1>1, <1>2

\* Every step of a template that calls what the function maps hold keeps the
\* types.
LEMMA FitStep ==
  ASSUME \A c \in UNION Templates : c.fn \in Functions,
         FeedInv, FitInv, FeedNext
  PROVE  FitInv'
<1>1. ASSUME NEW c \in Asking, Ask(c) PROVE FitInv'
  <2> DEFINE q == QueryOf(c)
             new == NewView(q)
  <2>1. q # NoQuery /\ c.fn \in Functions
    BY DEF Asking, FitInv
  <2>2. q.kind \in Kinds
    BY <2>1, EveryFunctionFits DEF Known, QueryOf
  <2>3. IDOf(c)[1] = q.kind
    BY <2>2, IDNamesKind DEF IDOf
  <2>4. new.query = q /\ new.pc = "fetch"
    BY DEF NewView
  <2>5. views' = With(views, IDOf(c), new) /\ UNCHANGED <<template, cache>>
    BY <1>1 DEF Ask
  <2> HIDE DEF q, new
  <2>6. /\ DOMAIN views' = DOMAIN views \cup {IDOf(c)}
        /\ \A i \in DOMAIN views' : views'[i] = IF i = IDOf(c) THEN new ELSE views[i]
    BY <2>5 DEF With
  <2>7. QED
    BY <2>2, <2>3, <2>4, <2>5, <2>6 DEF FitInv
<1>2. ASSUME NEW i \in DOMAIN views, Stop(i) PROVE FitInv'
  <2> DEFINE v == [views[i] EXCEPT !.stopped = TRUE]
  <2>1. v.query = views[i].query /\ v.pc = views[i].pc /\ v.data = views[i].data
    BY DEF FeedInv, ViewOK
  <2>2. views' = [views EXCEPT ![i] = v] /\ UNCHANGED <<template, cache>>
    BY <1>2 DEF Stop
  <2> HIDE DEF v
  <2>3. QED
    BY <2>1, <2>2, FitGoes
<1>3. ASSUME NEW i \in DOMAIN views,
             \/ FetchStopped(i) \/ SleepEnds(i) \/ SleepStopped(i) \/ NodeNamed(i)
             \/ PollAgain(i) \/ FetchCancelled(i) \/ PollStopped(i)
      PROVE  FitInv'
  <2>1. PICK pc \in {"fetch", "asked", "ended"} : views' = [views EXCEPT ![i].pc = pc]
    BY <1>3 DEF FetchStopped, SleepEnds, SleepStopped, NodeNamed, PollAgain,
       FetchCancelled, PollStopped, To, Goes
  <2>2. UNCHANGED <<template, cache>>
    BY <1>3 DEF FetchStopped, SleepEnds, SleepStopped, NodeNamed, PollAgain,
       FetchCancelled, PollStopped, To, Goes
  <2> DEFINE v == [views[i] EXCEPT !.pc = pc]
  <2>3. v.query = views[i].query /\ v.pc = pc
    BY DEF FeedInv, ViewOK
  <2>4. views' = [views EXCEPT ![i] = v]
    BY <2>1
  <2> HIDE DEF v
  <2>5. QED
    BY <2>2, <2>3, <2>4, FitGoes
<1>4. ASSUME NEW i \in DOMAIN views, FetchAsks(i) PROVE FitInv'
  <2>1. PICK request : \E pc \in {"sleep", "naming", "asked"} :
          Goes(i, [views[i] EXCEPT !.request = request, !.pc = pc])
    BY <1>4, AskingMoves
  <2>2. PICK pc \in {"sleep", "naming", "asked"} :
          Goes(i, [views[i] EXCEPT !.request = request, !.pc = pc])
    BY <2>1
  <2> DEFINE v == [views[i] EXCEPT !.request = request, !.pc = pc]
  <2>3. v.query = views[i].query /\ v.pc = pc
    BY DEF FeedInv, ViewOK
  <2>4. views' = [views EXCEPT ![i] = v] /\ UNCHANGED <<template, cache>>
    BY <2>2 DEF Goes
  <2> HIDE DEF v
  <2>5. QED
    BY <2>3, <2>4, FitGoes
<1>5. ASSUME NEW i \in DOMAIN views, Deliver(i) PROVE FitInv'
  <2> DEFINE v == [views[i] EXCEPT !.pc = "fetch"]
  <2>1. /\ v.query = views[i].query /\ v.pc = "fetch"
        /\ views[i].data.type = TypeOf(i[1])
    BY <1>5 DEF FeedInv, FitInv, ViewOK, Deliver, At
  <2>2. /\ views' = [views EXCEPT ![i] = v] /\ UNCHANGED template
        /\ cache' = With(cache, i, views[i].data)
    BY <1>5 DEF Deliver
  <2> HIDE DEF v
  <2>3. \A j \in DOMAIN cache' : cache'[j].type = TypeOf(j[1])
    BY <2>1, <2>2 DEF FitInv, With
  <2>4. QED
    BY <2>1, <2>2, <2>3 DEF FitInv
<1>6. ASSUME UNCHANGED <<template, views, cache>> PROVE FitInv'
  BY <1>6 DEF FitInv
<1>7. ASSUME NEW i \in DOMAIN views, NEW code, FetchFails(i, code) PROVE FitInv'
  <2>1. PICK pc \in {"fetch", "ended"}, n \in Nat :
          views' = [views EXCEPT ![i] = [views[i] EXCEPT !.pc = pc, !.lastIndex = n]]
    BY <1>7, FailureMoves
  <2> DEFINE v == [views[i] EXCEPT !.pc = pc, !.lastIndex = n]
  <2>2. v.query = views[i].query /\ v.pc = pc
    BY DEF FeedInv, ViewOK
  <2>3. UNCHANGED <<template, cache>>
    BY <1>7, FailureMoves
  <2> HIDE DEF v
  <2>4. views' = [views EXCEPT ![i] = v]
    BY <2>1 DEF v
  <2>5. QED
    BY <2>2, <2>3, <2>4, FitGoes
<1>8. QED
  BY <1>1, <1>2, <1>3, <1>4, <1>5, <1>6, <1>7, FitAnswered
     DEF FeedNext, ViewStep, Change, Touch, Hang, Serves

\* kvGet, service, ls and the others: for every template whose calls are in the
\* function maps, every type assertion on what the Recaller returns succeeds,
\* but for that of keyOrDefault, although calls of different functions share
\* views and cache entries by ID.
THEOREM ReadsItsTypeHolds ==
  ASSUME \A c \in UNION Templates : c.fn \in Functions
  PROVE  Spec => []ReadsItsType
<1>1. Init => FitInv
  BY DEF Init, FeedInit, FitInv
<1>2. FeedInv /\ FitInv /\ [Next]_vars => FitInv'
  <2> SUFFICES ASSUME FeedInv, FitInv, [Next]_vars PROVE FitInv'
    OBVIOUS
  <2>1. CASE FeedNext
    BY <2>1, FitStep
  <2>2. CASE UNCHANGED feedVars
    BY <2>2 DEF FitInv, feedVars
  <2>3. QED
    BY <2>1, <2>2 DEF Next, vars
<1>3. FitInv => ReadsItsType
  <2> SUFFICES ASSUME FitInv, NEW c \in Asking, IDOf(c) \in DOMAIN cache,
                      ~ AssertsString(c)
               PROVE  cache[IDOf(c)].type \in Call(c).takes
    BY DEF ReadsItsType
  <2>1. QueryOf(c) # NoQuery /\ c.fn \in Functions
    BY DEF Asking, FitInv
  <2>2. QueryOf(c).kind \in Kinds /\ TypeOf(QueryOf(c).kind) \in Call(c).takes
    BY <2>1, EveryFunctionFits DEF Fits, QueryOf
  <2>3. IDOf(c)[1] = QueryOf(c).kind
    BY <2>2, IDNamesKind DEF IDOf
  <2>4. QED
    BY <2>2, <2>3 DEF FitInv
<1>4. QED
  BY <1>1, <1>2, <1>3, FeedInvariant, PTL DEF Spec
=============================================================================
