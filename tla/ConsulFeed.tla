---------------------------- MODULE ConsulFeed -----------------------------
(***************************************************************************)
(* A template that reads Consul: its calls of TemplateFuncs become queries *)
(* (Queries), track makes one view for each ID, and each view fetches,     *)
(* compares and stores, and delivers to the cache, while Consul changes,   *)
(* fails or stops answering.  The steps of a view are those of View with   *)
(* the goroutines of one poll in a row; what this module adds is what they *)
(* carry: options, requests, answers and values of each kind of query.     *)
(*                                                                         *)
(* A program is either setting up its clients (ClientSet) or evaluates     *)
(* one template with the Consul client it has.                             *)
(***************************************************************************)
EXTENDS TemplateFuncs, ClientSet

CONSTANTS
  Templates,      \* sets of calls; {} is the program that sets up its clients
  Worlds,         \* states of Consul's catalog and KV store, as a sequence
  MaxIndex,       \* bound on Consul's index
  MaxErrors       \* bound on failing requests

ASSUME ConsulFeedAssumption ==
  /\ {} \in Templates
  /\ Worlds # << >>
  /\ MaxIndex \in Nat \ {0} /\ MaxErrors \in Nat

VARIABLES
  template,       \* the calls of the template that is evaluated
  server,         \* Consul: its world, its index, and whether it hangs
  views,          \* the view of each tracked ID
  cache,          \* ID -> value
  errors          \* failed requests so far

feedVars == <<template, server, views, cache, errors>>
vars == <<clientVars, feedVars>>

NoRequest == ToConsulOpts(ZeroOptions)

\* A map with an entry added or replaced.
With(map, key, value) ==
  [k \in DOMAIN map \cup {key} |-> IF k = key THEN value ELSE map[k]]

NewView(q) ==
  [ query |-> q, pc |-> "fetch", lastIndex |-> 0, received |-> FALSE,
    data |-> NoData, request |-> NoRequest, stopped |-> FALSE ]

FeedInit ==
  /\ server = [world |-> 1, index |-> 1, hung |-> FALSE]
  /\ views = << >>
  /\ cache = << >>
  /\ errors = 0

Init ==
  /\ template \in Templates
  /\ FeedInit
  /\ IF template = {} THEN ClientInit
     ELSE /\ consul = Client(NoInput, "none")
          /\ vault = NoClient
          /\ maker = Resting("idle")
          /\ creates = 0

-----------------------------------------------------------------------------
\* The calls that get as far as a query.
Asking == {c \in template : QueryOf(c) # NoQuery}

(***************************************************************************)
(* The template: a call whose ID is not tracked gets a view (track), which *)
(* is polled because the cache has no value for it (Recaller).             *)
(***************************************************************************)
Ask(c) ==
  /\ IDOf(c) \notin DOMAIN views
  /\ views' = With(views, IDOf(c), NewView(QueryOf(c)))
  /\ UNCHANGED <<clientVars, template, server, cache, errors>>

\* The sweep of a view whose calls the template no longer makes, or the stop
\* of the watcher.
Stop(i) ==
  /\ ~ views[i].stopped
  /\ views' = [views EXCEPT ![i].stopped = TRUE]
  /\ UNCHANGED <<clientVars, template, server, cache, errors>>

(***************************************************************************)
(* The view of the ID i: view.fetch around the Fetch of its query.         *)
(***************************************************************************)
At(i, pc) == i \in DOMAIN views /\ views[i].pc = pc

Goes(i, v) ==
  /\ views' = [views EXCEPT ![i] = v]
  /\ UNCHANGED <<clientVars, template, server, cache, errors>>

To(i, pc) == Goes(i, [views[i] EXCEPT !.pc = pc])

\* The options view.fetch sets before each Fetch.
ViewOptions(v) ==
  [ZeroOptions EXCEPT !.WaitIndex = v.lastIndex, !.WaitTime = 1,
                      !.DefaultLease = 1, !.ctx = TRUE]

FetchStopped(i) ==
  /\ At(i, "fetch") /\ views[i].stopped
  /\ To(i, "ended")

\* Catalog().Datacenters takes no options, and neither does the NodeName of
\* the agent, which a query for the agent's own node asks for first.
FetchAsks(i) ==
  /\ At(i, "fetch") /\ ~ views[i].stopped
  /\ LET v == views[i]
         merged == ToConsulOpts(Merge(SetOptions(v.query, ViewOptions(v)), OwnOptions(v.query)))
     IN  CASE v.query.kind = "catalog.datacenters" ->
                Goes(i, [v EXCEPT !.request = NoRequest,
                                  !.pc = IF merged.WaitIndex # 0 THEN "sleep" ELSE "asked"])
           [] v.query.kind = "catalog.node" /\ v.query.name = Empty ->
                Goes(i, [v EXCEPT !.request = merged, !.pc = "naming"])
           [] OTHER -> Goes(i, [v EXCEPT !.request = merged, !.pc = "asked"])

\* The datacenters query sleeps between two questions, unless it is stopped.
SleepEnds(i) == At(i, "sleep") /\ To(i, "asked")
SleepStopped(i) == At(i, "sleep") /\ views[i].stopped /\ To(i, "ended")

NodeNamed(i) == At(i, "naming") /\ ~ server.hung /\ To(i, "asked")

\* Is the answer's index news to the view?  The index of datacenters is the
\* clock in seconds, and fifteen have passed; it is kept as 1.
IsNews(v) == v.query.kind = "catalog.datacenters" \/ server.index # v.lastIndex
IndexOf(v) == IF v.query.kind = "catalog.datacenters" THEN 1 ELSE server.index

\* Consul answers: at once, when its index has passed WaitIndex, or after
\* WaitTime with the index it had.
FetchAnswered(i, shown) ==
  /\ At(i, "asked") /\ ~ server.hung
  /\ LET v == views[i]
         data == Result(v.query, Worlds[server.world], v.request, shown)
         read == [v EXCEPT !.pc = "fetch", !.lastIndex = IndexOf(v)]
     IN  Goes(i, CASE ~ IsNews(v) -> [v EXCEPT !.pc = "fetch"]
                   [] IsNews(v) /\ v.received /\ DeepEqual(data, v.data) -> read
                   [] IsNews(v) /\ BlockingQuery(v.query) /\ data.type = "nil" -> read
                   [] OTHER -> [read EXCEPT !.pc = "deliver", !.data = data, !.received = TRUE])

\* The request fails with a code of HTTP, or without one (0).  poll forgets the
\* index after a 500, and asks again if the RetryFunc says so; it gives up, and
\* hands the error to the watcher, when the RetryFunc says no, when there is
\* none (the default) and after a 400.  A stop may end its wait.
FetchFails(i, code) ==
  /\ At(i, "asked") \/ At(i, "naming")
  /\ errors < MaxErrors
  /\ errors' = errors + 1
  /\ \E pc \in IF code = 400 THEN {"ended"} ELSE {"fetch", "ended"} :
       views' = [views EXCEPT ![i].pc = pc,
                              ![i].lastIndex = IF code = 500 THEN 0 ELSE @]
  /\ UNCHANGED <<clientVars, template, server, cache>>

\* The program calls Poll, or a function recalls an ID that has no value yet.
PollAgain(i) ==
  /\ At(i, "ended") /\ ~ views[i].stopped
  /\ To(i, "fetch")

\* The context of a stopped view ends the requests that carry it.
FetchCancelled(i) ==
  /\ At(i, "asked") /\ views[i].stopped /\ views[i].request.ctx
  /\ To(i, "ended")

\* wait saves what poll delivers; a stopped poll may not deliver any more.
Deliver(i) ==
  /\ At(i, "deliver")
  /\ cache' = With(cache, i, views[i].data)
  /\ views' = [views EXCEPT ![i].pc = "fetch"]
  /\ UNCHANGED <<clientVars, template, server, errors>>

PollStopped(i) == At(i, "deliver") /\ views[i].stopped /\ To(i, "ended")

ViewStep(i) ==
  \/ FetchStopped(i)
  \/ FetchAsks(i)
  \/ SleepEnds(i)
  \/ SleepStopped(i)
  \/ NodeNamed(i)
  \/ \E shown \in Orders : FetchAnswered(i, shown)
  \/ FetchCancelled(i)
  \/ Deliver(i)
  \/ PollStopped(i)

(***************************************************************************)
(* Consul (external): its world changes, its index moves for another       *)
(* reason, or it answers nobody any more.                                  *)
(***************************************************************************)
Serves(s) ==
  /\ server' = s
  /\ UNCHANGED <<clientVars, template, views, cache, errors>>

Change(w) ==
  /\ server.index < MaxIndex /\ w # server.world
  /\ Serves([server EXCEPT !.world = w, !.index = @ + 1])

Touch ==
  /\ server.index < MaxIndex
  /\ Serves([server EXCEPT !.index = @ + 1])

Hang == ~ server.hung /\ Serves([server EXCEPT !.hung = TRUE])

FeedNext ==
  \/ \E c \in Asking : Ask(c)
  \/ \E i \in DOMAIN views : ViewStep(i) \/ PollAgain(i) \/ Stop(i)
  \/ \E i \in DOMAIN views, code \in {0, 400, 500} : FetchFails(i, code)
  \/ \E w \in DOMAIN Worlds : Change(w)
  \/ Touch
  \/ Hang

Next ==
  \/ template # {} /\ FeedNext
  \/ template = {} /\ ClientNext /\ UNCHANGED feedVars

Spec == Init /\ [][Next]_vars

\* The template is evaluated and every view's goroutine runs; Consul answers
\* unless it hangs.  Changes, errors, stops, hanging and the second call of
\* Poll are under no fairness.
IDs == {IDOf(c) : c \in {d \in UNION Templates : QueryOf(d) # NoQuery}}

Fairness ==
  /\ WF_vars(\E c \in Asking : Ask(c))
  /\ \A i \in IDs : WF_vars(ViewStep(i))

FairSpec == Spec /\ Fairness

-----------------------------------------------------------------------------
(***************************************************************************)
(* Properties.                                                             *)
(***************************************************************************)
\* keyWithDefaultFunc asserts a string (consul_v0.go:106) where kv.get stores a
\* dep.KvValue (kv_get.go:83): the call fails whenever the key exists.
AssertsString(c) == c.fn = "keyOrDefault"

\* The cache is keyed by ID alone: whichever query made the view of an ID,
\* every function but keyOrDefault that recalls the ID can take the type of
\* what it finds (tfunc/consul_v0.go and consul_v1.go assert types unchecked).
ReadsItsType ==
  \A c \in Asking :
    ~ AssertsString(c) /\ IDOf(c) \in DOMAIN cache =>
      cache[IDOf(c)].type \in Call(c).takes

\* What a function recalls is an answer to the query it asked, not to another
\* query that prints the same ID (view.ID, tracker.lookup, Store.Recall).
AnswersOwnQuestion ==
  \A c \in Asking :
    IDOf(c) \in DOMAIN cache =>
      \E w \in ToSet(Worlds), shown \in Orders :
        DeepEqual(cache[IDOf(c)],
                  Result(QueryOf(c), w, Merge(ZeroOptions, OwnOptions(QueryOf(c))), shown))

\* A value with the order of Consul's answer, and of Go's maps, taken away, but
\* for that of the checks of an entry.
Untagged(entries) == {[e EXCEPT !.Tags = ToSet(@)] : e \in ToSet(entries)}

Unordered(value) ==
  CASE value.type \in {"HealthServices", "Snippets"} -> Untagged(value.val)
    [] value.type \in {"Nodes", "Datacenters"} -> ToSet(value.val)
    [] value.type = "CatalogNode" -> <<value.val.Node, Untagged(value.val.Services)>>
    [] OTHER -> value.val

\* What Fetch leaves in the order of the answer: catalog_service.go:103-120 and
\* connect_ca.go:51 do not sort their lists, nor does any Fetch if nearness was
\* asked for.
Unsorted(q) == q.near # Empty \/ q.kind \in {"catalog.service", "connect.caroots"}

\* Templates are evaluated again only for a change: of the queries that sort
\* what Consul lists, an answer with the same things in another order (entries
\* of a map, tags, nodes) is no update.  Where the code does not sort (Unsorted,
\* and the checks of an entry, health_service.go:252) another order is one.
NoSpuriousUpdate ==
  [][\A i \in DOMAIN views :
       LET v == views[i]
       IN  /\ v.received /\ ~ Unsorted(v.query)
           /\ ~ DeepEqual(v.data, views'[i].data)
           => Unordered(v.data) # Unordered(views'[i].data)]_vars

\* Between two answers with the same index a view has waited in Consul
\* (WaitIndex): Merge, SetOptions and the options of each Fetch keep it.
\* kv.exists is not a blocking query and is left out.
RestsBetweenAnswers ==
  [][\A i \in DOMAIN views :
       LET v == views[i]
       IN  /\ At(i, "asked") /\ views'[i].pc = "fetch"
           /\ errors' = errors /\ views'[i].lastIndex = v.lastIndex
           /\ v.query.kind \notin {"kv.exists", "catalog.datacenters"}
           => v.request.WaitIndex # 0]_vars

\* After a stop every fetch ends, even one that waits for a Consul that hangs:
\* the context of the view survives Merge and ToConsulOpts.  Only the requests
\* that take no options outlive it.
StopEndsFetch ==
  <>[](\A i \in DOMAIN views :
         views[i].stopped =>
           \/ views[i].pc = "ended"
           \/ server.hung /\ \/ views[i].query.kind = "catalog.datacenters"
                             \/ At(i, "naming"))

-----------------------------------------------------------------------------
(***************************************************************************)
(* What a call should return, said of Consul's world and of its arguments. *)
(***************************************************************************)
Dc(c) == IF c.text.dc # Empty THEN c.text.dc
         ELSE IF Param(c.opts, DcKeys) # Empty THEN Param(c.opts, DcKeys) ELSE LocalDc
Ns(c) == Param(c.opts, NsKeys)

There(c, e) == e.Dc = Dc(c) /\ e.Namespace = Ns(c)

\* The statuses a call of service or connect asks for.
Wanted(c, status) ==
  IF c.fn \in {"serviceV1", "connectV1"}
  THEN status = HealthPassing \/ \E o \in ToSet(c.opts) : o.key = "statusFilter"
  ELSE \/ c.text.filter = <<>> /\ status = HealthPassing
       \/ \E f \in ToSet(c.text.filter) : f \in {status, HealthAny}

Healthy(c, w) ==
  {e \in ToSet(w.instances) :
     /\ There(c, e) /\ Wanted(c, e.Status)
     /\ e.Name = IF c.fn \in {"serviceV1", "connectV1"} THEN c.name ELSE c.text.name
     /\ c.text.tag # Empty => c.text.tag \in ToSet(e.Tags)
     /\ c.fn \in {"connect", "connectV1"} => e.Connect
     /\ \A o \in ToSet(c.opts) : o.key \in {"filter", "statusFilter"} => o.value \in e.Matches}

Keys(c, w) == {p \in ToSet(w.kv) : There(c, p)}

\* The paths of the keys below a prefix, as ls, tree and keys show them.
Below(c, w) ==
  LET prefix == TrimSlash(IF c.fn = "keysV1" THEN c.path ELSE c.text.path)
      shownBy(p) == CASE c.fn = "ls" -> p.rest # <<>> /\ \A t \in ToSet(p.rest) : t # "/"
                      [] c.fn = "tree" -> p.rest # <<>> /\ p.rest[Len(p.rest)] # "/"
                      [] OTHER -> TRUE
  IN  {p.path : p \in {r \in {[path |-> k.path, rest |-> WithoutPrefix(k.path, prefix)] :
                                k \in {x \in Keys(c, w) : IsPrefix(prefix, x.path)}} : shownBy(r)}}

OneKey(c, w) ==
  {p \in Keys(c, w) : p.path = TrimSlash(IF c.path # <<>> THEN c.path ELSE c.text.path)}

Meets(c, r, w) ==
  CASE c.fn \in {"service", "connect", "serviceV1", "connectV1"} ->
         /\ Len(r) = Cardinality(Healthy(c, w))
         /\ {<<e.Node, e.ID, e.Status>> : e \in ToSet(r)} =
              {<<e.Node, e.ID, e.Status>> : e \in Healthy(c, w)}
         /\ \A e \in ToSet(r) : e.Address # Empty
    [] c.fn \in {"services", "servicesV1"} ->
         {e.Name : e \in ToSet(r)} =
           {e.Name : e \in {x \in ToSet(w.instances) : There(c, x) /\
              \A o \in ToSet(c.opts) : o.key = "node-meta" => o.value \in x.Meta}}
    [] c.fn \in {"ls", "tree", "keysV1"} -> {p.Path : p \in ToSet(r)} = Below(c, w)
    [] c.fn \in {"key", "keyV1"} -> \A p \in OneKey(c, w) : r = p.Value
    [] c.fn \in {"keyExists", "keyExistsV1"} -> r = (OneKey(c, w) # {})
    [] c.fn = "keyExistsGetV1" ->
         /\ r.Exists = (OneKey(c, w) # {})
         /\ \A p \in OneKey(c, w) : r.Value = p.Value
    [] c.fn = "node" ->
         LET name == IF c.text.name = Empty THEN w.agent ELSE c.text.name
         IN  {s.ID : s \in ToSet(r.Services)} =
               {e.ID : e \in {x \in ToSet(w.instances) : There(c, x) /\ x.Node = name}}
    [] c.fn = "nodes" -> ToSet(r) = ToSet(w.nodes) /\ Len(r) = Len(w.nodes)
    [] c.fn = "datacenters" ->
         ToSet(r) = {d \in ToSet(w.dcs) : ~ (c.ignore /\ d \in w.down)}
    [] c.fn = "caRoots" -> ToSet(r) = ToSet(w.roots)
    [] c.fn = "caLeaf" -> r = w.leaf
    [] c.fn = "trackService" ->
         {<<e.Node, e.ID>> : e \in ToSet(r)} =
           {<<e.Node, e.ID>> : e \in {x \in ToSet(w.instances) :
              /\ There(c, x) /\ x.Name = c.text.name
              /\ c.text.tag # Empty => c.text.tag \in ToSet(x.Tags)}}
    [] c.fn = "trackKeys" ->
         ToSet(r) = {WithoutPrefix(p, TrimSlash(c.text.path)) : p \in Below(c, w)}

\* Key and keyExists of version 0, and every kv.get, wait until the key exists,
\* and keep its last value when it is deleted.
WaitsForKey(c) == QueryOf(c).kind = "kv.get" /\ OneKey(c, Worlds[server.world]) = {}

\* Once Consul stands still, every call of the template returns what its
\* arguments ask of it: the request selects it, the blocking query notices
\* the change, no comparison takes it for old, and the result is complete.
\* Not so when Consul hangs, and for a view that is stopped or whose poll gave
\* up after an error and was not started again: its value stays as it is.
Converges ==
  <>[](\A c \in Asking :
         \/ server.hung
         \/ IDOf(c) \in DOMAIN views /\ (views[IDOf(c)].stopped \/ At(IDOf(c), "ended"))
         \/ WaitsForKey(c) \/ AssertsString(c)
         \/ /\ IDOf(c) \in DOMAIN cache
            /\ Meets(c, Returns(c, cache[IDOf(c)]), Worlds[server.world]))
=============================================================================
