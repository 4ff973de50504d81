------------------------------ MODULE Queries ------------------------------
(***************************************************************************)
(* The Consul queries of internal/dependency: how each is built from the   *)
(* arguments of a template function, the ID that names its view and its    *)
(* cache entry, what its Fetch asks Consul, and what it makes of the       *)
(* answer.  Pure operators: ConsulFeed runs them.                          *)
(*                                                                         *)
(* Strings are numbers, in the order sort.Strings gives them; Empty is the *)
(* empty string.  The text argument of a version 0 function is the record  *)
(* of the groups its regular expression finds, with bad where it finds     *)
(* none; an option of a version 1 function is a [key, value] record.  A    *)
(* path of the KV store is a sequence of tokens in which "/" is one.       *)
(***************************************************************************)
EXTENDS Naturals, FiniteSets, Sequences, SequencesExt, TLC

Empty == 0

\* The Health* words, in the order of the strings.
HealthAny == 1
HealthCritical == 2
HealthMaint == 3
HealthPassing == 4
HealthWarning == 5
HealthWords == HealthAny .. HealthWarning

Ascending(a, b) == a < b

-----------------------------------------------------------------------------
(***************************************************************************)
(* QueryOptions                                                            *)
(***************************************************************************)
ZeroOptions ==
  [ AllowStale        |-> FALSE, Datacenter |-> Empty, Filter    |-> <<>>,
    Namespace         |-> Empty, Near       |-> Empty, WaitIndex |-> 0,
    RequireConsistent |-> FALSE, WaitTime   |-> 0,     ctx       |-> FALSE,
    DefaultLease      |-> 0,     VaultGrace |-> 0 ]

\* A mutant: the merge starts from o's context.
MergeForgets(q, o) ==
  [f \in DOMAIN q |->
     IF f = "ctx" THEN o.ctx ELSE IF o[f] # ZeroOptions[f] THEN o[f] ELSE q[f]]

\* q.Merge(o): what o sets wins, but for the three fields Merge passes over.
Merge(q, o) ==
  [f \in DOMAIN q |->
     IF f \notin {"ctx", "DefaultLease", "VaultGrace"} /\ o[f] # ZeroOptions[f]
     THEN o[f] ELSE q[f]]

\* What reaches the Consul API of the merged options; ctx is WithContext.
ToConsulOpts(q) ==
  [f \in DOMAIN q \ {"DefaultLease", "VaultGrace"} |-> q[f]]

-----------------------------------------------------------------------------
(***************************************************************************)
(* The constructors.  Every query has the same fields; NoQuery stands for  *)
(* the error of a constructor.                                             *)
(***************************************************************************)
NoQuery ==
  [ kind |-> "none", name |-> Empty, tag |-> Empty, dc |-> Empty,
    ns |-> Empty, near |-> Empty, filter |-> <<>>, statuses |-> <<>>,
    path |-> <<>>, meta |-> {}, passingOnly |-> FALSE, connect |-> FALSE,
    ignoreFailing |-> FALSE ]

\* The value of the last option with one of these keys.
Param(opts, keys) ==
  LET set == SelectSeq(opts, LAMBDA o : o.key \in keys)
  IN  IF set = <<>> THEN Empty ELSE Last(set).value

DcKeys == {"dc", "datacenter"}
NsKeys == {"ns", "namespace"}

\* Options that are neither blank nor one of `keys` are refused.
Refused(opts, keys) ==
  \E o \in ToSet(opts) : o.key \notin keys \cup {"blank"}

TrimSlash(path) ==
  IF path # <<>> /\ Head(path) = "/" THEN Tail(path) ELSE path

NewHealthServiceQueryV1(service, connect, opts) ==
  LET filters == SelectSeq(opts, LAMBDA o : o.key \in {"filter", "statusFilter", "badFilter"})
  IN  IF service = Empty \/ \E o \in ToSet(filters) : o.key = "badFilter"
      THEN NoQuery
      ELSE [NoQuery EXCEPT
              !.kind = "health.service", !.name = service, !.connect = connect,
              !.dc = Param(opts, DcKeys), !.ns = Param(opts, NsKeys),
              !.near = Param(opts, {"near"}),
              !.passingOnly = \A o \in ToSet(filters) : o.key # "statusFilter",
              !.filter = [j \in DOMAIN filters |-> filters[j].value]]

\* A mutant: passing is asked of Consul as soon as it is one of the filters.
NewHealthServiceQueryPassing(m, connect) ==
  IF m.bad \/ ~ ToSet(m.filter) \subseteq HealthWords
  THEN NoQuery
  ELSE [NoQuery EXCEPT
          !.kind = "health.service", !.name = m.name, !.connect = connect,
          !.dc = m.dc, !.near = m.near, !.tag = m.tag,
          !.statuses = IF m.filter = <<>> THEN <<HealthPassing>>
                       ELSE SortSeq(m.filter, Ascending),
          !.passingOnly = m.filter = <<>> \/ HealthPassing \in ToSet(m.filter)]

NewHealthServiceQuery(m, connect) ==
  LET statuses == IF m.filter = <<>> THEN <<HealthPassing>>
                  ELSE SortSeq(SelectSeq(m.filter, LAMBDA f : f # Empty), Ascending)
  IN  IF m.bad \/ ~ ToSet(statuses) \subseteq HealthWords
      THEN NoQuery
      ELSE [NoQuery EXCEPT
              !.kind = "health.service", !.name = m.name, !.connect = connect,
              !.dc = m.dc, !.near = m.near, !.tag = m.tag,
              !.statuses = statuses,
              !.passingOnly = (statuses = <<HealthPassing>>)]

NewCatalogServicesQueryV1(opts) ==
  IF Refused(opts, DcKeys \cup NsKeys \cup {"node-meta"})
  THEN NoQuery
  ELSE [NoQuery EXCEPT
          !.kind = "catalog.services", !.dc = Param(opts, DcKeys),
          !.ns = Param(opts, NsKeys),
          !.meta = {o.value : o \in {p \in ToSet(opts) : p.key = "node-meta"}}]

NewCatalogServicesQuery(m) ==
  IF m.bad THEN NoQuery
  ELSE [NoQuery EXCEPT !.kind = "catalog.services", !.dc = m.dc]

NewCatalogServiceQuery(m) ==
  IF m.bad THEN NoQuery
  ELSE [NoQuery EXCEPT !.kind = "catalog.service", !.dc = m.dc,
                       !.name = m.name, !.near = m.near, !.tag = m.tag]

NewCatalogNodeQuery(m) ==
  IF m.bad THEN NoQuery
  ELSE [NoQuery EXCEPT !.kind = "catalog.node", !.dc = m.dc, !.name = m.name]

NewCatalogNodesQuery(m) ==
  IF m.bad THEN NoQuery
  ELSE [NoQuery EXCEPT !.kind = "catalog.nodes", !.dc = m.dc, !.near = m.near]

NewCatalogDatacentersQuery(ignoreFailing) ==
  [NoQuery EXCEPT !.kind = "catalog.datacenters", !.ignoreFailing = ignoreFailing]

\* kv.exists, and with another kind kv.get and kv.exists.get, which embed it.
NewKVExistsQueryV1(kind, key, opts) ==
  IF key \in {<<>>, <<"/">>} \/ Refused(opts, DcKeys \cup NsKeys)
  THEN NoQuery
  ELSE [NoQuery EXCEPT !.kind = kind, !.path = TrimSlash(key),
                       !.dc = Param(opts, DcKeys), !.ns = Param(opts, NsKeys)]

NewKVExistsQuery(kind, m) ==
  IF m.bad THEN NoQuery
  ELSE [NoQuery EXCEPT !.kind = kind, !.path = TrimSlash(m.path), !.dc = m.dc]

NewKVListQueryV1(prefix, opts) ==
  IF prefix \in {<<>>, <<"/">>} \/ Refused(opts, DcKeys \cup NsKeys)
  THEN NoQuery
  ELSE [NoQuery EXCEPT !.kind = "kv.list", !.path = TrimSlash(prefix),
                       !.dc = Param(opts, DcKeys), !.ns = Param(opts, NsKeys)]

NewKVListQuery(m) ==
  IF m.bad THEN NoQuery
  ELSE [NoQuery EXCEPT !.kind = "kv.list", !.path = TrimSlash(m.path), !.dc = m.dc]

NewKVKeysQuery(m) ==
  IF m.bad THEN NoQuery
  ELSE [NoQuery EXCEPT !.kind = "kv.keys", !.path = TrimSlash(m.path), !.dc = m.dc]

NewConnectCAQuery == [NoQuery EXCEPT !.kind = "connect.caroots"]

NewConnectLeafQuery(service) ==
  [NoQuery EXCEPT !.kind = "connect.caleaf", !.name = service]

-----------------------------------------------------------------------------
(***************************************************************************)
(* The IDs: what a query prints of itself, part by part.                   *)
(***************************************************************************)
HealthServiceID(q) ==
  <<q.kind, q.tag, q.name, q.dc, q.near, q.statuses, q.ns, q.filter>>

CatalogServicesID(q) == <<q.kind, q.dc, q.ns, q.meta>>
CatalogServiceID(q) == <<q.kind, q.tag, q.name, q.dc, q.near>>
CatalogNodeID(q) == <<q.kind, q.name, q.dc>>
CatalogNodesID(q) == <<q.kind, q.dc, q.near>>
KVGetID(q) == <<q.kind, q.path, q.dc>>
KVListID(q) == <<q.kind, q.path, q.dc>>
KVKeysID(q) == <<q.kind, q.path, q.dc>>
\* A mutant: the ID of the embedded query.
KVExistsIDInherited(q) == <<"kv.get", q.path, q.dc>>

KVExistsID(q) == <<q.kind, q.path, q.dc>>
KVExistsGetID(q) == <<q.kind, q.path, q.dc, q.ns>>
ConnectLeafID(q) == <<q.kind, q.name>>
DatacentersID(q) == <<q.kind>>
ConnectCAID(q) == <<q.kind>>

ID(q) ==
  CASE q.kind = "health.service"      -> HealthServiceID(q)
    [] q.kind = "catalog.services"    -> CatalogServicesID(q)
    [] q.kind = "catalog.service"     -> CatalogServiceID(q)
    [] q.kind = "catalog.node"        -> CatalogNodeID(q)
    [] q.kind = "catalog.nodes"       -> CatalogNodesID(q)
    [] q.kind = "catalog.datacenters" -> DatacentersID(q)
    [] q.kind = "kv.get"              -> KVGetID(q)
    [] q.kind = "kv.list"             -> KVListID(q)
    [] q.kind = "kv.keys"             -> KVKeysID(q)
    [] q.kind = "kv.exists"           -> KVExistsID(q)
    [] q.kind = "kv.exists.get"       -> KVExistsGetID(q)
    [] q.kind = "connect.caroots"     -> ConnectCAID(q)
    [] q.kind = "connect.caleaf"      -> ConnectLeafID(q)

-----------------------------------------------------------------------------
(***************************************************************************)
(* What a Fetch asks: the options of its own it merges into those the view *)
(* has set, and the answer Consul gives (external).                        *)
(***************************************************************************)
\* A mutant: the queries that embed KVExists inherit its SetOptions.
SetOptionsInherited(q, o) ==
  IF q.kind \in {"kv.exists", "kv.get", "kv.exists.get"}
  THEN [o EXCEPT !.WaitIndex = 0, !.WaitTime = 0] ELSE o

\* KVExists clears what would make its query a blocking one; kv.get and
\* kv.exists.get, which embed it, do not.
SetOptions(q, o) ==
  IF q.kind = "kv.exists" THEN [o EXCEPT !.WaitIndex = 0, !.WaitTime = 0] ELSE o

\* The options each Fetch merges.
OwnOptions(q) ==
  [ZeroOptions EXCEPT !.Datacenter = q.dc, !.Filter = q.filter,
                      !.Namespace = q.ns, !.Near = q.near]

BlockingQuery(q) ==
  q.kind \in {"kv.get", "kv.exists.get", "connect.caroots", "connect.caleaf"}

NoData == [type |-> "nil", val |-> <<>>]
Typed(type, val) == [type |-> type, val |-> val]

\* reflect.DeepEqual on what the queries return.
DeepEqual(a, b) == a.type = b.type /\ a.val = b.val

acceptStatus(filters, status) ==
  filters = <<>> \/ \E f \in ToSet(filters) : f \in {status, HealthAny}

\* A mutant: the tags are only copied.
deepCopyTags(tags) == tags

deepCopyAndSortTags(tags) == SortSeq(tags, Ascending)

\* a before b: by the first number, then by the second.
Before(a1, a2, b1, b2) == a1 < b1 \/ (a1 = b1 /\ a2 < b2)

\* The list is sorted, the checks of an entry stay in the order of the answer.
HealthServiceResult(q, entries) ==
  LET accepted == SelectSeq(entries, LAMBDA e : acceptStatus(q.statuses, e.Status))
      list == [j \in DOMAIN accepted |->
                 LET e == accepted[j]
                 IN  [ Node |-> e.Node, ID |-> e.ID, Name |-> e.Name,
                       Status |-> e.Status, Tags |-> deepCopyAndSortTags(e.Tags),
                       Checks |-> e.Checks,
                       Address |-> IF e.Address = Empty THEN e.NodeAddress
                                   ELSE e.Address ]]
  IN  Typed("HealthServices",
            IF q.near # Empty THEN list
            ELSE SortSeq(list, LAMBDA a, b : Before(a.Node, a.ID, b.Node, b.ID)))

CatalogServicesResult(entries) ==
  Typed("Snippets",
        SortSeq([j \in DOMAIN entries |->
                   [Name |-> entries[j].Name,
                    Tags |-> deepCopyAndSortTags(entries[j].Tags)]],
                LAMBDA a, b : a.Name < b.Name))

\* In the order of the answer.
CatalogServiceResult(entries) ==
  Typed("CatalogServices",
        [j \in DOMAIN entries |->
           [Node |-> entries[j].Node, ID |-> entries[j].ID,
            Tags |-> deepCopyAndSortTags(entries[j].Tags)]])

\* An unknown node is an empty record, not nil.
CatalogNodeResult(node, services) ==
  Typed("CatalogNode",
        [ Node |-> node,
          Services |->
            SortSeq([j \in DOMAIN services |->
                       [Name |-> services[j].Name, ID |-> services[j].ID,
                        Tags |-> deepCopyAndSortTags(services[j].Tags)]],
                    LAMBDA a, b : Before(a.Name, a.ID, b.Name, b.ID)) ])

CatalogNodesResult(q, nodes) ==
  Typed("Nodes",
        IF q.near # Empty THEN nodes
        ELSE SortSeq(nodes, LAMBDA a, b : Before(a.Node, a.Address, b.Node, b.Address)))

\* ignoreFailing: the datacenters that do not answer a query are left out.
DatacentersResult(q, dcs, down) ==
  Typed("Datacenters",
        SortSeq(SelectSeq(dcs, LAMBDA d : ~ (q.ignoreFailing /\ d \in down)), Ascending))

KVGetResult(pairs) ==
  IF pairs = <<>> THEN NoData ELSE Typed("KvValue", pairs[1].Value)

KVExistsResult(pairs) == Typed("KVExists", pairs # <<>>)

KVExistsGetResult(q, pairs) ==
  Typed("KeyPair",
        IF pairs = <<>>
        THEN [Path |-> q.path, Key |-> q.path, Value |-> Empty, Exists |-> FALSE]
        ELSE [Path |-> pairs[1].path, Key |-> pairs[1].path,
              Value |-> pairs[1].Value, Exists |-> TRUE])

\* strings.TrimLeft(s, "/")
TrimSlashes(path) ==
  LET kept == {j \in DOMAIN path : \E k \in 1 .. j : path[k] # "/"}
  IN  SubSeq(path, Len(path) - Cardinality(kept) + 1, Len(path))

WithoutPrefix(path, prefix) ==
  TrimSlashes(IF IsPrefix(prefix, path)
              THEN SubSeq(path, Len(prefix) + 1, Len(path)) ELSE path)

KVListResult(q, pairs) ==
  Typed("KeyPairs",
        [j \in DOMAIN pairs |->
           [Path |-> pairs[j].path, Key |-> WithoutPrefix(pairs[j].path, q.path),
            Value |-> pairs[j].Value, Exists |-> TRUE]])

KVKeysResult(q, pairs) ==
  Typed("Keys", [j \in DOMAIN pairs |-> WithoutPrefix(pairs[j].path, q.path)])

\* The list of roots, in the order of the answer.
ConnectCAResult(roots) == Typed("CARoots", roots)
ConnectLeafResult(cert) == Typed("LeafCert", cert)

-----------------------------------------------------------------------------
(***************************************************************************)
(* Consul (external): what each endpoint selects for the options it gets,  *)
(* from a world of service instances, nodes, keys and datacenters.  It     *)
(* promises no order but that of the keys: `shown` says of the list of     *)
(* entries with their tags, and of the checks of each entry, whether they  *)
(* come as registered (1) or the other way round (2).                      *)
(***************************************************************************)
Orders == [list : 1 .. 2, checks : 1 .. 2]

LocalDc == 1
DcOf(opts) == IF opts.Datacenter = Empty THEN LocalDc ELSE opts.Datacenter

Shown(seq, order) == IF order = 1 THEN seq ELSE Reverse(seq)

Listed(entries, shown) ==
  Shown([j \in DOMAIN entries |->
           [entries[j] EXCEPT !.Tags = Shown(entries[j].Tags, shown.list)]], shown.list)

\* The entries of the health endpoints come with their checks.
WithChecks(entries, shown) ==
  [j \in DOMAIN entries |->
     [entries[j] EXCEPT !.Checks = Shown(entries[j].Checks, shown.checks)]]

Instances(w, opts) ==
  SelectSeq(w.instances, LAMBDA e : /\ e.Dc = DcOf(opts)
                                    /\ e.Namespace = opts.Namespace
                                    /\ \A f \in ToSet(opts.Filter) : f \in e.Matches)

Named(q, w, opts) ==
  SelectSeq(Instances(w, opts), LAMBDA e : /\ e.Name = q.name
                                           /\ q.tag = Empty \/ q.tag \in ToSet(e.Tags))

HealthEndpoint(q, w, opts) ==
  SelectSeq(Named(q, w, opts), LAMBDA e : /\ q.passingOnly => e.Status = HealthPassing
                                          /\ q.connect => e.Connect)

\* One entry for each service name, with the tags of all its instances.
ServicesEndpoint(q, w, opts) ==
  LET all == SelectSeq(Instances(w, opts), LAMBDA e : q.meta \subseteq e.Meta)
      firsts == SelectSeq([j \in DOMAIN all |->
                             [Name |-> all[j].Name, at |-> j,
                              Tags |-> SetToSeq(UNION {ToSet(e.Tags) :
                                 e \in {x \in ToSet(all) : x.Name = all[j].Name}})]],
                          LAMBDA r : \A k \in 1 .. r.at - 1 : all[k].Name # r.Name)
  IN  firsts

Pairs(w, opts, path, exact) ==
  SelectSeq(w.kv, LAMBDA p : /\ p.Dc = DcOf(opts)
                             /\ p.Namespace = opts.Namespace
                             /\ IF exact THEN p.path = path ELSE IsPrefix(path, p.path))

\* The value a Fetch of q returns.
Result(q, w, opts, shown) ==
  CASE q.kind = "health.service" ->
         HealthServiceResult(q, WithChecks(Listed(HealthEndpoint(q, w, opts), shown), shown))
    [] q.kind = "catalog.services" ->
         CatalogServicesResult(Listed(ServicesEndpoint(q, w, opts), shown))
    [] q.kind = "catalog.service" ->
         CatalogServiceResult(Listed(Named(q, w, opts), shown))
    [] q.kind = "catalog.node" ->
         LET name == IF q.name = Empty THEN w.agent ELSE q.name
         IN  IF \E n \in ToSet(w.nodes) : n.Node = name
             THEN CatalogNodeResult(name,
                    Listed(SelectSeq(Instances(w, opts), LAMBDA e : e.Node = name), shown))
             ELSE CatalogNodeResult(Empty, <<>>)
    [] q.kind = "catalog.nodes" -> CatalogNodesResult(q, Shown(w.nodes, shown.list))
    [] q.kind = "catalog.datacenters" -> DatacentersResult(q, Shown(w.dcs, shown.list), w.down)
    [] q.kind = "kv.get" -> KVGetResult(Pairs(w, opts, q.path, TRUE))
    [] q.kind = "kv.exists" -> KVExistsResult(Pairs(w, opts, q.path, TRUE))
    [] q.kind = "kv.exists.get" -> KVExistsGetResult(q, Pairs(w, opts, q.path, TRUE))
    [] q.kind = "kv.list" -> KVListResult(q, Pairs(w, opts, q.path, FALSE))
    [] q.kind = "kv.keys" -> KVKeysResult(q, Pairs(w, opts, q.path, FALSE))
    [] q.kind = "connect.caroots" -> ConnectCAResult(Shown(w.roots, shown.list))
    [] q.kind = "connect.caleaf" -> ConnectLeafResult(w.leaf)
=============================================================================
