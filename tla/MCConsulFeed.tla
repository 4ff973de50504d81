---------------------------- MODULE MCConsulFeed ----------------------------
EXTENDS ConsulFeed

\* Arguments: the empty call, and what a call sets of it.
NoText == [bad |-> FALSE, tag |-> Empty, name |-> Empty, dc |-> Empty,
           near |-> Empty, filter |-> <<>>, path |-> <<>>]
NoCall == [fn |-> "none", text |-> NoText, name |-> Empty, path |-> <<>>,
           opts |-> <<>>, ignore |-> FALSE]

V0(fn, text) == [NoCall EXCEPT !.fn = fn, !.text = text @@ NoText]
V1(fn, name, opts) == [NoCall EXCEPT !.fn = fn, !.name = name, !.opts = opts]
KV(fn, path, opts) == [NoCall EXCEPT !.fn = fn, !.path = path, !.opts = opts]
Opt(key, value) == [key |-> key, value |-> value]

Web == 1
Db == 2
Slow == 7       \* a filter of the API
NotBad == 8     \* a filter on Checks.Status
App == <<"app">>
AppA == <<"app", "/", "a">>

\* Two instances of web on one node, one that is critical, another datacenter,
\* a mesh proxy, and a namespace of its own.
Instance(node, id, name, status) ==
  [ Node |-> node, NodeAddress |-> 9, ID |-> id, Name |-> name, Address |-> Empty,
    Tags |-> <<1, 2>>, Checks |-> <<1, 2>>, Status |-> status, Connect |-> FALSE, Dc |-> 1,
    Namespace |-> Empty, Matches |-> {NotBad}, Meta |-> {5} ]

Key(path, value) == [path |-> path, Value |-> value, Dc |-> 1, Namespace |-> Empty]

World1 ==
  [ instances |-> << Instance(1, 1, Web, HealthPassing),
                     Instance(1, 2, Web, HealthCritical),
                     [Instance(2, 1, Web, HealthPassing) EXCEPT !.Address = 4, !.Matches = {NotBad, Slow}],
                     [Instance(1, 3, Db, HealthPassing) EXCEPT !.Connect = TRUE, !.Meta = {}],
                     [Instance(3, 1, Web, HealthPassing) EXCEPT !.Dc = 2],
                     [Instance(2, 4, Web, HealthPassing) EXCEPT !.Namespace = 3] >>,
    nodes |-> <<[Node |-> 1, Address |-> 9], [Node |-> 2, Address |-> 8]>>,
    kv |-> << Key(App, 1), Key(AppA, 2), Key(<<"app", "/", "b", "/">>, 0),
              Key(<<"app", "/", "b", "/", "c">>, 3),
              [Key(AppA, 4) EXCEPT !.Dc = 2] >>,
    dcs |-> <<1, 2>>, down |-> {2}, agent |-> 1, roots |-> <<1>>, leaf |-> 1 ]

\* A web instance recovers and another goes, a key is deleted and one written,
\* a node joins, a datacenter comes back, the roots rotate.
World2 ==
  [ World1 EXCEPT
      !.instances = << [Instance(1, 1, Web, HealthPassing) EXCEPT !.Connect = TRUE],
                       Instance(1, 2, Web, HealthPassing),
                       [Instance(1, 3, Db, HealthWarning) EXCEPT !.Connect = TRUE],
                       Instance(4, 4, Db, HealthPassing) >>,
      !.nodes = Append(@, [Node |-> 4, Address |-> 8]),
      !.kv = << Key(App, 1), Key(<<"app", "/", "b", "/", "c">>, 5),
                Key(<<"app", "/", "d">>, 6) >>,
      !.down = {}, !.roots = <<1, 2>>, !.leaf = 2 ]

MCWorlds == <<World1, World2>>

Service == V0("service", [name |-> Web])

\* Calls that share no view with another call.
Single ==
  { Service,
    V0("service", [name |-> Web, filter |-> <<HealthPassing, HealthCritical>>, dc |-> 1]),
    V0("service", [name |-> Web, near |-> 1, tag |-> 2, filter |-> <<HealthAny>>]),
    V0("service", [name |-> Web, filter |-> <<6>>]),
    V0("connect", [name |-> Db]),
    V1("serviceV1", Web, <<>>),
    V1("serviceV1", Web, <<Opt("filter", Slow), Opt("dc", 1)>>),
    V1("serviceV1", Web, <<Opt("statusFilter", NotBad)>>),
    V1("serviceV1", Web, <<Opt("ns", 3), Opt("blank", 0)>>),
    V1("connectV1", Db, <<>>),
    V1("servicesV1", Empty, <<Opt("node-meta", 5)>>),
    V0("node", NoText), V0("node", [name |-> 2]), V0("node", [name |-> 4]),
    V0("nodes", NoText), V0("nodes", [near |-> 1]),
    V0("datacenters", NoText),
    [V0("datacenters", NoText) EXCEPT !.ignore = TRUE],
    KV("keyExistsV1", AppA, <<>>), KV("keyExistsV1", AppA, <<Opt("dc", 2)>>),
    KV("keyExistsGetV1", <<"/">> \o AppA, <<>>),
    V0("caRoots", NoText), V1("caLeaf", Web, <<>>),
    V0("keyOrDefault", [path |-> AppA]),
    V0("trackService", [name |-> Web]), V0("trackService", [name |-> Web, tag |-> 2]), V0("trackKeys", [path |-> App]) }

\* Calls that share the view of one ID, or read the same key.
Sharing ==
  { {V0("services", NoText), V1("servicesV1", Empty, <<>>)},
    {V0("key", [path |-> AppA]), KV("keyV1", AppA, <<>>), V0("keyExists", [path |-> AppA])},
    {V0("key", [path |-> AppA]), KV("keyExistsV1", AppA, <<>>)},
    {V0("ls", [path |-> App]), V0("tree", [path |-> App]), KV("keysV1", App, <<>>)} }

MCTemplates == {{}} \cup {{c} : c \in Single} \cup Sharing

\* Two calls that print the same ID and ask different questions.
CollidingTemplates == {{}, {Service, V0("connect", [name |-> Web])}}
=============================================================================
