--------------------------- MODULE TemplateFuncs ---------------------------
(***************************************************************************)
(* The template functions of tfunc that read Consul: the query each one    *)
(* hands to the Recaller, the Go types it can take what comes back for,    *)
(* and what it returns to the template.                                    *)
(*                                                                         *)
(* A call is a record: fn is the function, with "V1" for those of          *)
(* FuncMapConsulV1, and the other fields its arguments (text for version   *)
(* 0, name or path and opts for version 1).                                *)
(***************************************************************************)
EXTENDS Queries

\* The query a function asks for, NoQuery when it returns before it has one,
\* and the types its type switch or assertion lets through.
Asks(query, takes) == [query |-> query, takes |-> takes]
AsksNothing == Asks(NoQuery, {})

Unless(empty, asks) == IF empty THEN AsksNothing ELSE asks

datacentersFunc(c) == Asks(NewCatalogDatacentersQuery(c.ignore), {"Datacenters"})

keyFunc(c) ==
  Unless(c.text.path = <<>>,
         Asks(NewKVExistsQuery("kv.get", c.text), {"nil", "string", "KvValue"}))

keyExistsFunc(c) ==
  Unless(c.text.path = <<>>,
         Asks(NewKVExistsQuery("kv.get", c.text), {"nil", "string", "KvValue"}))

keyWithDefaultFunc(c) ==
  Unless(c.text.path = <<>>,
         Asks(NewKVExistsQuery("kv.get", c.text), {"nil", "string"}))

lsFunc(c) == Unless(c.text.path = <<>>, Asks(NewKVListQuery(c.text), {"KeyPairs"}))
treeFunc(c) == Unless(c.text.path = <<>>, Asks(NewKVListQuery(c.text), {"KeyPairs"}))

nodeFunc(c) == Asks(NewCatalogNodeQuery(c.text), {"CatalogNode"})
nodesFunc(c) == Asks(NewCatalogNodesQuery(c.text), {"Nodes"})

serviceFunc(c) ==
  Unless(c.text.name = Empty,
         Asks(NewHealthServiceQuery(c.text, FALSE), {"HealthServices"}))

servicesFunc(c) == Asks(NewCatalogServicesQuery(c.text), {"Snippets"})

connectFunc(c) ==
  Unless(c.text.name = Empty,
         Asks(NewHealthServiceQuery(c.text, TRUE), {"HealthServices"}))

connectCARootsFunc(c) == Asks(NewConnectCAQuery, {"CARoots"})

connectLeafFunc(c) ==
  Unless(c.name = Empty, Asks(NewConnectLeafQuery(c.name), {"LeafCert"}))

v1ServicesFunc(c) == Asks(NewCatalogServicesQueryV1(c.opts), {"Snippets"})

v1ServiceFunc(c) ==
  Asks(NewHealthServiceQueryV1(c.name, FALSE, c.opts), {"HealthServices"})

v1ConnectFunc(c) ==
  Asks(NewHealthServiceQueryV1(c.name, TRUE, c.opts), {"HealthServices"})

v1KVListFunc(c) == Asks(NewKVListQueryV1(c.path, c.opts), {"KeyPairs"})
v1KVGetFunc(c) == Asks(NewKVExistsQueryV1("kv.get", c.path, c.opts), {"KvValue"})
v1KVExistsFunc(c) == Asks(NewKVExistsQueryV1("kv.exists", c.path, c.opts), {"KVExists"})
v1KVExistsGetFunc(c) ==
  Asks(NewKVExistsQueryV1("kv.exists.get", c.path, c.opts), {"KeyPair"})

\* Queries no template function builds: a program hands them to Track.
TrackedQuery(c) ==
  CASE c.fn = "trackService" -> Asks(NewCatalogServiceQuery(c.text), {"CatalogServices"})
    [] c.fn = "trackKeys"    -> Asks(NewKVKeysQuery(c.text), {"Keys"})

\* The function maps ConsulV0 and ConsulV1.
Call(c) ==
  CASE c.fn = "datacenters"    -> datacentersFunc(c)
    [] c.fn = "key"            -> keyFunc(c)
    [] c.fn = "keyExists"      -> keyExistsFunc(c)
    [] c.fn = "keyOrDefault"   -> keyWithDefaultFunc(c)
    [] c.fn = "ls"             -> lsFunc(c)
    [] c.fn = "tree"           -> treeFunc(c)
    [] c.fn = "node"           -> nodeFunc(c)
    [] c.fn = "nodes"          -> nodesFunc(c)
    [] c.fn = "service"        -> serviceFunc(c)
    [] c.fn = "services"       -> servicesFunc(c)
    [] c.fn = "connect"        -> connectFunc(c)
    [] c.fn = "caRoots"        -> connectCARootsFunc(c)
    [] c.fn = "caLeaf"         -> connectLeafFunc(c)
    [] c.fn = "servicesV1"     -> v1ServicesFunc(c)
    [] c.fn = "serviceV1"      -> v1ServiceFunc(c)
    [] c.fn = "connectV1"      -> v1ConnectFunc(c)
    [] c.fn = "keysV1"         -> v1KVListFunc(c)
    [] c.fn = "keyV1"          -> v1KVGetFunc(c)
    [] c.fn = "keyExistsV1"    -> v1KVExistsFunc(c)
    [] c.fn = "keyExistsGetV1" -> v1KVExistsGetFunc(c)
    [] OTHER                   -> TrackedQuery(c)

QueryOf(c) == Call(c).query
IDOf(c) == ID(QueryOf(c))

-----------------------------------------------------------------------------
(***************************************************************************)
(* What reaches the template of a recalled value.                          *)
(***************************************************************************)
\* ls keeps the keys with no further "/".
TopLevel(pairs) ==
  SelectSeq(pairs, LAMBDA p : p.Key # <<>> /\ "/" \notin ToSet(p.Key))

\* tree leaves out the folders: keys that are empty or end in "/".
Leaves(pairs) ==
  SelectSeq(pairs, LAMBDA p : p.Key # <<>> /\ Last(p.Key) # "/")

Returns(c, value) ==
  CASE c.fn = "ls"        -> TopLevel(value.val)
    [] c.fn = "tree"      -> Leaves(value.val)
    [] c.fn = "keyExists" -> value.type # "nil"
    [] OTHER              -> value.val
=============================================================================
