-------------------------------- MODULE Router --------------------------------
(***************************************************************************)
(* Server.New registers the routes of the services that its filters admit, *)
(* in some order, and then its own; Router.Handle takes one route at a     *)
(* time.  Then a request arrives (ServeHTTP): for a route of one of them,  *)
(* or the POST of an IAM policy for a resource of one of them.             *)
(***************************************************************************)
EXTENDS ServiceRoutes, Naturals, SequencesExt

CONSTANT Admitted  \* the sets of services that a filter may admit

VARIABLES
  admitted, \* the services that the filter of this process admits
  todo,     \* those that have not registered yet
  now,      \* who registers, with the routes it has left
  table,    \* the router: registered (the keys seen) and mux (routes with their owner)
  asked,    \* a service and the request made of it, or nothing
  answered  \* who serves it

routerVars == <<admitted, todo, now, table, asked, answered>>

Nobody == "404"
Root   == [name |-> "root", routes |-> handleRoot]
NobodyYet   == [name |-> Nobody, routes |-> {}]

----------------------------------------------------------------------------
(* Patterns. *)

Wild(x) == x \in {"*", "**"}

\* A pattern that ends in "**" matches that place and all that follows.
Open(p) == Last(p) = "**"
Fixed(p) == IF Open(p) THEN Front(p) ELSE p

\* Some path matches both patterns; every path matching p matches q.
Agree(p, q)    == \A i \in 1 .. Len(p) : i <= Len(q) => (Wild(p[i]) \/ Wild(q[i]) \/ p[i] = q[i])
Overlap(p, q)  == /\ Agree(Fixed(p), Fixed(q))
                  /\ Open(p) \/ Len(Fixed(p)) >= Len(Fixed(q))
                  /\ Open(q) \/ Len(Fixed(q)) >= Len(Fixed(p))
Narrower(p, q) == /\ Len(Fixed(q)) <= Len(Fixed(p))
                  /\ \A i \in 1 .. Len(Fixed(q)) : q[i] = "*" \/ q[i] = p[i]
                  /\ Open(q) \/ (~Open(p) /\ Len(p) = Len(q))

\* http.ServeMux panics when two patterns overlap and neither is strictly narrower.
Conflict(r, s) == /\ r.method = s.method /\ Overlap(r.path, s.path)
                  /\ Narrower(r.path, s.path) <=> Narrower(s.path, r.path)

\* The path of a request, with values no pattern spells out.
RequestPath(p) == Fixed([i \in 1 .. Len(p) |-> IF p[i] = "*" THEN "x" ELSE p[i]])
                  \o (IF Open(p) THEN <<"x", "x">> ELSE <<>>)

\* The owner of the narrowest pattern in the mux that matches.
Serve(mux, method, path) ==
  LET hits == {r \in mux : r.method = method /\ Narrower(path, r.path)}
      best == {r \in hits : \A s \in hits : Narrower(r.path, s.path)}
  IN  IF best = {} THEN Nobody ELSE (CHOOSE r \in best : TRUE).owner

\* The resources a service has at paths of their own, and the POST by which
\* iampolicy is to be asked for the policy of one ("x" has the ":verb").
Resources(s)  == {p \in {r.path : r \in s.routes} : Last(p) = "*"}
PolicyPost(p) == [method |-> "POST", path |-> p]

\* What a service may be asked for: its routes, and its resources' policies.
Requests(s) == s.routes \cup {PolicyPost(p) : p \in Resources(s)}

----------------------------------------------------------------------------
\* The resources whose services take that POST for themselves.
Intercepted ==
  {InProject \o <<c, "*">> : c \in {"topics", "subscriptions", "secrets", "services", "triggers"}}
  \cup {Located \o <<c, "*">> : c \in {"functions", "jobs", "customJobs", "endpoints"}}
  \cup {Located \o <<"keyRings", "*", "cryptoKeys", "*">>,
        Located \o <<"namespaces", "*", "services", "*">>,
        InProject \o <<"regions", "*", "jobs", "*">>,
        InProject \o <<"databases", "*", "documents", "*">>}
  \cup {<<"v2", "projects", "*", "locations", "*", "jobs", "*">>,
        <<"v2", "projects", "*", "locations", "*", "queues", "*", "tasks", "*">>,
        <<"compute", "v1", "projects", "*", "zones", "*", "instances", "*">>}

(* What the catalog must be for the router to keep the services apart, for  *)
(* any that are admitted: names are unique, patterns well formed; no two    *)
(* routes are in conflict; below an open pattern nobody has a narrower one  *)
(* that a request with values no pattern spells out could fall to; and a    *)
(* POST for a resource matches a route of its service, which is Intercepted *)
(* then, or else no route but iampolicy's, which is for all below /v1.      *)

Named ==
  /\ Root \notin Services
  /\ \A s \in Services : s = [name |-> s.name, routes |-> s.routes]
  /\ \A s, t \in Services \cup {Root} : s.name # Nobody /\ (s.name = t.name => s = t)

\* What a segment of a pattern or of a request is.
Segment == {"x"} \cup UNION {UNION {Range(r.path) : r \in s.routes} : s \in Services \cup {Root}}

WellFormed(p) ==
  /\ p \in Seq(Segment) /\ p # <<>>
  /\ \A i \in 1 .. Len(p) : p[i] # "x" /\ (p[i] = "**" => i = Len(p))

NoCollisions ==
  \A s, t \in Services \cup {Root} : \A r \in s.routes, q \in t.routes :
    s # t \/ r # q => ~Conflict(r, q)

NothingBelowOpen ==
  \A s \in Services, t \in Services \cup {Root} : \A r \in s.routes, q \in t.routes :
    Open(r.path) /\ r.method = q.method /\ Narrower(RequestPath(r.path), q.path)
      => Narrower(r.path, q.path)

PostsForResources ==
  /\ \A s \in Services : s.name = "iampolicy" => s.routes = {PolicyPost(<<"v1", "**">>)}
  /\ \A s \in Services : \A p \in Resources(s) :
       /\ p \in Intercepted <=> PolicyPost(p) \in s.routes
       /\ p \notin Intercepted =>
            \A t \in Services \cup {Root} : \A q \in t.routes :
              q.method = "POST" /\ Narrower(p, q.path) => t.name = "iampolicy"

ASSUME CatalogAssumption ==
  /\ Named /\ NoCollisions /\ NothingBelowOpen /\ PostsForResources
  /\ \A s \in Services \cup {Root} : \A r \in s.routes : WellFormed(r.path)

ASSUME RouterAssumption == Admitted \subseteq SUBSET Services

----------------------------------------------------------------------------
\* Mutant: a route that some other route's request may match is dropped.
HandleUnlessOverlap(t, r, owner) ==
  IF r \in t.registered THEN t
  ELSE [registered |-> t.registered \cup {r},
        mux |-> IF \E s \in t.mux : r.method = s.method /\ Overlap(r.path, s.path) THEN t.mux
                ELSE t.mux \cup {[method |-> r.method, path |-> r.path, owner |-> owner]}]

\* Mutant: the path alone is the key.
HandleByPath(t, r, owner) ==
  IF \E q \in t.registered : q.path = r.path THEN t
  ELSE [registered |-> t.registered \cup {r},
        mux |-> IF \E s \in t.mux : Conflict(r, s) THEN t.mux
                ELSE t.mux \cup {[method |-> r.method, path |-> r.path, owner |-> owner]}]

\* A duplicate is ignored; a panic of the mux is recovered and the route is lost.
Handle(t, r, owner) ==
  IF r \in t.registered THEN t
  ELSE [registered |-> t.registered \cup {r},
        mux |-> IF \E s \in t.mux : Conflict(r, s) THEN t.mux
                ELSE t.mux \cup {[method |-> r.method, path |-> r.path, owner |-> owner]}]

RouterInit ==
  /\ admitted \in Admitted /\ todo = admitted /\ now = NobodyYet
  /\ table = [registered |-> {}, mux |-> {}]
  /\ asked = <<>> /\ answered = Nobody

\* The next service, and behind the last one New itself.
RegisterRoutes(s) ==
  /\ now.routes = {}
  /\ s \in todo \/ (todo = {} /\ now.name # Root.name /\ s = Root)
  /\ now' = s
  /\ todo' = todo \ {s}
  /\ UNCHANGED <<admitted, table, asked, answered>>

HandleNext ==
  /\ now.routes # {}
  /\ LET r == CHOOSE r \in now.routes : TRUE IN
       /\ now' = [now EXCEPT !.routes = @ \ {r}]
       /\ table' = Handle(table, r, now.name)
  /\ UNCHANGED <<admitted, todo, asked, answered>>

ServeHTTP(s, r) ==
  /\ todo = {} /\ now = [Root EXCEPT !.routes = {}] /\ asked = <<>>
  /\ asked' = <<s, r>>
  /\ answered' = Serve(table.mux, r.method, RequestPath(r.path))
  /\ UNCHANGED <<admitted, todo, now, table>>

RouterNext ==
  \/ \E s \in admitted \cup {Root} : RegisterRoutes(s)
  \/ HandleNext
  \/ \E s \in admitted : \E r \in Requests(s) : ServeHTTP(s, r)

RouterSpec == RouterInit /\ [][RouterNext]_routerVars

----------------------------------------------------------------------------
(* "No route collisions" (CONTRIBUTING.md:58): every route of every service *)
(* is served by that service, in whatever order the services register: no   *)
(* route is a duplicate of another's, or lost in a conflict with one.       *)
RoutesServed ==
  asked # <<>> => (asked[2] \in asked[1].routes => answered = asked[1].name)

PolicyOn == \E s \in admitted : s.name = "iampolicy"

(* The POST of a policy for a resource under /v1 comes to iampolicy, which  *)
(* listens on /v1/{resource...}, if its service registers no POST at the    *)
(* resource's own path, and never to a third service.  Those that do are    *)
(* the Intercepted; iampolicy.go:19-24 takes them to be topics,             *)
(* subscriptions, secrets and endpoints of the service directory.           *)
PoliciesResolve ==
  asked # <<>> =>
    \A p \in Resources(asked[1]) :
      asked[2] = PolicyPost(p) =>
        answered = CASE p \in Intercepted -> asked[1].name
                     [] p \notin Intercepted /\ PolicyOn /\ p[1] = "v1" -> "iampolicy"
                     [] p \notin Intercepted /\ ~(PolicyOn /\ p[1] = "v1") -> Nobody
=============================================================================
