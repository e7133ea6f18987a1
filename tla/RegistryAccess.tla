---------------------------- MODULE RegistryAccess ----------------------------
(***************************************************************************)
(* How a CI workflow gets an image into the registry and deployed: the     *)
(* exchange of its OIDC token (internal/api/auth.go) for the API secret    *)
(* and a registry token that is bound to one repository and expires        *)
(* (internal/registry/token.go), the push through the proxy in front of    *)
(* Zot, one request after the other (internal/registry/proxy.go), and a    *)
(* deploy, for which the secret is enough: the workflow may ask for it at  *)
(* any time, of any image, pushed or not.  The exchange and the deploy     *)
(* each look for the service on their own, by different spellings of a     *)
(* name, while containers come and go.                                     *)
(*                                                                         *)
(* Names are the sequences of their segments.  Whether a JWT verifies is   *)
(* nondeterministic, and so are Docker's failures and Zot's.  Bounds: a    *)
(* workflow exchanges its token successfully once and deploys once.        *)
(***************************************************************************)
EXTENDS Discovery

CONSTANTS Requests,     \* what a workflow is about, see Init
          Host,         \* the tokens in front of the name in a full reference
          TTL,          \* registryTokenTTL
          MaxTime       \* bound of the clock

VARIABLES req,          \* each workflow's member of Requests
          pc,           \* its next call, which a deploy may come before
          held,         \* the bearer token it sends to the API: "jwt" or "secret"
          token,        \* {} or its registry token
          location,     \* where its open upload continues
          answer,       \* the last answer worth keeping
          settledAt,    \* when the proxy or Zot gave it
          authorised,   \* {} or what labelled the service when the token was granted
          deployed,     \* {} or what its deploy was discovered to be of
          now

flowVars == <<req, pc, held, token, location, answer, settledAt, authorised, deployed>>
vars == <<hostVars, seekVars, flowVars, now>>

Workflows == Seekers

Keywords == {"manifests", "tags", "referrers", "blobs"}

\* A restriction of the model: a tag with the name of an API call makes the
\* proxy look for the repository in the wrong place (proxy.go:44-78).
ASSUME TagsAreNoKeywords == \A r \in Requests : r.tag \notin Keywords \cup {"uploads"}

\* What is pushed has a name; one that a workflow asks a token for may be wrong.
ASSUME RequestsAssumption ==
  /\ \A r \in Requests :
       /\ r.auth \in {"jwt", "secret"}
       /\ r.name \in Seq(STRING) /\ \A i \in DOMAIN r.name : r.name[i] \notin {"/", "@"}
       /\ r.to \in Seq(STRING) \ {<<>>}
       /\ \A i \in DOMAIN r.to : r.to[i] \notin {"/", ":", "@"}
       /\ r.tag \in STRING \ {"/"}
  /\ Host \in Seq(STRING) /\ (Host # <<>> => Last(Host) = "/")
  /\ \A i \in DOMAIN Host : Host[i] # "@"
  /\ TTL \in Nat /\ MaxTime \in Nat

Init ==
  /\ HostInit
  /\ req \in [Workflows -> Requests]
  /\ pc = [w \in Workflows |-> "exchange"]
  /\ held = [w \in Workflows |-> req[w].auth]
  /\ token = [w \in Workflows |-> {}]
  /\ location = [w \in Workflows |-> [host |-> "", path |-> <<>>]]
  /\ answer = [w \in Workflows |-> "none"]
  /\ settledAt = [w \in Workflows |-> 0]
  /\ authorised = [w \in Workflows |-> {}]
  /\ deployed = [w \in Workflows |-> {}]
  /\ now = 0

Joined(segments) ==
  [i \in 1 .. 2 * Len(segments) - 1 |-> IF i % 2 = 1 THEN segments[(i + 1) \div 2] ELSE "/"]

-----------------------------------------------------------------------------
\* The API: the middleware, the exchange of tokens

\* Mistake: a JWT that verifies is good for every operation.
HumaAuthOnAllRoutes(operation, bearer) ==
  CASE bearer = "secret" -> {"admin"}
    [] bearer = "jwt" -> {IF operation = "post-auth-token" THEN "claims" ELSE "admin", "denied"}

\* What the middleware lets through, and as what.
HumaAuth(operation, bearer) ==
  CASE bearer = "secret" -> {"admin"}
    [] bearer = "jwt" -> IF operation = "post-auth-token" THEN {"claims", "denied"} ELSE {"denied"}

checkOIDCLabels(r, labels) ==
  /\ r.repository \in labels.repos
  /\ IF labels.refs = {} THEN r.ref \in {"main", "master"} ELSE r.ref \in labels.refs

IsImageName(name) == name # <<>> /\ \A i \in DOMAIN name : name[i] # ":"

Ends(w, what) ==
  /\ answer' = [answer EXCEPT ![w] = what]
  /\ match' = [match EXCEPT ![w] = {}]

\* The checks in front of Discover, in their order, none of which calls Docker.
ExchangeRefused(w) ==
  /\ pc[w] = "exchange"
  /\ \E who \in HumaAuth("post-auth-token", held[w]) :
        Ends(w, CASE who # "claims" \/ req[w].ref = "pull" -> "forbidden"
                  [] who = "claims" /\ ~IsImageName(req[w].name) -> "bad request"
                  [] OTHER -> "none")
  /\ answer'[w] # "none"
  /\ UNCHANGED <<hostVars, seen, req, pc, held, token, location, settledAt, authorised,
                 deployed, now>>

Exchange(w) ==
  /\ pc[w] = "exchange"
  /\ "claims" \in HumaAuth("post-auth-token", held[w])
  /\ req[w].ref # "pull"
  /\ IsImageName(req[w].name)
  /\ \/ /\ ListRunningContainers(w, Joined(req[w].name) \o <<":", "latest">>)
        /\ pc' = [pc EXCEPT ![w] = IF match'[w] = {} THEN @ ELSE "grant"]
        /\ answer' = [answer EXCEPT ![w] = IF match'[w] = {} THEN "not found" ELSE "none"]
     \/ Ends(w, "error") /\ UNCHANGED <<seen, pc>>
  /\ UNCHANGED <<hostVars, req, held, token, location, settledAt, authorised, deployed, now>>

MintRegistryToken(imageName) == [image |-> imageName, expiry |-> now + TTL]

Grant(w) ==
  /\ pc[w] = "grant"
  /\ \E a \in Apps :
        /\ Inspected(w, a)
        /\ checkOIDCLabels(req[w], a)
        /\ authorised' = [authorised EXCEPT ![w] = {a}]
  /\ token' = [token EXCEPT ![w] = {MintRegistryToken(req[w].name)}]
  /\ held' = [held EXCEPT ![w] = "secret"]
  /\ pc' = [pc EXCEPT ![w] = "login"]
  /\ Ends(w, "granted")
  /\ UNCHANGED <<hostVars, seen, req, location, settledAt, deployed, now>>

GrantRefused(w) ==
  /\ pc[w] = "grant"
  /\ \/ InspectFails(w) /\ Ends(w, "error")
     \/ /\ \E a \in Apps : Inspected(w, a) /\ ~checkOIDCLabels(req[w], a)
        /\ Ends(w, "forbidden")
  /\ pc' = [pc EXCEPT ![w] = "exchange"]
  /\ UNCHANGED <<hostVars, seen, req, held, token, location, settledAt, authorised, deployed, now>>

\* Whoever has the secret logs in to the registry with it.
UseSecret(w) ==
  /\ pc[w] = "exchange"
  /\ held[w] = "secret"
  /\ pc' = [pc EXCEPT ![w] = "login"]
  /\ UNCHANGED <<hostVars, seekVars, req, held, token, location, answer, settledAt,
                 authorised, deployed, now>>

-----------------------------------------------------------------------------
\* The registry proxy

CallAt(path) ==
  {i \in DOMAIN path : \/ path[i] \in Keywords
                       \/ path[i] = "uploads" /\ i > 1 /\ path[i - 1] = "blobs"}

\* Mistake: scanned from the front.
extractRepoFromFront(path) ==
  IF CallAt(path) = {} THEN <<>> ELSE SubSeq(path, 1, Min(CallAt(path)) - 1)

\* The segments before the last one that names a call, blobs/uploads being one.
extractRepoFromPath(path) ==
  IF CallAt(path) = {}
  THEN <<>>
  ELSE LET i == Max(CallAt(path)) IN SubSeq(path, 1, IF path[i] = "uploads" THEN i - 2 ELSE i - 1)

ValidateRegistryToken(t) == now <= t.expiry

ValidateRegistryTokenForRepo(t, repo) == t.image = repo /\ ValidateRegistryToken(t)

\* A workflow that has a token logs in with it.
validateProxyAuth(w, path) ==
  \A t \in token[w] :
     IF extractRepoFromPath(path) # <<>>
     THEN ValidateRegistryTokenForRepo(t, extractRepoFromPath(path))
     ELSE path = <<>> /\ ValidateRegistryToken(t)

RewriteLocation(l) == [l EXCEPT !.host = ""]

\* A request of the push: let through, denied, or lost on Zot's side.  After
\* either the client may try again.
Settle(w, what) ==
  /\ answer' = [answer EXCEPT ![w] = what]
  /\ settledAt' = [settledAt EXCEPT ![w] = now]

Request(w, path, next) ==
  /\ \/ /\ validateProxyAuth(w, path)
        /\ pc' = [pc EXCEPT ![w] = next]
        /\ IF next = "pushed" THEN Settle(w, "pushed") ELSE UNCHANGED <<answer, settledAt>>
     \/ ~validateProxyAuth(w, path) /\ Settle(w, "denied") /\ UNCHANGED pc
     \/ validateProxyAuth(w, path) /\ Settle(w, "bad gateway") /\ UNCHANGED pc
  /\ UNCHANGED <<hostVars, seekVars, req, held, token, authorised, deployed, now>>

Login(w) ==
  /\ pc[w] = "login"
  /\ Request(w, <<>>, "upload")
  /\ UNCHANGED location

StartUpload(w) ==
  /\ pc[w] = "upload"
  /\ Request(w, req[w].to \o <<"blobs", "uploads">>, "blob")
  /\ \E host \in {"", "127.0.0.1"} :
        location' = [location EXCEPT ![w] =
          RewriteLocation([host |-> host, path |-> req[w].to \o <<"blobs", "uploads", "uuid">>])]

PutBlob(w) ==
  /\ pc[w] = "blob"
  /\ Request(w, location[w].path, "manifest")
  /\ UNCHANGED location

PutManifest(w) ==
  /\ pc[w] = "manifest"
  /\ Request(w, req[w].to \o <<"manifests", req[w].tag>>, "pushed")
  /\ UNCHANGED location

-----------------------------------------------------------------------------
\* The deploy

BetweenCalls(w) == pc[w] \in {"exchange", "login", "upload", "blob", "manifest", "pushed"}

DeployDenied(w) ==
  /\ BetweenCalls(w)
  /\ "denied" \in HumaAuth("post-deploy", held[w])
  /\ answer' = [answer EXCEPT ![w] = "forbidden"]
  /\ UNCHANGED <<hostVars, seekVars, req, pc, held, token, location, settledAt,
                 authorised, deployed, now>>

\* The handler accepts any image of whoever the middleware lets in; the job's
\* discover step follows when the queue comes to it.
Deploy(w) ==
  /\ BetweenCalls(w)
  /\ "admin" \in HumaAuth("post-deploy", held[w])
  /\ \/ /\ ListRunningContainers(w, Host \o Joined(req[w].to) \o <<":", req[w].tag>>)
        /\ pc' = [pc EXCEPT ![w] = IF match'[w] = {} THEN "end" ELSE "inspect"]
        /\ answer' = [answer EXCEPT ![w] = IF match'[w] = {} THEN "no service" ELSE "none"]
     \/ Ends(w, "error") /\ pc' = [pc EXCEPT ![w] = "end"] /\ UNCHANGED seen
  /\ UNCHANGED <<hostVars, req, held, token, location, settledAt, authorised, deployed, now>>

Discovered(w) ==
  /\ pc[w] = "inspect"
  /\ \/ /\ \E a \in Apps : Inspected(w, a) /\ deployed' = [deployed EXCEPT ![w] = {a}]
        /\ Ends(w, "deployed")
     \/ InspectFails(w) /\ Ends(w, "error") /\ UNCHANGED deployed
  /\ pc' = [pc EXCEPT ![w] = "end"]
  /\ UNCHANGED <<hostVars, seen, req, held, token, location, settledAt, authorised, now>>

-----------------------------------------------------------------------------

HostStep ==
  /\ \E c \in Containers : ContainerEnds(c) \/ ContainerStarts(c) \/ TagMoves(c)
  /\ UNCHANGED <<seekVars, flowVars, now>>

Tick ==
  /\ now < MaxTime
  /\ now' = now + 1
  /\ UNCHANGED <<hostVars, seekVars, flowVars>>

Next ==
  \/ \E w \in Workflows :
        \/ ExchangeRefused(w) \/ Exchange(w) \/ Grant(w) \/ GrantRefused(w) \/ UseSecret(w)
        \/ Login(w) \/ StartUpload(w) \/ PutBlob(w) \/ PutManifest(w)
        \/ DeployDenied(w) \/ Deploy(w) \/ Discovered(w)
  \/ HostStep
  \/ Tick

Spec == Init /\ [][Next]_vars

-----------------------------------------------------------------------------
\* Properties

\* A service one of whose containers ran under its reference when Docker was
\* asked is never "not found", at the exchange by bare name
\* (auth.go:59-63) as little as at the deploy by full reference, whatever
\* registry, port, tag or digest its container was started with
\* (discover.go:61-64, docker/api.go:289-300).
NotFoundMeansNoneRan ==
  \A w \in Workflows :
     /\ answer[w] = "not found" => \A a \in seen[w] : a.name # Last(req[w].name)
     /\ answer[w] = "no service" => \A a \in seen[w] : a.name # Last(req[w].to)

\* A registry token opens its own repository, whatever words the repository's
\* name is made of, at every request of a push and until it expires, and no
\* other repository (token.go:74-97, proxy.go:44-104).
TokenOpensItsRepository ==
  \A w \in Workflows : \A t \in token[w] :
     /\ answer[w] = "denied" => req[w].to # t.image \/ settledAt[w] > t.expiry
     /\ answer[w] = "pushed" => req[w].to = t.image /\ settledAt[w] <= t.expiry

\* Discover takes a container for one of this name by its base name, or, of
\* those listed by their image's ID, for the word in front of the ID.
IsUnder(a, name) == a.name = Last(name) \/ Last(name) = "sha256"

\* A workflow that came with an OIDC token gets a registry token, the secret or
\* a deploy only after a service of the name it asked for admitted it by its
\* labels, at whatever point of its push it asks (huma_auth.go:51-64,
\* auth.go:41-75); and whatever is listed first and replaced between the two
\* calls to Docker, what admits it and what is deployed is called as was asked
\* (discover.go:61-75).  With the secret it may deploy any service: the labels
\* are asked once, for the name in the exchange.
AdmittedBeforeAll ==
  \A w \in Workflows :
     /\ req[w].auth = "jwt" /\ (held[w] = "secret" \/ token[w] # {} \/ deployed[w] # {}) =>
          \E a \in authorised[w] : IsUnder(a, req[w].name) /\ checkOIDCLabels(req[w], a)
     /\ \A a \in deployed[w] : IsUnder(a, req[w].to)

=============================================================================
