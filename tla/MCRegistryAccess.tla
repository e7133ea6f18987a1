--------------------------- MODULE MCRegistryAccess ---------------------------
\* Containers of two services, and the requests of workflows, for TLC.
EXTENDS RegistryAccess

MCHost == <<"host", ":", "port", "/">>

Labelled(image, name, refs) ==
  [image |-> image, name |-> name, service |-> name, composed |-> TRUE,
   repos |-> {"org/code"}, refs |-> refs]

\* One service is run from the registry, by tag or by digest, and another one
\* has an image of the same base name; a third is run from a local image, and
\* has a repository with words of the API in its name.
MCApps ==
  {Labelled(MCHost \o <<"app", ":", "v1">>, "app", {}),
   Labelled(MCHost \o <<"app", ":", "v1", "@", "sha256", ":", "d">>, "app", {"branch"}),
   [Labelled(<<"other", "/", "app">>, "app", {}) EXCEPT !.service = "other", !.repos = {}],
   Labelled(<<"org", "/", "manifests", "/", "web", ":", "v1">>, "web", {}),
   [Labelled(<<"web">>, "web", {}) EXCEPT !.composed = FALSE]}

About(auth, ref, name, to) ==
  [auth |-> auth, repository |-> "org/code", ref |-> ref, name |-> name, to |-> to, tag |-> "v2"]

MCRequests ==
  {About("jwt", "main", <<"app">>, <<"app">>),
   About("jwt", "branch", <<"app">>, <<"app">>),
   About("jwt", "main", <<"org", "manifests", "web">>, <<"org", "manifests", "web">>),
   About("jwt", "main", <<"app">>, <<"org", "manifests", "web">>),
   About("jwt", "pull", <<"app">>, <<"app">>),
   About("jwt", "main", <<"app", ":", "v1">>, <<"app">>),
   About("secret", "main", <<"app">>, <<"app">>)}

=============================================================================
