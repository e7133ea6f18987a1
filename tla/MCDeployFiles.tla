----------------------------- MODULE MCDeployFiles -----------------------------
\* Compose files that lack one thing each, images that the two reads tell apart
\* in every way, and .env lines, for TLC.
EXTENDS DeployFiles

Service(raw, image) ==
  [service |-> TRUE, ports |-> FALSE, fixedName |-> FALSE, healthcheck |-> TRUE,
   raw |-> raw, image |-> image]

Suitable == Service("IMAGE_TAG", "IMAGE_TAG")

MCFiles ==
  {Suitable, Service("fixed", "fixed"), Service("mentions", "fixed"),
   Service("none", "IMAGE_TAG"), Service("none", "fixed"), Service("none", "none"),
   [Suitable EXCEPT !.service = FALSE], [Suitable EXCEPT !.ports = TRUE],
   [Suitable EXCEPT !.fixedName = TRUE], [Suitable EXCEPT !.healthcheck = FALSE]}

MCLines ==
  {Set("IMAGE_TAG", "old"), [Set("IMAGE_TAG", "old") EXCEPT !.plain = FALSE],
   Set("FOO", "bar"), Set("# IMAGE_TAG", "old")}

================================================================================
