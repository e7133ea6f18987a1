----------------------------- MODULE DeployFiles -----------------------------
(***************************************************************************)
(* What the steps of one deploy read outside of RollHook, and when: the    *)
(* compose file, read twice by steps.Validate and once more by docker      *)
(* compose; the daemon's stream of pull events, authenticated if the image *)
(* is in RollHook's own registry; the user's .env, copied with IMAGE_TAG   *)
(* set.  The host may have an earlier image of the name asked for.         *)
(* Whoever administers the host edits both files and removes images        *)
(* meanwhile, and calls fail.                                              *)
(*                                                                         *)
(* A .env file is the sequence that splitting it at its newlines gives, so *)
(* that a trailing newline is a last, blank line.                          *)
(***************************************************************************)
EXTENDS Naturals, Sequences, SequencesExt

CONSTANTS Files,        \* compose files, as far as the named service is concerned
          Lines,        \* lines of .env files other than the blank one
          MaxLines,     \* bound on them
          MaxEvents     \* bound on the events of a pull

VARIABLES file,         \* {} or the compose file
          dotEnv,       \* {} or the .env beside it
          host,         \* where the image asked for is: "localhost", "public" or "other"
          rollhookURL,  \* ROLLHOOK_URL: "" or "public", RollHook's own name
          onHost,       \* what this host has of that name: "nothing", "earlier" or "pulled"
          pc,           \* the deploy's step
          events,       \* what the pull has still to say
          tmpEnv,       \* {} or the temporary file, and what it was made from
          started       \* {} or what the new containers run with

hostVars == <<file, dotEnv, host, rollhookURL, onHost>>
vars == <<hostVars, pc, events, tmpEnv, started>>

\* A line of an .env that begins with KEY= is plain; docker compose reads
\* export KEY=val and KEY = val as well.
Set(key, val) == [key |-> key, val |-> val, plain |-> TRUE]
Blank == Set("", "")

\* A service has an image as docker compose resolves it, and "raw", what its own
\* section of the file says: nothing (the image comes by extends or include, if
\* there is one), the variable IMAGE_TAG, another text that "mentions" it, as
\* ${MY_IMAGE_TAG} does, or something "fixed".  Only the blank line sets nothing.
ASSUME DeployFilesAssumption ==
  /\ \A f \in Files :
        /\ f.image \in {"IMAGE_TAG", "fixed", "none"}
        /\ f.raw \in {"IMAGE_TAG", "mentions", "fixed", "none"}
        /\ f.raw # "none" => (f.image = "IMAGE_TAG" <=> f.raw = "IMAGE_TAG")
  /\ \A l \in Lines : l.key # Blank.key
  /\ MaxLines \in Nat /\ MaxEvents \in Nat

Texts == UNION {[1..n -> Lines \cup {Blank}] : n \in 1..MaxLines}

Init ==
  /\ file \in {{f} : f \in Files}
  /\ dotEnv \in {{}} \cup {{t} : t \in Texts}
  /\ host \in {"localhost", "public", "other"}
  /\ rollhookURL \in {"", "public"}
  /\ onHost \in {"nothing", "earlier"}
  /\ pc = "validate"
  /\ events = <<>>
  /\ tmpEnv = {}
  /\ started = {}

Goto(step) == pc' = step

-----------------------------------------------------------------------------
\* Validate

\* The service as compose-go resolves it.
Loads(f) == f.service /\ ~f.ports /\ ~f.fixedName /\ f.healthcheck

\* A service without an image passes; one of an unset IMAGE_TAG is without.
LoadProject ==
  /\ pc = "validate"
  /\ \/ (~\E f \in file : Loads(f)) /\ Goto("failed")
     \/ \E f \in file : Loads(f) /\ f.image # "none" /\ Goto("raw")
     \/ \E f \in file : Loads(f) /\ f.image # "fixed" /\ Goto("pull")
  /\ UNCHANGED <<hostVars, events, tmpEnv, started>>

\* The file is read again for the image as it is written there, which passes if
\* it has IMAGE_TAG in it; so do a failure of this read, a section without an
\* image and a file that has changed its shape.
ReadRaw ==
  /\ pc = "raw"
  /\ \/ (\E f \in file : f.service /\ f.raw = "fixed") /\ Goto("failed")
     \/ (\A f \in file : f.service => f.raw # "fixed") /\ Goto("pull")
     \/ Goto("pull")   \* not readable just now
  /\ UNCHANGED <<hostVars, events, tmpEnv, started>>

-----------------------------------------------------------------------------
\* Pull

isLocalhost == host = "localhost"

isOwnRegistry == isLocalhost \/ (rollhookURL # "" /\ host = rollhookURL)

\* The daemon's answer to ImagePull: a stream that ends with an error or with
\* the image on the host.  RollHook's registry refuses who has no password.
PullImage ==
  /\ pc = "pull"
  /\ \E talk \in UNION {[1..n -> {"Status:", "progress", "malformed"}] : n \in 0..MaxEvents} :
        IF host # "other" /\ ~isOwnRegistry
        THEN events' = Append(talk, "error")
        ELSE events' = Append(talk, "end")
  /\ Goto("stream")
  /\ UNCHANGED <<hostVars, tmpEnv, started>>

\* Mistake: an error event is only logged.
parsePullStreamOn ==
  /\ pc = "stream"
  /\ events' = Tail(events)
  /\ CASE Head(events) = "error" -> Goto("env") /\ UNCHANGED onHost
       [] Head(events) = "end"   -> Goto("env") /\ onHost' = "pulled"
       [] OTHER                  -> UNCHANGED <<pc, onHost>>
  /\ UNCHANGED <<file, dotEnv, host, rollhookURL, tmpEnv, started>>

\* Only an error event, or a stream that breaks off, ends the loop early.
parsePullStream ==
  /\ pc = "stream"
  /\ events' = Tail(events)
  /\ CASE Head(events) = "error" -> Goto("failed") /\ UNCHANGED onHost
       [] Head(events) = "end"   -> Goto("env") /\ onHost' = "pulled"
       [] OTHER                  -> UNCHANGED <<pc, onHost>>
  /\ UNCHANGED <<file, dotEnv, host, rollhookURL, tmpEnv, started>>

-----------------------------------------------------------------------------
\* The environment of docker compose

LastAt(positions) == IF positions = {} THEN 0 ELSE Max(positions)

\* To docker compose, and to setEnvLine.
LastOf(lines, key) == LastAt({i \in 1..Len(lines) : lines[i].key = key})
LastPlain(lines, key) == LastAt({i \in 1..Len(lines) : lines[i].key = key /\ lines[i].plain})

\* Mistake: the first occurrence is replaced.
setFirstEnvLine(lines, line) ==
  LET i == SelectInSeq(lines, LAMBDA l : l.key = line.key /\ l.plain)
  IN IF i > 0 THEN [lines EXCEPT ![i] = line] ELSE Append(lines, line)

\* The last plain occurrence is replaced; without one the line is appended,
\* before the blank one that stands for a trailing newline.
setEnvLine(lines, line) ==
  CASE LastPlain(lines, line.key) # 0 -> [lines EXCEPT ![LastPlain(lines, line.key)] = line]
    [] lines = <<Blank>> -> <<line>>
    [] OTHER -> IF Last(lines) = Blank
                THEN Front(lines) \o <<line, Blank>>
                ELSE Append(lines, line)

\* A missing file is like an empty one.
writeTempEnv ==
  /\ pc = "env"
  /\ tmpEnv' = {[from |-> lines, lines |-> setEnvLine(lines, Set("IMAGE_TAG", "asked"))] :
                  lines \in IF dotEnv = {} THEN {<<Blank>>} ELSE dotEnv}
  /\ Goto("up")
  /\ UNCHANGED <<hostVars, events, started>>

\* How docker compose reads a variable: the last line that sets it counts.
Value(lines, key) ==
  IF LastOf(lines, key) = 0 THEN "unset" ELSE lines[LastOf(lines, key)].val

ImageOf(f, lines) == IF f.image = "IMAGE_TAG" THEN Value(lines, "IMAGE_TAG") ELSE f.image

\* What it starts the service from: an image that is missing is pulled, but
\* without RollHook's password.
Found(image) ==
  IF image = "asked" /\ onHost = "nothing" THEN host = "other" ELSE TRUE
CopyOf(image) ==
  IF image = "asked" /\ onHost = "earlier" THEN "earlier" ELSE "pulled"

\* It fails to start a second container on the same port or of the same name.
\* The rollout refuses new containers that have no health.
ComposeUp ==
  /\ pc = "up"
  /\ \/ \E f \in file, t \in tmpEnv :
           /\ f.service /\ ~f.ports /\ ~f.fixedName
           /\ Found(ImageOf(f, t.lines))
           /\ started' = {[image |-> ImageOf(f, t.lines), copy |-> CopyOf(ImageOf(f, t.lines)),
                           env |-> t]}
           /\ Goto(IF f.healthcheck THEN "done" ELSE "failed")
     \/ /\ \A f \in file, t \in tmpEnv :
              f.service /\ ~f.ports /\ ~f.fixedName => ~Found(ImageOf(f, t.lines))
        /\ Goto("failed")
        /\ UNCHANGED started
  /\ tmpEnv' = {}
  /\ UNCHANGED <<hostVars, events>>

-----------------------------------------------------------------------------

\* A call outside of RollHook fails; so does the job.
StepFails ==
  /\ pc \in {"validate", "pull", "stream", "env", "up"}
  /\ Goto("failed")
  /\ tmpEnv' = {}
  /\ UNCHANGED <<hostVars, events, started>>

\* The administrator.
Edit ==
  /\ \/ file' \in {{}} \cup {{f} : f \in Files} /\ UNCHANGED onHost
     \/ onHost' = "nothing" /\ UNCHANGED file
  /\ pc \notin {"done", "failed"}
  /\ UNCHANGED <<dotEnv, host, rollhookURL, pc, events, tmpEnv, started>>

\* Nobody reads the .env once it has been copied.
EditDotEnv ==
  /\ pc \in {"validate", "raw", "pull", "stream", "env"}
  /\ dotEnv' \in {{}} \cup {{t} : t \in Texts}
  /\ UNCHANGED <<file, host, rollhookURL, onHost, pc, events, tmpEnv, started>>

Next ==
  \/ LoadProject \/ ReadRaw \/ PullImage \/ parsePullStream \/ writeTempEnv \/ ComposeUp
  \/ StepFails \/ Edit \/ EditDotEnv

Spec == Init /\ [][Next]_vars

-----------------------------------------------------------------------------
\* Properties

\* An IMAGE_TAG that is not plain, behind the last plain one, is the one that
\* docker compose takes.
Shadowed(lines) ==
  LastPlain(lines, "IMAGE_TAG") # 0 /\ LastOf(lines, "IMAGE_TAG") > LastPlain(lines, "IMAGE_TAG")

\* Wherever the compose file leaves the image to IMAGE_TAG, new containers run
\* the image that was asked for, however often the .env sets it, short of a line
\* such as export IMAGE_TAG= at its end; and every other variable has the value
\* that the user's .env gives it (rollout.go:45-48, 270-290), whoever edits which
\* file when.
StartsWhatWasAsked ==
  \A c \in started :
     /\ c.image \in {"asked", "fixed", "none"} \/ Shadowed(c.env.from)
     /\ \A l \in Lines : l.key # "IMAGE_TAG" => Value(c.env.lines, l.key) = Value(c.env.from, l.key)
     /\ Last(c.env.lines) = Blank <=> Len(c.env.from) > 1 /\ Last(c.env.from) = Blank

\* Containers of the image asked for run what this deploy has pulled, never the
\* one of that name which the host had before, although the pull may fail behind
\* any of its events and somebody may remove images at any moment
\* (docker/api.go:97-103, 170-191; rollout.go:60-65 pulls only what is missing).
StartsWhatWasPulled ==
  \A c \in started : c.image = "asked" => c.copy = "pulled"

=============================================================================
