--------------------------- MODULE MCTelemetryFanout ---------------------------
(* Small instances of TelemetryFanout for TLC. *)
EXTENDS TelemetryFanout

\* The image of the Dockerfile, which has neither a configuration nor the static
\* directory, with the address in docker-compose.yml; the repository on a desk, run
\* with cargo; there with a broken file; there with a Redis that is elsewhere and a
\* PORT that is no number.
Image == [file |-> "missing", redisUrl |-> "redis", port |-> "unset",
          redisAt |-> "redis", static |-> FALSE, docker |-> TRUE]
Desk == [file |-> "good", redisUrl |-> "unset", port |-> "number",
         redisAt |-> "127.0.0.1", static |-> TRUE, docker |-> FALSE]
Broken == [Desk EXCEPT !.file = "broken"]
Elsewhere == [Desk EXCEPT !.redisAt = "redis", !.port = "text"]

SomeEnvironments == {Image, Desk, Broken, Elsewhere}
DeskOnly == {Desk}

\* What a robot that keeps to the types of vda5050.rs writes.
StateFields == Required
===============================================================================
