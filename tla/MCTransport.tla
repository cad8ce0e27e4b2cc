---------------------------- MODULE MCTransport ----------------------------
(***************************************************************************)
(* Small reporters for TLC, of one thread each: MCReporter has two.        *)
(***************************************************************************)
EXTENDS Transport

CONSTANTS a, b, c, d, t1

\* A forum's topic, or a callable of the host.
Topic == [notify |-> "telegram", token |-> TRUE, chat |-> TRUE, topic |-> TRUE]
Seam == [notify |-> "seam", token |-> FALSE, chat |-> FALSE, topic |-> FALSE]
Silent == [notify |-> "none", token |-> FALSE, chat |-> FALSE, topic |-> FALSE]
TopicOrSeam == {Topic, Seam}
NoChannel == {Silent}

\* The library cannot address a topic; or it can, and the API and the host's
\* callable are down.
OldLibrary == [library |-> "unthreaded", provider |-> TRUE, api |-> TRUE, seam |-> TRUE]
ApiDown == [library |-> "threaded", provider |-> TRUE, api |-> FALSE, seam |-> FALSE]
SomeFail == {OldLibrary, ApiDown}
NoneFail == {OldLibrary}

=============================================================================
