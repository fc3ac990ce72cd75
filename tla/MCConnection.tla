---------------------------- MODULE MCConnection ----------------------------
(* Instances of Connection for TLC.                                        *)
EXTENDS Connection

Unit(what)       == [what |-> what, version |-> "Http11", options |-> {}, head |-> FALSE]
From10(what, os) == [Unit(what) EXCEPT !.version = "Http10", !.options = os]

part    == Unit("part")
good    == Unit("good")
refused == Unit("refused")
drain   == Unit("drain")
drained == Unit("drained")
fatal   == Unit("fatal")
closing == [good EXCEPT !.options = {"close"}]
asHead(unit) == [unit EXCEPT !.head = TRUE]

\* Requests that are all handed over, the last of them left unfinished.
GoodStreams == {
    <<part, good, part, good, part>>,
    <<asHead(good), part, part, asHead(closing), good>>,
    <<From10("good", {"keep-alive"}), part, From10("good", {}), good>> }

\* Requests among which some are refused.
RefusedStreams == {
    <<part, refused, drained, part, good, part>>,
    <<refused, drain, drained, good, fatal, good>>,
    <<good, From10("refused", {"keep-alive"}), drained, good>> }

\* A HEAD that is refused on a connection that goes on.
HeadStreams == {<<asHead(refused), drained, good>>}

AllStreams == GoodStreams \cup RefusedStreams \cup HeadStreams
=============================================================================
