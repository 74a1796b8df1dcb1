----------------------------- MODULE MCMqttClient -----------------------------
\* MqttPrograms for TLC.
EXTENDS MqttPrograms

MCKeys == {"client_id", "topic_pub"}
MCValues == {"a", "b"}
MCDefaulted == {"client_id"}

\* An empty line, a comment and one too long, settings, one without its value and
\* one with words after it, and a line that is none.
MCLines ==
    {<<>>, <<Comment, "a">>, <<Comment, "client_id", "a", "b">>,
     <<"client_id", "a">>, <<"client_id", "b">>, <<"client_id">>,
     <<"topic_pub", "b", Unknown>>, <<Unknown, "a">>}
MCFiles == UNION {[1 .. n -> MCLines] : n \in 0 .. 3}
MCArgvs == UNION {[1 .. n -> MCKeys \cup {"a", Unknown}] : n \in 0 .. 4}
=============================================================================
