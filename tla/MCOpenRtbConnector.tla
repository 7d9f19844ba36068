-------------------------- MODULE MCOpenRtbConnector --------------------------
EXTENDS OpenRtbConnector

CONSTANTS a1, a2

MCHeaders ==
    [contentType: {"application/json", "text/plain"}, version: {"none", "2.1", "2.2"}]

\* The members of a payload whose texts differ for the "tmax": scan: tmax
\* written compactly, with a space after or before the colon, as a quoted
\* number, and an ext object that holds a "tmax" of its own.
MCMembers ==
    {[key |-> "tmax", sep |-> "compact", val |-> [kind |-> "num", n |-> 80]],
     [key |-> "tmax", sep |-> "spacedValue", val |-> [kind |-> "num", n |-> 80]],
     [key |-> "tmax", sep |-> "spacedColon", val |-> [kind |-> "num", n |-> 80]],
     [key |-> "tmax", sep |-> "compact", val |-> [kind |-> "str", n |-> 90]],
     [key |-> "ext", sep |-> "compact", val |-> [kind |-> "obj", n |-> 5]]}

\* Payloads of up to two top-level members.
MCPayloads == {<<>>} \cup {<<m>> : m \in MCMembers} \cup (MCMembers \X MCMembers)

MCImpIds == <<"imp1", "imp2">>
MCAgents == {a1, a2}
=============================================================================
