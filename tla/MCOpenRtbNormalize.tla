------------------------- MODULE MCOpenRtbNormalize -------------------------
(* Model-checking instance of OpenRtbNormalize.  Each part of the document *)
(* ranges over the shapes that take a different branch of the parse or of  *)
(* fromOpenRtb; Docs is every combination of them.                         *)
EXTENDS OpenRtbNormalize

CONSTANTS u1, b1, junk

MCUserIdVals == {u1, b1}

\* site: absent, rejected by its description, or an object with or
\* without page URL and id.
MCSites ==
    {AbsentNode, InvalidNode} \cup
    [kind: {"object"}, page: {"", "http://p/"}, id: {NullId, "s1"}]

\* app: absent, rejected, or an object with a bundle or only an id.
MCApps ==
    {AbsentNode, InvalidNode} \cup
    {[kind |-> "object", bundle |-> "com.b", id |-> NullId],
     [kind |-> "object", bundle |-> "", id |-> "a1"]}

MCGeos ==
    {InvalidNode,
     [kind |-> "object", region |-> "CA", regionfips104 |-> "US06"],
     [kind |-> "object", region |-> "", regionfips104 |-> "US06"]}

MCDevices ==
    {AbsentNode} \cup
    [kind: {"object"}, ip: {"", "10.0.0.1"}, ipv6: {"::1"}, geo: MCGeos]

\* Two data objects of the same provider ("d1" as an id, then as a name),
\* and one with neither id nor name whose only segment has neither.
Seg(i, n) == [id |-> i, name |-> n]
D1 == [id |-> "d1", name |-> "", segment |-> <<Seg("g1", ""), Seg(NullId, "sports")>>]
D2 == [id |-> NullId, name |-> "d1", segment |-> <<Seg(NullId, "news")>>]
D3 == [id |-> NullId, name |-> "", segment |-> <<Seg(NullId, "")>>]

MCUsers ==
    {AbsentNode, InvalidNode,
     [kind |-> "object", id |-> u1, buyeruid |-> b1, tz |-> "int", data |-> <<D1, D2>>],
     [kind |-> "object", id |-> u1, buyeruid |-> NullId, tz |-> "none", data |-> <<D3>>],
     [kind |-> "object", id |-> NullId, buyeruid |-> b1, tz |-> "null", data |-> <<>>],
     [kind |-> "object", id |-> u1, buyeruid |-> b1, tz |-> "string", data |-> <<>>]}

Banner(w, h) == [kind |-> "object", w |-> w, h |-> h]

\* No impression; one without banner; matching w/h lists; a longer w list.
MCImps ==
    {<<>>,
     <<[banner |-> InvalidNode]>>,
     <<[banner |-> Banner(<<300, 728>>, <<250, 90>>)]>>,
     <<[banner |-> Banner(<<300>>, <<250>>)], [banner |-> Banner(<<300, 728>>, <<250>>)]>>}

MCCurs ==
    {AbsentNode, InvalidNode, [kind |-> "list", codes |-> {"EUR", "USD"}],
     [kind |-> "list", codes |-> {}]}

MCDocs ==
    [site: MCSites, app: MCApps, device: MCDevices, user: MCUsers,
     imp: MCImps, cur: MCCurs]
=============================================================================
