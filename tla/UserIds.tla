------------------------------- MODULE UserIds -------------------------------
(***************************************************************************)
(* The UserIds map of a bid request (src/common/bid_request.cc, USER IDS): *)
(* a std::map from a domain string to an opaque Id, plus two mirror        *)
(* fields, providerId and exchangeId, that cache the entries of the two    *)
(* distinguished domains "prov" and "xchg" for getUserId(IdDomain).        *)
(*                                                                         *)
(* The pure operators (AddDomain, AddKey, ...) take a UserIds value and    *)
(* return [ok, val]; ok = FALSE is the "attempt to double add id"          *)
(* exception, and val is the object as the exception leaves it.  The       *)
(* normalisation module reuses them.  The actions apply them to one object *)
(* that the program keeps calling methods on.                              *)
(***************************************************************************)
EXTENDS Naturals, FiniteSets

CONSTANTS
    Ids,        \* opaque, non-null user identifiers (model values)
    NullId,     \* the default-constructed Id(), what the mirrors start as
    Absent,     \* marks a domain string that is not a key of the map
    OtherKeys   \* domain strings other than "prov" and "xchg"

ASSUME NullId \notin Ids /\ Absent \notin Ids \cup {NullId}

\* The enum IdDomain of the calls add(id, IdDomain) and getUserId(IdDomain).
IdDomains == {"ID_PROVIDER", "ID_EXCHANGE"}

Keys == {"prov", "xchg"} \cup OtherKeys

\* A UserIds value: the map (Absent where there is no key) and the mirrors.
UserIdsValues ==
    [map: [Keys -> Ids \cup {Absent}],
     providerId: Ids \cup {NullId},
     exchangeId: Ids \cup {NullId}]

\* The default-constructed UserIds.
EmptyUserIds ==
    [map |-> [k \in Keys |-> Absent], providerId |-> NullId, exchangeId |-> NullId]

\* UserIds::domainToString: the string key an IdDomain is stored under.
domainToString(domain) ==
    IF domain = "ID_PROVIDER" THEN "prov" ELSE "xchg"

\* Mutant: the string overload of setStatic forgets the "xchg" branch.
setStaticKeyProvOnly(u, id, domain) ==
    IF domain = "prov" THEN [u EXCEPT !.providerId = id] ELSE u

\* Mutant: the string overload of setStatic stores the domain string.
setStaticKeyWrongValue(u, id, domain) ==
    CASE domain = "prov" -> [u EXCEPT !.providerId = domain]
      [] domain = "xchg" -> [u EXCEPT !.exchangeId = id]
      [] OTHER           -> u

\* UserIds::setStatic(const Id &, const std::string &): mirror by key.
setStaticKey(u, id, domain) ==
    CASE domain = "prov" -> [u EXCEPT !.providerId = id]
      [] domain = "xchg" -> [u EXCEPT !.exchangeId = id]
      [] OTHER           -> u

\* UserIds::setStatic(const Id &, IdDomain): mirror by enum.
setStaticDomain(u, id, domain) ==
    IF domain = "ID_PROVIDER" THEN [u EXCEPT !.providerId = id]
                              ELSE [u EXCEPT !.exchangeId = id]

\* Mutant: the entry is written with operator[], which never refuses.
insertedAlways(u, key) == TRUE

\* std::map::insert: refused (second = false) when the key is present.
inserted(u, key) == u.map[key] = Absent

\* UserIds::add(const Id &, const std::string &).
AddKey(u, id, key) ==
    IF inserted(u, key)
    THEN [ok |-> TRUE,
          val |-> setStaticKey([u EXCEPT !.map[key] = id], id, key)]
    ELSE [ok |-> FALSE, val |-> u]

\* UserIds::add(const Id &, IdDomain).
AddDomain(u, id, domain) ==
    LET key == domainToString(domain) IN
    IF inserted(u, key)
    THEN [ok |-> TRUE,
          val |-> setStaticDomain([u EXCEPT !.map[key] = id], id, domain)]
    ELSE [ok |-> FALSE, val |-> u]

\* UserIds::add(const Id &, const std::string &, IdDomain): two adds in a
\* row; when the second throws, the first has already been applied.
AddPair(u, id, key, domain) ==
    LET first == AddKey(u, id, key) IN
    IF first.ok THEN AddDomain(first.val, id, domain) ELSE first

\* BidRequest::getUserId(IdDomain): reads the mirror.
getUserIdDomain(u, domain) ==
    IF domain = "ID_PROVIDER" THEN u.providerId ELSE u.exchangeId

\* BidRequest::getUserId(const std::string &): reads the map, Id() if absent.
getUserIdKey(u, key) == IF u.map[key] = Absent THEN NullId ELSE u.map[key]

\* Id::toString and Id(const std::string &): an id in its string form.
IdString(id) == <<"idstr", id>>
IdOfString(s) == s[2]

\* UserIds::toJson: an object with one member per map entry, the id as its
\* string.
ToJson(u) == [k \in {k \in Keys : u.map[k] # Absent} |-> IdString(u.map[k])]

\* The members of j not yet added, added one at a time by add(id, key);
\* the first add that throws ends createFromJson.
RECURSIVE AddMembers(_, _, _)
AddMembers(u, j, ks) ==
    IF ks = {} THEN [ok |-> TRUE, val |-> u]
    ELSE LET k == CHOOSE k \in ks : TRUE
             r == AddKey(u, IdOfString(j[k]), k)
         IN IF r.ok THEN AddMembers(r.val, j, ks \ {k}) ELSE r

\* Mutant: createFromJson fills the map with set(), which leaves the
\* mirrors at Id().
CreateFromJsonBySet(j) ==
    [ok |-> TRUE,
     val |-> [EmptyUserIds EXCEPT !.map = [k \in Keys |->
                 IF k \in DOMAIN j THEN IdOfString(j[k]) ELSE Absent]]]

\* UserIds::createFromJson: a default UserIds, then add(Id(member), name)
\* for each member of the object.
CreateFromJson(j) == AddMembers(EmptyUserIds, j, DOMAIN j)

\* UserIdsDescription::printJsonTyped and isDefaultTyped: the userIds member
\* of a printed BidRequest, an object of id strings, omitted when the map
\* is empty.
PrintUserIds(u) ==
    [present |-> \E k \in Keys : u.map[k] # Absent, obj |-> ToJson(u)]

\* UserIdsDescription::parseJsonTyped: add(Id(member), name) for each member
\* into the default-constructed UserIds of the new BidRequest; an omitted
\* member leaves it default.
ParseUserIds(u, m) ==
    IF m.present THEN AddMembers(u, m.obj, DOMAIN m.obj) ELSE [ok |-> TRUE, val |-> u]

-----------------------------------------------------------------------------
VARIABLES
    userIds,    \* the UserIds object
    lastThrew   \* did the last call end in the double-add exception

vars == <<userIds, lastThrew>>

Init ==
    /\ userIds = EmptyUserIds
    /\ lastThrew = FALSE

Apply(r) ==
    /\ userIds' = r.val
    /\ lastThrew' = ~r.ok

\* One call of each method, with its arguments drawn from small sets.
Add == \E id \in Ids, d \in IdDomains : Apply(AddDomain(userIds, id, d))

AddByKey == \E id \in Ids, k \in Keys : Apply(AddKey(userIds, id, k))

AddBoth ==
    \E id \in Ids, k \in Keys, d \in IdDomains : Apply(AddPair(userIds, id, k, d))

\* UserIds::createFromString(serializeToString()): the object is written as
\* its JSON text and a new one is built from that text.
Reload ==
    LET r == CreateFromJson(ToJson(userIds)) IN
    /\ userIds' = r.val
    /\ lastThrew' = ~r.ok

\* The BidRequest holding the UserIds is printed through its description and
\* parsed again, as a canonical request is logged and replayed.
DescReload ==
    LET r == ParseUserIds(EmptyUserIds, PrintUserIds(userIds)) IN
    /\ userIds' = r.val
    /\ lastThrew' = ~r.ok

\* The calls the request path makes: fromOpenRtb and the JSON description
\* only ever add; a logged UserIds is reloaded from its string form or
\* from the printed BidRequest.
NextAdd == Add \/ AddByKey \/ AddBoth \/ Reload \/ DescReload

SpecAdd == Init /\ [][NextAdd]_vars

-----------------------------------------------------------------------------
TypeOK ==
    /\ userIds \in UserIdsValues
    /\ lastThrew \in BOOLEAN

\* The two ways of asking for the provider and the exchange user id agree:
\* getUserId(ID_PROVIDER) = getUserId("prov") and likewise for "xchg".  It
\* is about the mirrors setStatic keeps, which every path that writes the
\* map under one of the two domains (by enum or by string) must refresh.
MirrorsAgree ==
    \A d \in IdDomains :
        getUserIdDomain(userIds, d) = getUserIdKey(userIds, domainToString(d))

\* The JSON forms of UserIds lose nothing: createFromString of what
\* serializeToString wrote, and the description's parse of what it printed
\* (an empty UserIds omitted), give back the same map and the same mirrors,
\* so getUserId by domain and by key answer as before.  Unlike the binary
\* reconstitute, both rebuild the mirrors through add().
ReloadLossless ==
    [][Reload \/ DescReload => userIds' = userIds /\ ~lastThrew']_vars

\* An id once stored under a domain is never replaced by another add: a
\* second add for the domain throws and leaves the map as it was (the
\* insert-not-overwrite of UserIds::add), even when the second add is the
\* second half of add(id, domain1, domain2).
NoSilentOverwrite ==
    [][\A k \in Keys :
          userIds.map[k] # Absent => userIds'.map[k] = userIds.map[k]]_vars
=============================================================================
