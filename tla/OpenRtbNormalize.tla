--------------------------- MODULE OpenRtbNormalize ---------------------------
(***************************************************************************)
(* OpenRtbBidRequestParser::parseBidRequest: an OpenRTB JSON document is   *)
(* parsed into OpenRTB::BidRequest by its value descriptions, then         *)
(* fromOpenRtb maps it onto the canonical BidRequest                       *)
(* (src/plugins/bid_request/openrtb_bid_request.cc).                       *)
(*                                                                         *)
(* A JSON node is abstracted to its shape: AbsentNode (missing or null),   *)
(* InvalidNode (a value its description rejects, e.g. "bundle": 5), or an  *)
(* object record carrying only the fields fromOpenRtb reads.  Strings are  *)
(* small constants; "" is the empty string.                                *)
(***************************************************************************)
EXTENDS Naturals, Sequences, FiniteSets, TLC

CONSTANTS
    NullId,     \* Id(): the null identifier
    Absent,     \* no entry in a map
    UserIdVals, \* values of user.id and user.buyeruid
    Docs,       \* the OpenRTB documents the exchange may send
    Garbage     \* what an out-of-bounds read of banner.h can produce

UI == INSTANCE UserIds WITH Ids <- UserIdVals, OtherKeys <- {},
                            userIds <- Absent, lastThrew <- FALSE

AbsentNode == [kind |-> "absent"]
\* An object one of whose required leaves has the wrong type, which its
\* structure description rejects (e.g. "app": {"bundle": 5}).
InvalidNode == [kind |-> "invalid"]

-----------------------------------------------------------------------------
(* Parsing with the value descriptions (common/descriptions/optional.h).   *)

\* DefaultDescription<optional<T>>::parseJsonTyped: the inner value is
\* parsed into a temporary and assigned only on success; a failure is
\* logged and swallowed, leaving the optional empty.  A null node fails
\* the inner structure description (nullAccepted is false) the same way.
ParseOptional(node) == IF node.kind = "object" THEN node ELSE AbsentNode

\* Currency list: optional<set<Currency>> cur.  The set sorts and
\* de-duplicates the codes.
ParseCur(node) ==
    IF node.kind = "list" THEN [kind |-> "object", codes |-> node.codes]
                          ELSE AbsentNode

\* The parsed OpenRTB::BidRequest: every optional field passed through
\* ParseOptional (site, app, device, device.geo, user, imp[i].banner, cur).
ParseOpenRtb(doc) ==
    LET dev == ParseOptional(doc.device) IN
    [site   |-> ParseOptional(doc.site),
     app    |-> ParseOptional(doc.app),
     device |-> IF dev.kind = "object"
                THEN [dev EXCEPT !.geo = ParseOptional(dev.geo)] ELSE dev,
     user   |-> ParseOptional(doc.user),
     imp    |-> [i \in DOMAIN doc.imp |->
                    [banner |-> ParseOptional(doc.imp[i].banner)]],
     cur    |-> ParseCur(doc.cur)]

-----------------------------------------------------------------------------
(* Segments (common/segments.h, not in this tree) and their queries.       *)

\* Segments::addStrings: the provider's segment set gains the values.
addStrings(segs, key, values) ==
    IF key \in DOMAIN segs THEN [segs EXCEPT ![key] = @ \cup values]
                           ELSE segs @@ (key :> values)

\* BidRequest::segmentPresent: three-valued lookup.
segmentPresent(segs, source, segment) ==
    IF source \notin DOMAIN segs THEN "SEG_MISSING"
    ELSE IF segment \in segs[source] THEN "SEG_PRESENT"
    ELSE "SEG_NOT_PRESENT"

-----------------------------------------------------------------------------
(* fromOpenRtb, one operator per block of the function.                    *)

\* The canonical BidRequest as fromOpenRtb leaves it before any block.
NewBidRequest ==
    [site |-> FALSE, app |-> FALSE, url |-> <<"none">>,
     ipAddress |-> "", regionCode |-> "", tz |-> "unset",
     userIds |-> UI!EmptyUserIds, segments |-> <<>>,
     bidCurrency |-> {}, imp |-> <<>>]

\* The formats of one impression: Format(w[i], h[i]) for i < w.size().
\* Reading h[i] past the end of h is undefined behaviour: the read returns
\* whatever int is there, or faults; each outcome is a record whose
\* fault field says the process died on the read.
SpotFormats(banner) ==
    IF banner.kind # "object" THEN {[fault |-> FALSE, formats |-> <<>>]}
    ELSE LET w == banner.w
             h == banner.h
         IN IF Len(w) <= Len(h)
            THEN {[fault |-> FALSE, formats |-> [i \in 1..Len(w) |-> <<w[i], h[i]>>]]}
            ELSE {[fault |-> FALSE,
                   formats |-> [i \in 1..Len(w) |->
                                  IF i <= Len(h) THEN <<w[i], h[i]>> ELSE <<w[i], g>>]]
                    : g \in Garbage}
                 \cup {[fault |-> TRUE, formats |-> <<>>]}

\* Mutant: the site branch tries the site id before the page URL.
SiteUrlIdFirst(site) ==
    IF site.id # NullId THEN <<"siteid", site.id>>
    ELSE IF site.page # "" THEN <<"page", site.page>>
    ELSE <<"none">>

\* The url of a site: page, else http://<id>.siteid/, else left empty.
SiteUrl(site) ==
    IF site.page # "" THEN <<"page", site.page>>
    ELSE IF site.id # NullId THEN <<"siteid", site.id>>
    ELSE <<"none">>

\* The url of an app: bundle, else http://<id>.appid/, else left empty.
AppUrl(app) ==
    IF app.bundle # "" THEN <<"bundle", app.bundle>>
    ELSE IF app.id # NullId THEN <<"appid", app.id>>
    ELSE <<"none">>

\* if (req.site) ... else if (req.app) ...
MapContext(br, req) ==
    CASE req.site.kind = "object" ->
            [br EXCEPT !.site = TRUE, !.url = SiteUrl(req.site)]
      [] req.app.kind = "object" ->
            [br EXCEPT !.app = TRUE, !.url = AppUrl(req.app)]
      [] OTHER -> br

\* if (req.device): ip preferred over ipv6, region over regionfips104.
MapDevice(br, req) ==
    IF req.device.kind # "object" THEN br
    ELSE LET d == req.device
             withIp == [br EXCEPT !.ipAddress =
                          IF d.ip # "" THEN d.ip ELSE IF d.ipv6 # "" THEN d.ipv6 ELSE @]
         IN IF d.geo.kind # "object" THEN withIp
            ELSE [withIp EXCEPT !.regionCode =
                    IF d.geo.region # "" THEN d.geo.region ELSE d.geo.regionfips104]

\* The provider key of a data object: its id if set, else its name.
DataKey(d) == IF d.id # NullId THEN d.id ELSE d.name

\* Mutant: a segment without an id contributes nothing, its name unused.
DataValuesIdOnly(d) ==
    {d.segment[j].id : j \in {j \in DOMAIN d.segment : d.segment[j].id # NullId}}

\* The segment values of a data object: each segment's id if set, else its
\* name if not empty; a segment with neither contributes nothing.
DataValues(d) ==
    {IF d.segment[j].id # NullId THEN d.segment[j].id ELSE d.segment[j].name
       : j \in {j \in DOMAIN d.segment :
                  d.segment[j].id # NullId \/ d.segment[j].name # ""}}

\* The segments built from user.data, one addStrings per data object.
RECURSIVE FoldData(_, _)
FoldData(segs, data) ==
    IF data = <<>> THEN segs
    ELSE FoldData(addStrings(segs, DataKey(Head(data)), DataValues(Head(data))),
                  Tail(data))

\* Mutant: user.id is registered as the provider id and buyeruid as the
\* exchange id.
UserIdsSwapped(u, user) ==
    LET ex == IF user.id # NullId THEN UI!AddDomain(u, user.id, "ID_PROVIDER")
                                  ELSE [ok |-> TRUE, val |-> u]
    IN IF ex.ok /\ user.buyeruid # NullId
       THEN UI!AddDomain(ex.val, user.buyeruid, "ID_EXCHANGE") ELSE ex

\* Mutant: the ids are added without the if (user->id) / if (buyeruid)
\* guards, so a null Id is stored.
RegisterUserIdsUnguarded(u, user) ==
    LET ex == UI!AddDomain(u, user.id, "ID_EXCHANGE") IN
    IF ex.ok THEN UI!AddDomain(ex.val, user.buyeruid, "ID_PROVIDER") ELSE ex

\* userIds.add(user->id, ID_EXCHANGE); userIds.add(user->buyeruid, ID_PROVIDER).
RegisterUserIds(u, user) ==
    LET ex == IF user.id # NullId THEN UI!AddDomain(u, user.id, "ID_EXCHANGE")
                                  ELSE [ok |-> TRUE, val |-> u]
    IN IF ex.ok /\ user.buyeruid # NullId
       THEN UI!AddDomain(ex.val, user.buyeruid, "ID_PROVIDER") ELSE ex

\* Json::Value::asInt on user.ext["tz"]: numbers and null convert, a string
\* throws.
TzThrows(user) == user.tz = "string"

\* if (req.user): segments, then the timezone, then the two user ids.
MapUser(br, req) ==
    IF req.user.kind # "object" THEN br
    ELSE LET u == req.user IN
         [br EXCEPT !.segments = FoldData(@, u.data),
                    !.tz = CASE u.tz = "int"  -> "int"
                             [] u.tz = "null" -> "zero"
                             [] OTHER         -> @,
                    !.userIds = RegisterUserIds(@, u).val]

\* if (req.cur) each code, else the single default USD.
MapCurrency(br, req) ==
    [br EXCEPT !.bidCurrency =
        IF req.cur.kind = "object" THEN req.cur.codes ELSE {"USD"}]

\* The outcomes of fromOpenRtb on a parsed request: a set, because the
\* banner loop may read out of bounds.  The imp loop runs first; the
\* site/app check, then asInt on tz, may throw after it.
FromOpenRtb(req) ==
    LET n == Len(req.imp)
        choices == {f \in [1..n -> UNION {SpotFormats(req.imp[i].banner) : i \in 1..n}] :
                      \A i \in 1..n : f[i] \in SpotFormats(req.imp[i].banner)}
    IN { CASE \E i \in 1..n : f[i].fault ->
                [status |-> "crash", br |-> NewBidRequest]
           [] req.site.kind = "object" /\ req.app.kind = "object" ->
                [status |-> "ConflictingContext", br |-> NewBidRequest]
           [] req.user.kind = "object" /\ TzThrows(req.user) ->
                [status |-> "TzNotInt", br |-> NewBidRequest]
           [] OTHER ->
                [status |-> "ok",
                 br |-> MapCurrency(MapUser(MapDevice(MapContext(
                          [NewBidRequest EXCEPT !.imp = [i \in 1..n |-> f[i].formats]],
                          req), req), req), req)]
         : f \in choices }

-----------------------------------------------------------------------------
VARIABLES
    doc,      \* the JSON document received
    result    \* status "pending", then the outcome of parseBidRequest

vars == <<doc, result>>

Init ==
    /\ doc \in Docs
    /\ result = [status |-> "pending", br |-> NewBidRequest]

\* OpenRtbBidRequestParser::parseBidRequest: fromJson then fromOpenRtb.
ParseBidRequest ==
    /\ result.status = "pending"
    /\ \E r \in FromOpenRtb(ParseOpenRtb(doc)) : result' = r
    /\ UNCHANGED doc

Next == ParseBidRequest

\* One request is parsed once; the handler then returns.
Spec == Init /\ [][Next]_vars

-----------------------------------------------------------------------------
Statuses == {"ok", "ConflictingContext", "TzNotInt", "crash"}

TypeOK ==
    /\ doc \in Docs
    /\ result.status \in Statuses \cup {"pending"}
    /\ result.br.site \in BOOLEAN /\ result.br.app \in BOOLEAN
    /\ result.br.userIds \in UI!UserIdsValues
    /\ \A i \in DOMAIN result.br.imp : \A k \in DOMAIN result.br.imp[i] :
          result.br.imp[i][k] \in Nat \X (Nat \cup Garbage)

Accepted == result.status = "ok"

\* The parsed request the mapping saw.
Parsed == ParseOpenRtb(doc)

\* The url of an accepted request comes from the one context object that
\* was parsed, through the fallback chain: the site's page URL, else the
\* placeholder http://<site id>.siteid/; for an app its bundle, else
\* http://<app id>.appid/; no url when the context has neither.  It is
\* about the site/app branches of fromOpenRtb.
UrlFallbackChain ==
    Accepted =>
      LET br == result.br
          ctx == IF br.site THEN Parsed.site ELSE Parsed.app
          explicit == IF br.site THEN ctx.page ELSE ctx.bundle
      IN /\ ~(br.site /\ br.app)
         /\ br.site = (Parsed.site.kind = "object")
         /\ br.app = (Parsed.app.kind = "object")
         /\ (br.site \/ br.app) =>
              /\ explicit # "" => br.url[2] = explicit
              /\ explicit = "" /\ ctx.id # NullId => br.url[2] = ctx.id
              /\ explicit = "" /\ ctx.id = NullId => br.url = <<"none">>
         /\ ~(br.site \/ br.app) => br.url = <<"none">>

\* The exchange-assigned user id and the buyer uid of an accepted request
\* are registered under "xchg" and "prov", and both the mirror
\* (getUserId(ID_EXCHANGE)) and the map (getUserId("xchg")) return them.
\* It is about fromOpenRtb's calls of UserIds::add.
IdentitiesRegistered ==
    Accepted /\ Parsed.user.kind = "object" =>
      LET u == result.br.userIds IN
      /\ UI!getUserIdDomain(u, "ID_EXCHANGE") = Parsed.user.id
      /\ UI!getUserIdDomain(u, "ID_PROVIDER") = Parsed.user.buyeruid
      /\ UI!getUserIdKey(u, "xchg") = Parsed.user.id
      /\ UI!getUserIdKey(u, "prov") = Parsed.user.buyeruid

\* Every segment of every data object of the user answers SEG_PRESENT under
\* its provider (its id, else its name), the token being the segment's id
\* when it has one and its name otherwise; a provider named by no data
\* object answers SEG_MISSING.  Two data objects of one provider merge.
SegmentsFlattened ==
    Accepted /\ Parsed.user.kind = "object" =>
      LET data == Parsed.user.data
          segs == result.br.segments
      IN /\ \A i \in DOMAIN data : \A j \in DOMAIN data[i].segment :
              LET sg == data[i].segment[j] IN
              sg.id # NullId \/ sg.name # "" =>
                segmentPresent(segs, DataKey(data[i]),
                               IF sg.id # NullId THEN sg.id ELSE sg.name) = "SEG_PRESENT"
         /\ \A k \in DOMAIN segs : \E i \in DOMAIN data : DataKey(data[i]) = k

\* A payload carrying both a site and an app is refused with
\* ConflictingContext, whatever the two objects contain (spec 4.3, 8).
ConflictRejected ==
    result.status # "pending" /\ doc.site.kind # "absent" /\ doc.app.kind # "absent"
      => result.status # "ok"

\* Each banner's (w, h) pairs are expanded by index into the spot's
\* formats, and nothing else is (spec 4.3).  It is about the loop over
\* banner->w that indexes banner->h.
FormatsPairwise ==
    result.status # "pending" =>
      /\ result.status # "crash"
      /\ result.status = "ok" =>
           \A i \in DOMAIN Parsed.imp :
             LET b == Parsed.imp[i].banner IN
             result.br.imp[i] =
               IF b.kind # "object" THEN <<>>
               ELSE [k \in 1..(IF Len(b.w) <= Len(b.h) THEN Len(b.w) ELSE Len(b.h)) |-> <<b.w[k], b.h[k]>>]
=============================================================================
