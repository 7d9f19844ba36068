---------------------------- MODULE BidRequestCodec ----------------------------
(***************************************************************************)
(* The string, JSON and binary forms of the canonical BidRequest and its   *)
(* parts (src/common/bid_request.cc): Format ("%dx%d" and sscanf),         *)
(* FormatSet (JSON array of format strings), the historical ad position,   *)
(* AdSpot (binary version 2 holding its JSON text), Location (binary       *)
(* version 0, integers through compact_size_t) and BidRequest (binary      *)
(* version 2).                                                             *)
(*                                                                         *)
(* Text is a sequence of one-character strings.  A binary stream is a      *)
(* sequence of tokens <<tag, value>>, one per value the Store_Writer       *)
(* writes; a reader takes them back at fixed offsets and checks only the   *)
(* version bytes, as the Store_Reader code does.  int is                   *)
(* IntBits wide and size_t SizeBits wide, so compact_size_t(int) wraps     *)
(* negative values as the build does.                                      *)
(***************************************************************************)
EXTENDS Integers, Sequences, SequencesExt, TextScan

CONSTANTS
    SizeBits,   \* width of size_t (> IntBits)
    Ids,        \* user ids (model values)
    NullId,     \* Id()
    Absent,     \* no entry in the UserIds map
    OtherKeys,  \* UserIds domain strings besides "prov" and "xchg"
    Requests,   \* the canonical requests the normaliser hands over
    NoCopy      \* nothing reconstituted yet

\* Only UserIds' values and pure operators are used, not its variables.
U == INSTANCE UserIds WITH userIds <- NoCopy, lastThrew <- FALSE

ASSUME SizeBits \in Nat /\ IntBits < SizeBits

\* compact_size_t(x) of an int: the value converted to size_t.
ToSize(x) == x % (2^SizeBits)

\* Mutant: the compact_size_t read back is kept as an unsigned value.
ToIntUnsigned(u) == u % (2^IntBits)

\* Assigning a size_t to an int keeps its low IntBits bits, as two's
\* complement.
ToInt(u) == LET r == u % (2^IntBits) IN IF r > IntMax THEN r - 2^IntBits ELSE r

-----------------------------------------------------------------------------
(* Format: print and fromString.                                          *)

\* Format::print: "%dx%d".
print(f) == PrintInt(f.width) \o <<"x">> \o PrintInt(f.height)

\* The rest of sscanf(s, "%dx%d%n") once both conversions a and b are done:
\* res must count both and %n (nchars) must reach the end of s.
Scanned(s, a, b) ==
    IF a.ok /\ a.next <= Len(s) /\ s[a.next] = "x" /\ b.ok /\ b.next - 1 = Len(s)
    THEN [ok |-> TRUE, val |-> [width |-> a.val, height |-> b.val]]
    ELSE [ok |-> FALSE, val |-> [width |-> 0, height |-> 0]]

ScannedWidth(s, a) == Scanned(s, a, ScanInt(s, a.next + 1))

\* Format::fromString: sscanf(s, "%dx%d%n") must convert both numbers and
\* consume the whole string, else "couldn't parse format string".
fromString(s) == ScannedWidth(s, ScanInt(s, 1))

-----------------------------------------------------------------------------
(* JSON values, as Json::Value holds them; Omitted marks a field the      *)
(* structure description does not print.                                   *)

JNull == [type |-> "null"]
JString(str) == [type |-> "string", str |-> str]
JInt(n) == [type |-> "int", num |-> n]
JArray(elems) == [type |-> "array", elems |-> elems]
Omitted == [type |-> "omitted"]

NoFormat == [width |-> 0, height |-> 0]

\* Format::fromJson: a string through fromString; an array is "not done
\* yet"; anything else (the object form is never printed) throws.
FormatFromJson(v) ==
    IF v.type = "string" THEN fromString(v.str) ELSE [ok |-> FALSE, val |-> NoFormat]

\* The results of reading a sequence of elements: ok when all are.
AllOk(rs) == [ok |-> \A i \in DOMAIN rs : rs[i].ok, val |-> [i \in DOMAIN rs |-> rs[i].val]]

\* FormatSet::fromJson: one format from a string, one per element of an
\* array; a bad element or any other value throws.
FormatSetFromJson(v) ==
    CASE v.type = "string" -> AllOk(<<FormatFromJson(v)>>)
      [] v.type = "array" -> AllOk([i \in DOMAIN v.elems |-> FormatFromJson(v.elems[i])])
      [] OTHER -> [ok |-> FALSE, val |-> <<>>]

\* FormatSet::toJson: null when empty, else the array of printed formats.
FormatSetToJson(fs) ==
    IF fs = <<>> THEN JNull ELSE JArray([i \in DOMAIN fs |-> JString(print(fs[i]))])

\* FormatSetDescription::isDefaultTyped.
FormatSetIsDefault(fs) == fs = <<>>

PositionNames == [NONE |-> 0, none |-> 0, ABOVE_FOLD |-> 1, above |-> 1,
                  BELOW_FOLD |-> 3, below |-> 3]

\* HistoricalPositionDescriptor::parseJsonTyped: a name, or a number
\* copied as it is; anything else throws.
PositionFromJson(v) ==
    CASE v.type = "string" /\ v.str \in DOMAIN PositionNames ->
            [ok |-> TRUE, val |-> PositionNames[v.str]]
      [] v.type = "int" -> [ok |-> TRUE, val |-> v.num]
      [] OTHER -> [ok |-> FALSE, val |-> -1]

\* Mutant: the unspecified position is taken to be UNKNOWN (0).
PositionIsDefaultZero(pos) == pos = 0

\* HistoricalPositionDescriptor::isDefaultTyped: val == -1.
PositionIsDefault(pos) == pos = -1

\* The AdSpot's JSON (its structure description): the Impression id, then
\* formats and position unless they are default.
AdSpotToJson(spot) ==
    [id |-> spot.id,
     formats |-> IF FormatSetIsDefault(spot.formats) THEN Omitted
                 ELSE FormatSetToJson(spot.formats),
     position |-> IF PositionIsDefault(spot.position) THEN Omitted
                  ELSE JInt(spot.position)]

AdSpotOf(id, fs, pos) ==
    [ok |-> fs.ok /\ pos.ok, val |-> [id |-> id, formats |-> fs.val, position |-> pos.val]]

\* AdSpot::fromJson into a default AdSpot: no formats, position -1.
AdSpotFromJson(j) ==
    AdSpotOf(j.id,
             IF j.formats = Omitted THEN [ok |-> TRUE, val |-> <<>>]
             ELSE FormatSetFromJson(j.formats),
             IF j.position = Omitted THEN [ok |-> TRUE, val |-> -1]
             ELSE PositionFromJson(j.position))

-----------------------------------------------------------------------------
(* Binary streams.  A token is <<tag, value>>; a reader at position p      *)
(* returns [ok, val]; each part's length in tokens is fixed by what it     *)
(* wrote, so the next reader's position follows from it.                   *)

Fail == [ok |-> FALSE, val |-> NoCopy]

\* A version byte v is next in the stream.
IsVersion(st, p, v) == p <= Len(st) /\ st[p][1] = "byte" /\ st[p][2] = v

\* Location::serialize: version 0, four strings, dma and the timezone
\* offset as compact_size_t.
SerializeLocation(l) ==
    << <<"byte", 0>>, <<"str", l.countryCode>>, <<"str", l.regionCode>>,
       <<"str", l.cityName>>, <<"str", l.postalCode>>,
       <<"size", ToSize(l.dma)>>, <<"size", ToSize(l.tz)>> >>

\* Location::reconstitute: "invalid Location version" unless 0; the two
\* compact_size_t values are assigned back to int.
ReconstituteLocation(st, p) ==
    IF ~IsVersion(st, p, 0) THEN Fail
    ELSE [ok |-> TRUE,
          val |-> [countryCode |-> st[p + 1][2], regionCode |-> st[p + 2][2],
                   cityName |-> st[p + 3][2], postalCode |-> st[p + 4][2],
                   dma |-> ToInt(st[p + 5][2]), tz |-> ToInt(st[p + 6][2])]]

\* UserIds::serialize: version 0 and the map; the mirrors are not written.
SerializeUserIds(u) == << <<"byte", 0>>, <<"map", u.map>> >>

\* UserIds::reconstitute into a default object: "invalid UserIds version"
\* unless 0, then the map alone.
ReconstituteUserIds(st, p) ==
    IF ~IsVersion(st, p, 0) THEN Fail
    ELSE [ok |-> TRUE,
          val |-> [U!EmptyUserIds EXCEPT !.map = st[p + 1][2]]]

\* AdSpot::serialize: version 2 and toJson().toString().
SerializeAdSpot(spot) == << <<"byte", 2>>, <<"json", AdSpotToJson(spot)>> >>

\* AdSpot::reconstitute: "unknown AdSpot serialization version" unless 2,
\* then fromJson(Json::parse(s)).
ReconstituteAdSpot(st, p) ==
    IF ~IsVersion(st, p, 2) THEN Fail ELSE AdSpotFromJson(st[p + 1][2])

\* A vector<AdSpot>: its size as compact_size_t, then each element.
SerializeImp(imp) ==
    <<<<"size", Len(imp)>>>> \o FoldLeft(LAMBDA acc, s : acc \o SerializeAdSpot(s), <<>>, imp)

ReconstituteImp(st, p) ==
    AllOk([k \in 1..st[p][2] |-> ReconstituteAdSpot(st, p + 1 + 2 * (k - 1))])

\* BidRequest::serialize: version 2, then the fields in the order written:
\* auctionId, location, userIds, imp, url (the other written fields are
\* plain copies).  site, app, device, user, bidCurrency, ext and
\* unparseable are not written; context stands for the site or app object.
SerializeBidRequest(br) ==
    << <<"byte", 2>>, <<"str", br.auctionId>> >>
    \o SerializeLocation(br.location) \o SerializeUserIds(br.userIds)
    \o SerializeImp(br.imp) \o << <<"str", br.url>> >>

\* The request read back once its parts are: the url follows the n spots
\* of imp, which starts at position p.
BidRequestOf(st, loc, uid, p, imp) ==
    IF ~(loc.ok /\ uid.ok /\ imp.ok) THEN Fail
    ELSE [ok |-> TRUE,
          val |-> [auctionId |-> st[2][2], location |-> loc.val,
                   userIds |-> uid.val, imp |-> imp.val,
                   url |-> st[p + 1 + 2 * Len(imp.val)][2],
                   context |-> "none"]]

\* BidRequest::reconstitute into a default BidRequest: "invalid version"
\* unless 2, then each field in the order written (the version and
\* auctionId, 7 tokens of Location from 3, 2 of UserIds from 10, imp from
\* 12); an exception out of a part aborts the whole.
ReconstituteBidRequest(st) ==
    IF ~IsVersion(st, 1, 2) THEN Fail
    ELSE BidRequestOf(st, ReconstituteLocation(st, 3), ReconstituteUserIds(st, 10),
                      12, ReconstituteImp(st, 12))

-----------------------------------------------------------------------------
(* A request is written to a store and read back; what was read back may   *)
(* be stored again.                                                         *)

VARIABLES
    request,    \* the BidRequest being stored
    stream,     \* what serialize wrote; <<>> before
    copy        \* [ok, val] of reconstitute, or NoCopy

vars == <<request, stream, copy>>

Init ==
    /\ request \in Requests
    /\ stream = <<>>
    /\ copy = NoCopy

\* BidRequest::serialize into a fresh Store_Writer.
Serialize ==
    /\ stream = <<>>
    /\ stream' = SerializeBidRequest(request)
    /\ UNCHANGED <<request, copy>>

\* BidRequest::reconstitute of that stream into a default BidRequest.
Reconstitute ==
    /\ stream # <<>>
    /\ copy = NoCopy
    /\ copy' = ReconstituteBidRequest(stream)
    /\ UNCHANGED <<request, stream>>

\* BidRequest::createFromString: the request read back is the one stored
\* next.
Restore ==
    /\ copy # NoCopy
    /\ copy.ok
    /\ request' = copy.val
    /\ stream' = <<>>
    /\ copy' = NoCopy

Next == Serialize \/ Reconstitute \/ Restore

Spec == Init /\ [][Next]_vars

-----------------------------------------------------------------------------
FormatOK(f) == InRange(f.width) /\ InRange(f.height)

RequestOK(br) ==
    /\ InRange(br.location.dma) /\ InRange(br.location.tz)
    /\ br.userIds \in U!UserIdsValues
    /\ \A k \in DOMAIN br.imp :
          /\ \A i \in DOMAIN br.imp[k].formats : FormatOK(br.imp[k].formats[i])
          /\ InRange(br.imp[k].position)
    /\ br.context \in {"site", "app", "none"}

TypeOK ==
    /\ RequestOK(request)
    /\ \A i \in DOMAIN stream : stream[i][1] \in {"byte", "str", "size", "map", "json"}
    /\ copy = NoCopy \/ (copy.ok => RequestOK(copy.val))

\* The fields BidRequest::serialize writes come back from reconstitute,
\* whatever their values: a negative timezone offset or dma through
\* compact_size_t, each format through "%dx%d" and sscanf inside the
\* AdSpot's JSON, an empty FormatSet and the -1 position through their
\* omission as defaults, and the UserIds map.
WrittenFieldsRoundTrip ==
    copy # NoCopy =>
        /\ copy.ok
        /\ \A f \in {"auctionId", "location", "imp", "url"} : copy.val[f] = request[f]
        /\ copy.val.userIds.map = request.userIds.map

\* Spec section 8: for every request the normaliser produces,
\* deserialize(serialize(v)) == v field for field.
RoundTripLossless == copy # NoCopy => copy.ok /\ copy.val = request
=============================================================================
