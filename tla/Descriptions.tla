----------------------------- MODULE Descriptions -----------------------------
(***************************************************************************)
(* The JSON value descriptions the OpenRTB structures are parsed and       *)
(* printed with (src/common/descriptions, src/openrtb): the               *)
(* autocasting number and bool descriptions, the integer and string enum   *)
(* descriptions (Currency through toCurrency/toString), and the optional   *)
(* and defaulted wrappers with their best-effort catch.                    *)
(*                                                                         *)
(* A structure is a table of fields, each with its wrapper (plain,         *)
(* optional, defaulted), the kind of its inner description and its         *)
(* declared default, translated from the struct in openrtb.h.  A JSON      *)
(* object maps each field to a leaf or to Absent.  A parse result is [ok, val, exc]: exc is the exception type    *)
(* ("ml" for ML::Exception, "std" for other std::exception) when ok is     *)
(* FALSE.                                                                  *)
(***************************************************************************)
EXTENDS Integers, Sequences, SequencesExt, TextScan

CONSTANTS
    Structs,        \* the OpenRTB structs parsed: names of StructFields
    Leaves,         \* struct name -> the JSON leaves its fields may hold
    Garbage,        \* the values an uninitialised int member can hold
    LittleEndian,   \* byte order of the build
    NoValue         \* an optional<T> without a value

JInt(n) == [type |-> "int", num |-> n]
JBool(b) == [type |-> "bool", bool |-> b]
JString(str) == [type |-> "string", str |-> str]
JNull == [type |-> "null"]
JArray(elems) == [type |-> "array", elems |-> elems]
Absent == [type |-> "absent"]

Ok(v) == [ok |-> TRUE, val |-> v, exc |-> "none"]
Throw(e) == [ok |-> FALSE, val |-> NoValue, exc |-> e]

-----------------------------------------------------------------------------
(* Inner descriptions.                                                     *)

\* std::stoi: std::invalid_argument without digits, std::out_of_range when
\* the value does not fit in an int; what follows the digits is ignored.
\* Mutant: the conversion keeps the long strtol returns without the range
\* check.
StoiOfUnchecked(r) == IF r.ok THEN Ok(r.val) ELSE Throw("std")

StoiOf(r) == IF r.ok /\ InRange(r.val) THEN Ok(r.val) ELSE Throw("std")

stoi(s) == StoiOf(ScanInt(s, 1))

\* JsonParsingContext::expectInt: a number, else a type mismatch.
expectInt(leaf) == IF leaf.type = "int" THEN Ok(leaf.num) ELSE Throw("ml")

\* NumberDescription<int>: a string through cast_to<int> (stoi), anything
\* else through expect<int>.
NumberDescription(leaf) ==
    IF leaf.type = "string" THEN stoi(leaf.str) ELSE expectInt(leaf)

BoolOf(r) == IF r.ok THEN Ok(r.val # 0) ELSE r

\* AutoCastingDescription<bool>: a string through stoi, a number as int,
\* else expectBool.
AutoCastingBool(leaf) ==
    CASE leaf.type = "string" -> BoolOf(stoi(leaf.str))
      [] leaf.type = "int"    -> Ok(leaf.num # 0)
      [] leaf.type = "bool"   -> Ok(leaf.bool)
      [] OTHER                -> Throw("ml")

Letters == <<"A", "B", "C", "D", "E", "F", "G", "H", "I", "J", "K", "L", "M",
             "N", "O", "P", "Q", "R", "S", "T", "U", "V", "W", "X", "Y", "Z">>

\* The char value of an upper-case ASCII letter.
CharCode(c) == 64 + CHOOSE i \in DOMAIN Letters : Letters[i] = c

\* _get(str, i): the i-th char, or '\0' past strlen.
Get(s, i) == IF i < Len(s) THEN CharCode(s[i + 1]) ELSE 0

\* _MakeCurrency: the first four chars packed big-endian into a uint32.
MakeCurrency(s) ==
    Get(s, 0) * 2^24 + Get(s, 1) * 2^16 + Get(s, 2) * 2^8 + Get(s, 3)

\* The byte of c at memory offset k of the union in toString.
ByteAt(c, k) ==
    LET shift == IF LittleEndian THEN k ELSE 3 - k
    IN (c \div (2^(8 * shift))) % 256

\* Datacratic::toString(Currency): the uint32 stored in a union with
\* char s[5], s[4] = '\0', read back as a C string.
toString(c) ==
    LET bytes == [k \in 1..4 |-> ByteAt(c, k - 1)]
        nul == SelectInSeq(bytes, LAMBDA b : b = 0)
        n == IF nul = 0 THEN 4 ELSE nul - 1
    IN [k \in 1..n |-> Letters[bytes[k] - 64]]

\* FormatListDescription::parseJsonTyped (Banner w and h): each element of
\* an array through expectInt, pushed onto the vector, or a single number;
\* a non-number throws on the element it meets.
FormatListParse(leaf) ==
    IF leaf.type = "array"
    THEN IF \A i \in DOMAIN leaf.elems : leaf.elems[i].type = "int"
         THEN Ok([i \in DOMAIN leaf.elems |-> leaf.elems[i].num])
         ELSE Throw("ml")
    ELSE IF leaf.type = "int" THEN Ok(<<leaf.num>>) ELSE Throw("ml")

\* FormatListDescription::printJsonTyped: one element through the inner
\* description, else the list.
FormatListPrint(x) ==
    IF Len(x) = 1 THEN JInt(x[1]) ELSE JArray([i \in DOMAIN x |-> JInt(x[i])])

\* The inner description of a field kind: parseJsonTyped.
InnerParse(kind, leaf) ==
    CASE kind = "int"      -> NumberDescription(leaf)
      [] kind = "bool"     -> AutoCastingBool(leaf)
      [] kind = "enum"     -> expectInt(leaf)
      [] kind = "currency" -> IF leaf.type = "string" THEN Ok(MakeCurrency(leaf.str))
                              ELSE Throw("ml")
      [] kind = "intlist"  -> FormatListParse(leaf)

\* The inner description of a field kind: printJsonTyped.
InnerPrint(kind, x) ==
    CASE kind \in {"int", "enum"} -> JInt(x)
      [] kind = "bool"            -> JBool(x)
      [] kind = "currency"        -> JString(toString(x))
      [] kind = "intlist"         -> FormatListPrint(x)

-----------------------------------------------------------------------------
(* The members of the OpenRTB structs, with their wrappers and defaults.   *)
(* A plain member's def is unused.                                         *)

\* struct Banner: vector<int> w, h (FormatListDescription);
\* defaulted<AdPosition, UNKNOWN> pos; defaulted<bool, false> topframe.
BannerFields ==
    [w        |-> [wrap |-> "plain",     kind |-> "intlist", def |-> <<>>],
     h        |-> [wrap |-> "plain",     kind |-> "intlist", def |-> <<>>],
     pos      |-> [wrap |-> "defaulted", kind |-> "enum",    def |-> 0],
     topframe |-> [wrap |-> "defaulted", kind |-> "bool",    def |-> FALSE]]

\* struct Video: int minduration; optional<int> w; defaulted<int, 1>
\* sequence; defaulted<bool, true> boxingallowed; defaulted<AdPosition,
\* UNKNOWN> pos.
VideoFields ==
    [minduration   |-> [wrap |-> "plain",     kind |-> "int",  def |-> 0],
     w             |-> [wrap |-> "optional",  kind |-> "int",  def |-> 0],
     sequence      |-> [wrap |-> "defaulted", kind |-> "int",  def |-> 1],
     boxingallowed |-> [wrap |-> "defaulted", kind |-> "bool", def |-> TRUE],
     pos           |-> [wrap |-> "defaulted", kind |-> "enum", def |-> 0]]

\* struct Impression: defaulted<bool, false> instl;
\* defaulted<Currency, MakeCurrency("USD")> bidfloorcur.
ImpressionFields ==
    [instl       |-> [wrap |-> "defaulted", kind |-> "bool",     def |-> FALSE],
     bidfloorcur |-> [wrap |-> "defaulted", kind |-> "currency",
                      def |-> MakeCurrency(<<"U", "S", "D">>)]]

\* struct BidRequest: defaulted<AuctionType, SECOND_PRICE> at (2);
\* optional<int> tmax; defaulted<bool, false> allimps.
BidRequestFields ==
    [at      |-> [wrap |-> "defaulted", kind |-> "enum", def |-> 2],
     tmax    |-> [wrap |-> "optional",  kind |-> "int",  def |-> 0],
     allimps |-> [wrap |-> "defaulted", kind |-> "bool", def |-> FALSE]]

\* struct SeatBid: defaulted<bool, false> group.
SeatBidFields ==
    [group |-> [wrap |-> "defaulted", kind |-> "bool", def |-> FALSE]]

\* An optional member of a field kind.
Opt(kind) == [wrap |-> "optional", kind |-> kind, def |-> 0]

\* struct Content: optional<int> episode, len; optional<VideoQuality>
\* videoquality; optional<bool> livestream, embeddable;
\* optional<SourceRelationship> sourcerelationship; optional<MediaRating>
\* qagmediarating.
ContentFields ==
    [episode |-> Opt("int"), videoquality |-> Opt("enum"), livestream |-> Opt("bool"),
     sourcerelationship |-> Opt("enum"), len |-> Opt("int"),
     qagmediarating |-> Opt("enum"), embeddable |-> Opt("bool")]

\* struct Site: Context's optional<bool> privacypolicy.
SiteFields == [privacypolicy |-> Opt("bool")]

\* struct App: Context's optional<bool> privacypolicy, AppInfo's
\* optional<bool> paid.
AppFields == [privacypolicy |-> Opt("bool"), paid |-> Opt("bool")]

\* struct Geo: optional<LocationType> type.
GeoFields == [type |-> Opt("enum")]

\* struct Device: optional<bool> dnt, js; optional<ConnectionType>
\* connectiontype; optional<DeviceType> devicetype.
DeviceFields ==
    [dnt |-> Opt("bool"), js |-> Opt("bool"),
     connectiontype |-> Opt("enum"), devicetype |-> Opt("enum")]

\* struct User: optional<int> yob.
UserFields == [yob |-> Opt("int")]

StructFields ==
    [Banner |-> BannerFields, Video |-> VideoFields, Impression |-> ImpressionFields,
     BidRequest |-> BidRequestFields, SeatBid |-> SeatBidFields,
     Content |-> ContentFields, Site |-> SiteFields, App |-> AppFields,
     Geo |-> GeoFields, Device |-> DeviceFields, User |-> UserFields]

-----------------------------------------------------------------------------
(* Wrappers and structures.                                                *)

\* Mutant: the wrapper catches ML::Exception only.
CatchMlOnly(r, prior) == IF r.ok \/ r.exc # "ml" THEN r ELSE Ok(prior)

\* parseJsonTyped of optional<Inner> and defaulted<Inner, def>: the inner
\* description parses into a local; on success the member is assigned,
\* on ML::Exception or std::exception the error is logged and the member
\* keeps what it held.
BestEffort(r, prior) == IF r.ok THEN r ELSE Ok(prior)

\* The description of one member parsing a present JSON value.
FieldParse(desc, prior, leaf) ==
    IF desc.wrap = "plain" THEN InnerParse(desc.kind, leaf)
    ELSE BestEffort(InnerParse(desc.kind, leaf), prior)

\* A default-constructed structure: a plain int member is uninitialised
\* (g), a vector is empty, an optional is empty, a defaulted member holds
\* def.
Fresh(fs, g) ==
    [f \in DOMAIN fs |->
        CASE fs[f].wrap = "plain"    -> IF fs[f].kind = "intlist" THEN <<>> ELSE g
          [] fs[f].wrap = "optional" -> NoValue
          [] OTHER                   -> fs[f].def]

\* The structure once each member is parsed: an exception out of a plain
\* member propagates out of the whole parse.
StructOf(results) ==
    IF \A f \in DOMAIN results : results[f].ok
    THEN Ok([f \in DOMAIN results |-> results[f].val])
    ELSE Throw(results[CHOOSE f \in DOMAIN results : ~results[f].ok].exc)

\* fromJson<T>(json): a default-constructed T filled by its structure
\* description, member by member for the keys present.
ParseStruct(fs, fresh, doc) ==
    StructOf([f \in DOMAIN fs |->
                IF doc[f] = Absent THEN Ok(fresh[f])
                ELSE FieldParse(fs[f], fresh[f], doc[f])])

\* Mutant: defaulted's isDefaultTyped compares with a value-initialised
\* Inner instead of def.
IsDefaultValueInit(desc, x) ==
    CASE desc.wrap = "plain"    -> desc.kind = "intlist" /\ x = <<>>
      [] desc.wrap = "optional" -> x = NoValue
      [] OTHER                  -> x = IF desc.kind = "bool" THEN FALSE ELSE 0

\* isDefaultTyped: empty for a FormatListDescription vector, never for
\* another plain member, empty for optional<T>, equal to def for
\* defaulted<T, def>.
IsDefault(desc, x) ==
    CASE desc.wrap = "plain"    -> desc.kind = "intlist" /\ x = <<>>
      [] desc.wrap = "optional" -> x = NoValue
      [] OTHER                  -> x = desc.def

\* toJson(v): the structure description prints each member that is not
\* default through its inner description.
PrintStruct(fs, v) ==
    [f \in DOMAIN fs |->
        IF IsDefault(fs[f], v[f]) THEN Absent ELSE InnerPrint(fs[f].kind, v[f])]

-----------------------------------------------------------------------------
(* A JSON object is parsed, the structure printed and the text parsed      *)
(* again, as a request is read from an exchange, logged and replayed.      *)

\* The JSON objects of struct st.
Docs(st) == [DOMAIN StructFields[st] -> Leaves[st] \cup {Absent}]

VARIABLES
    target,     \* the struct being parsed
    doc,        \* the JSON object received
    parsed,     \* fromJson of doc
    printed,    \* toJson of what was parsed
    reparsed    \* fromJson of that

vars == <<target, doc, parsed, printed, reparsed>>

\* The fields of the struct being parsed.
Fields == StructFields[target]

Init ==
    /\ target \in Structs
    /\ doc = NoValue
    /\ parsed = NoValue
    /\ printed = NoValue
    /\ reparsed = NoValue

\* fromJson<T> of a new JSON object, for any of the structs.
FromJson ==
    /\ parsed = NoValue
    /\ \E st \in Structs : \E d \in Docs(st), g \in Garbage :
          /\ target' = st
          /\ doc' = d
          /\ parsed' = ParseStruct(StructFields[st], Fresh(StructFields[st], g), d)
    /\ printed' = NoValue
    /\ reparsed' = NoValue

\* toJson of the structure parsed.
ToJson ==
    /\ parsed # NoValue
    /\ parsed.ok
    /\ printed = NoValue
    /\ printed' = PrintStruct(Fields, parsed.val)
    /\ UNCHANGED <<target, doc, parsed, reparsed>>

\* fromJson<T> of the printed object.
Reparse ==
    /\ printed # NoValue
    /\ reparsed = NoValue
    /\ \E g \in Garbage : reparsed' = ParseStruct(Fields, Fresh(Fields, g), printed)
    /\ UNCHANGED <<target, doc, parsed, printed>>

\* The object is done with: its parse threw, or it went through print and
\* parse again.
Discard ==
    /\ parsed # NoValue
    /\ ~parsed.ok \/ reparsed # NoValue
    /\ doc' = NoValue
    /\ parsed' = NoValue
    /\ printed' = NoValue
    /\ reparsed' = NoValue
    /\ UNCHANGED target

Next == FromJson \/ ToJson \/ Reparse \/ Discard

Spec == Init /\ [][Next]_vars

-----------------------------------------------------------------------------
ValueOK(desc, x) ==
    CASE x = NoValue                 -> desc.wrap = "optional"
      [] desc.kind \in {"int", "enum"} -> InRange(x)
      [] desc.kind = "bool"          -> x \in BOOLEAN
      [] desc.kind = "currency"      -> 0 <= x /\ x <= 2^30 + (2^30 - 1)
      [] desc.kind = "intlist"       -> \A i \in DOMAIN x : InRange(x[i])

ResultOK(r) ==
    r = NoValue \/ (r.ok => \A f \in DOMAIN Fields : ValueOK(Fields[f], r.val[f]))

TypeOK ==
    /\ target \in Structs
    /\ doc = NoValue \/ \A f \in DOMAIN Fields : doc[f] \in Leaves[target] \cup {Absent}
    /\ printed = NoValue \/ \A f \in DOMAIN Fields : printed[f].type \in {"int", "bool", "string", "array", "absent"}
    /\ ResultOK(parsed) /\ ResultOK(reparsed)

\* What a member holds when its JSON value is absent or was rejected.
DefaultOf(desc) == IF desc.wrap = "optional" THEN NoValue ELSE desc.def

\* Spec 4.1 (best-effort optional): a malformed leaf of an optional or
\* defaulted member never aborts the parse of the structure, and leaves
\* the member at its default; the parse fails exactly when a plain
\* member's value is rejected, be it a type mismatch (ML::Exception) or
\* text stoi refuses (std::exception).
BestEffortParse ==
    parsed # NoValue =>
        LET present == {f \in DOMAIN Fields : doc[f] # Absent}
            rejected == {f \in present : ~InnerParse(Fields[f].kind, doc[f]).ok}
        IN /\ parsed.ok = (\A f \in rejected : Fields[f].wrap # "plain")
           /\ parsed.ok => \A f \in rejected : parsed.val[f] = DefaultOf(Fields[f])

\* Spec 8 (round-trip): parseJSON(printJSON(v)) reproduces v: a member omitted from the
\* printed object because it is default comes back as that default, and
\* every other member comes back through its inner description.
JsonRoundTrip == reparsed # NoValue => reparsed.ok /\ reparsed.val = parsed.val
=============================================================================
