# TLA+ models of the rtbkit bid-request core

These modules model the bid-request core of this repository (`src/`). The core does three things:

- it turns exchange bid requests into the canonical `BidRequest`;
- it chooses the parser for each exchange;
- it builds the exchange response.

Each module is translated from the C++ source. Its definitions keep the source's names. `PROJECT.json` maps every modelling definition to the lines it stands for, and lists the runs, mutants, findings and hazards.

## 1. The system

| Part | Source | State | Operations |
|------|--------|-------|------------|
| UserIds | `common/bid_request.cc` 552-724 | `map<string, Id>`; mirrors `providerId` and `exchangeId` | `add(id, IdDomain)`, `add(id, string)`, `add(id, d1, d2)`, `set`, `setStatic`, `serialize`/`reconstitute`, `createFromJson`, the JSON description, `getUserId(IdDomain)`, `getUserId(string)` |
| Parser registry | `common/bid_request.cc` 739-833 | static `Parsers` map; `ML::Spinlock`; the libraries dlopen has loaded | `BidRequest::parse`, `getParser` (lookup, dlopen, lookup), `registerParser`, `AtInit` |
| Normalization mapper | `plugins/bid_request/openrtb_bid_request.cc` | none: a pure function of the parsed request | `fromOpenRtb`, `parseBidRequest` |
| Schema registry (value descriptions) | `common/descriptions/*.h`, `common/defaulted.h`, `common/json.h` | none after construction | parse and print of `optional<T>`, `defaulted<T>`, autocast numbers and booleans, enums |
| Value model | `openrtb/openrtb.h`, `openrtb/openrtb_parsing.h` | the OpenRTB structs | `Currency` packing and `toString`, the enum descriptions |
| Binary persistence | `common/bid_request.cc` 60-950 | versioned streams; the `Format`, `FormatSet`, `AdSpot` and `Location` text, JSON and binary forms | `BidRequest::serialize`/`reconstitute`, `createFromString`, `Format::print`/`fromString`, `FormatSet`/`AdSpot` JSON |
| Response assembler | `plugins/exchange/openrtb_exchange_connector.cc` | none: a function of the auction | `getResponse`, `setSeatBid`, `getTimeAvailableMs` |

How the parts interact:

- A worker thread calls `BidRequest::parse(source, payload)`.
- The registry routes the call either to the canonical parser or to an exchange parser.
- An exchange parser uses the value descriptions to parse the JSON into `OpenRTB::BidRequest`.
- `fromOpenRtb` then maps that request into the canonical `BidRequest`. Along the way it adds ids to its `UserIds`.
- The connector builds the response.

The registry is the only state shared between threads.

Behaviours that are hard to test:

- **Concurrency in the registry.** Threads interleave on the registry while a library loads. The spinlock must be released before `dlopen`, because the library's static initialiser takes the same lock again.
- **Best-effort optional parsing** (`optional.h` 26-43). A field that fails to parse becomes absent, silently. Structural checks that run later in `fromOpenRtb` see "absent" rather than "invalid".
- **The `UserIds` mirrors.** Every path that writes the map has to refresh them: `set`, `reconstitute`, and the string and enum forms of `add`.
- **Partial failure.** In `add(id, d1, d2)`, when the second add throws, the first one stays applied.
- **Undefined behaviour.** The format loop reads `banner->h[i]` past the end of `h`.

## 2. Modules

### `UserIds.tla` (+ `MCUserIds.tla`)

A `UserIds` value is a record with three fields:

- `map`: a function from domain keys to an id, or `Absent` where the key is missing;
- `providerId` and `exchangeId`: the two mirrors that `setStatic` keeps.

Each method is a pure operator that returns `[ok, val]`, where `ok = FALSE` is the "attempt to double add id" exception: `AddDomain`, `AddKey`, `AddPair`. The actions `Add`, `AddByKey` and `AddBoth` apply them to one object, and `lastThrew` records whether the last call threw. The request path only ever adds (`fromOpenRtb`, the JSON description, `createFromJson`): that is `SpecAdd`. `UserIds::set` has no caller in `src/` and is not an action (see the hazard at `bid_request.cc:615`).

`Reload` is `createFromString(serializeToString())`. `ToJson` writes one member per entry, with the id in its string form (`IdString`). `CreateFromJson` starts from a default `UserIds` and calls `add(Id(member), name)` for each member (`AddMembers`); the first add that throws ends it. Unlike the binary `reconstitute`, this path rebuilds the mirrors. `DescReload` is the other JSON path: the `UserIds` member of a `BidRequest` printed by `UserIdsDescription` (`PrintUserIds`, omitted when the map is empty) and parsed again into a default object (`ParseUserIds`, one `add` per member). `ReloadLossless` checks that both reloads give back the same object.

### `TextScan.tla`

Pure operators for the decimal text that `Format`'s `sscanf("%dx%d%n")` and `std::stoi` read, and `Format::print` writes: `SkipSpaces` (over `WhiteSpace`, the C locale's `isspace` class), `DigitRun`, `ScanSigned`, `ScanInt`, `PrintInt`. `int` is `IntBits` wide; a value out of range is reported, not wrapped, as `strtol`/`sscanf` do.

### `BidRequestCodec.tla` (+ `MCBidRequestCodec.tla`)

Text is a sequence of one-character strings. A binary stream is a sequence of tokens `<<tag, value>>`, one per value the `Store_Writer` writes. A reader takes the tokens back at fixed offsets and checks only the version bytes, as the `Store_Reader` code does. `size_t` is `SizeBits` wide, so `compact_size_t(int)` wraps a negative `dma` or timezone as the build does (`ToSize`, `ToInt`).

- `print`, `fromString`: the `Format` string form.
- `FormatSetFromJson`/`FormatSetToJson`, `PositionFromJson`, `AdSpotToJson`/`AdSpotFromJson`: the JSON forms, with the `-1` position and the empty `FormatSet` omitted.
- `SerializeLocation`/`ReconstituteLocation` (version 0), `SerializeUserIds`/`ReconstituteUserIds`, `SerializeAdSpot`/`ReconstituteAdSpot` (version 2 with the spot's JSON), `SerializeBidRequest`/`ReconstituteBidRequest` (version 2).

The state is a `request` drawn from the canonical requests the normaliser produces, the `stream` last written and the `copy` read back. The actions are `Serialize`, `Reconstitute` and `Restore` (`createFromString`), so store/load cycles repeat on the copy.

### `Descriptions.tla` (+ `MCDescriptions.tla`)

The JSON value descriptions of `common/descriptions` and `openrtb_parsing.h`. A structure is a table of fields (`BannerFields`, `VideoFields`, `ImpressionFields`, `BidRequestFields`, `SeatBidFields`, `ContentFields`, `SiteFields`, `AppFields`, `GeoFields`, `DeviceFields`, `UserFields`, collected in `StructFields`; `Opt(kind)` is an `optional<T>` member with an autocasting inner description): each member has a wrapper (plain, `optional`, `defaulted`), the kind of its inner description (`int`, `bool`, `enum`, `currency`, `intlist`) and its declared default. `intlist` is `FormatListDescription` (Banner's `w` and `h`): it reads a scalar or an array into a vector and prints a one-element vector as a scalar (`FormatListParse`, `FormatListPrint`). A parse result is `[ok, val, exc]`, where `exc` is `"ml"` for `ML::Exception` and `"std"` for any other `std::exception`.

- Inner descriptions: `NumberDescription` (a string through `stoi`, with its prefix acceptance and `out_of_range`), `AutoCastingBool`, the enum descriptions, `MakeCurrency` (big-endian packing) and `toString` (the union read, byte order `LittleEndian`).
- Wrappers: `BestEffort` catches both exception types and keeps what the member held; `IsDefault` compares with `def`.
- Structures: `Fresh(fs, g)` is a default-constructed struct, in which a plain `int` member is uninitialised (`g` from `Garbage`, the undefined value as a nondeterministic choice). `ParseStruct` is `fromJson`, and `PrintStruct` is `toJson`, which omits default members.

The actions are `FromJson` of a new object of any struct in `Structs`, `ToJson` of the result, `Reparse` of the printed object, and `Discard`, which returns to idle.

### `OpenRtbNormalize.tla` (+ `MCOpenRtbNormalize.tla`)

The JSON is abstracted to nodes, and each node has one of these kinds:

- absent;
- invalid: an object with an ill-typed leaf;
- object;
- list, for `cur`.

`ParseOptional` is the best-effort parse of `optional.h`. `ParseOpenRtb` applies it to every optional field that `fromOpenRtb` reads.

`fromOpenRtb` is split into one operator per block:

- `SpotFormats`;
- `MapContext`, with `SiteUrl` and `AppUrl`;
- `MapDevice`;
- `MapUser`, with `FoldData`, `DataValues` and `RegisterUserIds`;
- `MapCurrency`.

`MapUser` reuses `UserIds` through `INSTANCE`. `FromOpenRtb` returns the set of possible outcomes:

- a fault, when the out-of-bounds read of `h` traps;
- the two exceptions, `ConflictingContext` and `TzNotInt`;
- `ok` with a canonical request.

The one action, `ParseBidRequest`, is a call of `parseBidRequest` on a document drawn from `Docs`. Several pieces of data are abstracted to tagged tuples:

- URLs are `<<"page", p>>`, `<<"siteid", id>>`, `<<"bundle", b>>`, `<<"appid", id>>`, or `<<"none">>`.
- Segments map a key to a set of tokens.
- `Segments::addStrings` is not in this tree. It is modelled from the spec.

### `ParserRegistry.tla` (+ `MCParserRegistry.tla`)

Worker threads each run `BidRequest::parse` again and again. A call goes through these steps:

1. `Call`: the empty-source check, and the canonical bypass for `"datacratic"` or for a payload that starts with `{"!!CV":`.
2. `Lookup1`, under the spinlock.
3. `Dlopen`, under the dynamic loader's lock. It may throw "no such library", find the library already loaded, or start the library's static initialiser.
4. One `RegisterParser` per name the initialiser registers.
5. `InitDone`.
6. `Lookup2`.

The variables:

- `lock`: the spinlock's holder;
- `loader`: the holder of the loader lock;
- `loaded`: the libraries whose initialiser has completed;
- `parsers`: the registry, which maps a name to whoever registered it;
- `regAtLookup`: a history variable, which records whether the name was registered at the first lookup.

The configuration has these libraries:

- `liba` registers `"a"` and `"b"`.
- `libx` registers nothing.
- `"b"` and `"zz"` have no library.

A refused `registerParser` inside an initialiser terminates the process. This is modelled as `pc = "terminated"`. The configuration follows the spec's once-per-source registration, so that branch is not reached.

### `AtomicRegistry.tla`: the abstract registry, and the refinement

`AtomicRegistry` says what the registry promises with no locks and no loader. Each call of `parse` takes effect in one step (`Finish`). At that step it returns one of three things:

- the parser registered for its source;
- `NoLibrary`, when no library is named after the source;
- `UnknownParserSource`, once that library has loaded without registering the name.

A library loads at most once, one at a time (`StartLoad`), registers its names in order (`Register`), and completes (`EndLoad`).

`ParserRegistry` defines `AR == INSTANCE AtomicRegistry WITH ...` and checks `AtomicRegistrySpec == AR!Spec`, fairness included, as a property of the `registry` run. The mapping works as follows:

- `loading` is the library of the thread that holds the loader lock, and `toRegister` is what its initialiser still has to register.
- A thread whose `dlopen` found no library has answered already, so `absPc` maps it to idle and `absRes` to `NoLibrary`.
- Every other call takes effect at its last lookup.

`Answered` marks the first kind of thread. The mutant `DlopenUnserialised` lets two threads load at once, and the refinement fails.

### `OpenRtbConnector.tla` (+ `MCOpenRtbConnector.tla`)

One HTTP exchange after another:

1. `Receive`;
2. `ParseBidRequest`: the content-type and `x-openrtb-version` checks, then the parse;
3. `GetTimeAvailableMs`: the text scan for `"tmax":`;
4. the auction, which is outside this tree: `Auction` decides it or `DropAuction` drops it;
5. `GetResponse`, with `setSeatBid`.

A payload is a sequence of top-level members. A member is a key, how the text around its colon is spaced, and a value, which is a number, a quoted number or an object holding a `tmax` of its own. `getTimeAvailableMs` is modelled by what its scan does; `ParsedTmax` is what the autocasting parser reads.

## 3. Runs

| Run | Checks | Result |
|-----|--------|--------|
| `userids_add` | `TypeOK`, `MirrorsAgree`, `NoSilentOverwrite`, `ReloadLossless` over every sequence of adds and JSON reloads, with 3 ids and the keys `prov`, `xchg`, `tapad` | pass, 127 states |
| `normalize` | `TypeOK`, `UrlFallbackChain`, `IdentitiesRegistered`, `SegmentsFlattened` | pass, 36288 states |
| `normalize_conflict` | `ConflictRejected` | violation: a request with both site and app objects is accepted when either fails its best-effort parse (in the trace both do, and the request has no context) |
| `normalize_formats` | `FormatsPairwise` | violation: `w` longer than `h` reads out of bounds |
| `registry` | `TypeOK`, `CallResultCorrect`, `CallsComplete`, `AtomicRegistrySpec` (refinement) with 2 threads | pass, 8419 states |
| `connector` | `TypeOK`, `NoContentIffNoWinner`, `OneBidPerWinner` (action properties), `EveryRequestAnswered` (liveness) | pass, 1897 states |
| `connector_bid_ids` | `BidIdsUnique` | violation: two winning spots get the same `Bid.id` |
| `connector_tmax` | `TimeAvailableMatchesTmax` | violation: a quoted, nested or spaced `tmax` is misread by the text scan |
| `codec` | `TypeOK`, `WrittenFieldsRoundTrip` over repeated store/load cycles | pass, 108 states |
| `codec_lossless` | `RoundTripLossless` | violation: site/app are not written, and the `UserIds` mirrors are not restored |
| `descriptions` | `TypeOK`, `BestEffortParse`, `JsonRoundTrip` over every object of the leaf sets of eleven OpenRTB structs, big-endian | pass, 97634 states |
| `descriptions_currency` | `JsonRoundTrip` for Impression's `bidfloorcur`, little-endian | violation: on little-endian a currency prints as `""` |

The bounds, and why they are enough:

- **UserIds.** Three ids make a repeated add with a different id reachable. One key besides `prov` and `xchg` covers the default branch of `setStatic`.
- **Normalization.** The documents are the product of a few variants of each part:
  - site: absent, invalid, and objects over page × id;
  - app: absent, invalid, bundle, id;
  - device: ip present or empty, with ipv6 and region or FIPS;
  - users: 6 variants, with duplicate data keys, a segment with neither id nor name, and `tz` as int, absent, null or string;
  - impressions: 4 variants, one of them with `w` longer than `h`;
  - `cur`: 4 variants.

  Every branch of `fromOpenRtb` is met by at least one document.
- **Registry.** Two threads are enough for one thread to miss while the other loads. The same configuration with three threads also passes every property (387677 distinct states), but takes about 8 minutes, so it is not one of the runs. `liba` registering `"b"` makes the result for `"b"` depend on timing. `libx` covers the case where `dlopen` succeeds but there is no parser.
- **Connector.** Two impressions make two winners possible. The five member texts cover each way the `"tmax":` scan and the parser can disagree, and payloads of up to two members put a nested `tmax` before or after the top-level one.
- **Codec.** `IntBits = 16`, `SizeBits = 24` keep the wrap of `compact_size_t(int)` for negative `dma` and timezone, as with 32 and 64 bits. The spots cover an empty `FormatSet`, the `-1` position, a negative width and several formats.
- **Descriptions.** The structs together cover each wrapper and each inner kind. For Video, the leaves are a number, a zero, a numeric prefix (`"12abc"`), a non-numeric string, a string out of `int` range and a bool. Banner's leaves are a scalar, a two-element array, an empty array, an array with a string, a string and a bool. Impression's leaves are a bool-like int and two currency codes. BidRequest's leaves are the two auction types (2 is the default and is omitted on print), a quoted number (`tmax` reads it, the enum `at` rejects it) and a bool. SeatBid's are a zero, a bool and a non-numeric string. Content, Site, App, Geo, Device and User hold only optional members. Their leaves mix a number, a bool, a numeric or non-numeric string and a `null`, so that each optional bool, int and enum is accepted at least once, and rejected through each exception type its description can throw. Video's further int members (`maxduration`, `h`, `startdelay`, `maxextended`, the bitrates) are of kinds already in the table, and are left out to bound the state space. Together they reach every branch of the autocasting descriptions and both exception types. Two garbage values make the uninitialised `minduration` visible in the state space. No property can tell it from a value the JSON gave, so its hazard has no property.

Fairness:

- **Registry.** `CallsComplete` and the refinement assume weak fairness for each thread's steps inside a call, because the OS keeps scheduling a thread that is running. The lock and the loader lock are held only inside steps that always progress. Nothing obliges a thread to start another call, so `Call` has no fairness. In `AtomicRegistry`, the matching conditions are weak fairness of `Finish`, `StartLoad`, `Register` and `EndLoad`.
- **Connector.** `EveryRequestAnswered` assumes weak fairness for the handler's steps and for the auction. The router ends every auction, either by deciding it or by dropping it at its deadline. `Receive` has no fairness.

The other modules check safety only. The `normalize` runs set `CHECK_DEADLOCK FALSE`, because they model one call of `parseBidRequest`, which ends. Every other run checks for deadlock. The connector and registry keep serving, the codec keeps storing and loading, and `Discard` returns `Descriptions` to idle.

Every property of a passing run has a mutant listed in `PROJECT.json`. A mutant is a plausible bug, such as a dropped guard, a lock held too long, a missing second lookup, a range check dropped from `stoi` or a wrapper that catches only `ML::Exception`. TLC finds each mutant violating its property.

## 4. Plan and what is not modelled

Left for later sittings:

- **Bool and number autocast against the spec.** `"12abc"` parses as 12, and `"2"` gives `true`. Both are modelled in `Descriptions`, but no run checks them, because the run budget is spent.
- **`defaulted3`.** `bidfloor` is a `double`, which is out of TLC's reach, but the wrapper code is the same one modelled for `defaulted`.
- **Unknown members of a canonical request.** `onUnknownField` (`bid_request.cc:105-131`) files each unknown member into `unparseable`, but a later `unparseable` member (`:163`) overwrites the field, so the loss depends on member order. This is listed as a hazard. It needs the member loop of `StructureDescription` and a violation run, and the run budget is spent.
- **A composition of the normaliser and the codec.** This would feed `FromOpenRtb`'s outcomes into `Serialize`, instead of the fixed request set.

Not modelled:

- **The AppNexus headers.** They declare description specialisations and a mapping signature, and have no behaviour in this tree.
- **`StructureDescription` and the JSON contexts.** They come from the `soa` library, which is not in this tree. `StructOf` models the field loop from the spec.
- **Copies with no logic.** Auction id, timestamp, language, user agent, city, zip and `ext` are plain copies in `fromOpenRtb`.
- **Logging and text formatting.** `Location::fullLocationString`, `formatDims`, `FormatSet::print` and `AdSpot::format` only build display text, and no property is about it. `getDims` has no caller.
