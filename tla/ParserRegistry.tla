---------------------------- MODULE ParserRegistry ----------------------------
(***************************************************************************)
(* The process-wide parser registry of src/common/bid_request.cc: a map    *)
(* from exchange source name to parser function, guarded by a spinlock,    *)
(* filled by the AtInit static initialiser with the canonical parser and   *)
(* on a lookup miss by dlopen("lib" + source + "_bid_request.so"), whose   *)
(* static initialiser calls registerParser for the names it serves.        *)
(*                                                                         *)
(* Each worker thread runs BidRequest::parse(source, payload) over and     *)
(* over.  The steps of one call are: the routing of parse, the first       *)
(* lookup under the spinlock, dlopen (serialised by the dynamic loader's   *)
(* own lock, under which the library's initialiser runs), each             *)
(* registerParser of that initialiser, and the second lookup.              *)
(* A parser is identified by who registered it: "canonical" for            *)
(* CanonicalParser::parse, else the source name of the library.            *)
(***************************************************************************)
EXTENDS Naturals, Sequences, FiniteSets, SequencesExt

CONSTANTS
    Threads,    \* worker threads calling BidRequest::parse
    Libs,       \* the parser libraries present: source -> <<names it registers>>
    Others,     \* source names passed to parse besides the canonical ones
    NoThread,   \* no thread holds the lock
    NoParser    \* the name is not a key of the registry

\* The names AtInit registers for CanonicalParser::parse.
Builtins == {"recoset", "datacratic", "rtbkit"}

\* Every name a library registers.
LibNames == UNION {ToSet(Libs[l]) : l \in DOMAIN Libs}

Names == Builtins \cup Others \cup LibNames

\* Registration happens once per name (spec 4.2): no two initialisers
\* register the same name, so no registerParser throws out of a static
\* initialiser.
ASSUME /\ \A l \in DOMAIN Libs : IsInjective(Libs[l])
       /\ \A l, m \in DOMAIN Libs : l # m => ToSet(Libs[l]) \cap ToSet(Libs[m]) = {}
       /\ LibNames \cap Builtins = {}
\* A library serves its own source or registers nothing for it, and no
\* other library registers the name of a source that has a library.
ASSUME \A l \in DOMAIN Libs : \A m \in DOMAIN Libs : l \in ToSet(Libs[m]) => l = m

Sources == {""} \cup Names
Parsers == {"canonical"} \cup DOMAIN Libs
Errors == {"EmptySource", "NoLibrary", "UnknownParserSource"}

VARIABLES
    parsers,    \* the static Parsers map: name -> parser or NoParser
    lock,       \* holder of the ML::Spinlock guarding parsers
    loader,     \* holder of the dynamic loader's lock during dlopen
    loaded,     \* libraries whose static initialiser has completed
    pc,         \* where each thread is in its current call
    src,        \* the source argument of the thread's call
    cv,         \* does its payload start with {"!!CV":
    pending,    \* registerParser calls left in the initialiser being run
    res,        \* the parser returned or the exception thrown; "none" while busy
    regAtLookup \* history: was src registered at the first lookup

vars == <<parsers, lock, loader, loaded, pc, src, cv, pending, res, regAtLookup>>

Registered(n) == parsers[n] # NoParser

\* struct AtInit: the three canonical names are registered before main.
Init ==
    /\ parsers = [n \in Names |-> IF n \in Builtins THEN "canonical" ELSE NoParser]
    /\ lock = NoThread
    /\ loader = NoThread
    /\ loaded = {}
    /\ pc = [t \in Threads |-> "idle"]
    /\ src = [t \in Threads |-> ""]
    /\ cv = [t \in Threads |-> FALSE]
    /\ pending = [t \in Threads |-> <<>>]
    /\ res = [t \in Threads |-> "none"]
    /\ regAtLookup = [t \in Threads |-> FALSE]

\* BidRequest::parse: the empty-source check and the canonical bypass for
\* "datacratic" or a payload with the canonical marker; else getParser.
Call(t) ==
    /\ pc[t] = "idle"
    /\ \E s \in Sources, marker \in BOOLEAN :
        /\ src' = [src EXCEPT ![t] = s]
        /\ cv' = [cv EXCEPT ![t] = marker]
        /\ CASE s = "" ->
                    /\ res' = [res EXCEPT ![t] = "EmptySource"]
                    /\ UNCHANGED pc
             [] s = "datacratic" \/ marker ->
                    /\ res' = [res EXCEPT ![t] = "canonical"]
                    /\ UNCHANGED pc
             [] OTHER ->
                    /\ res' = [res EXCEPT ![t] = "none"]
                    /\ pc' = [pc EXCEPT ![t] = "lookup1"]
    /\ UNCHANGED <<parsers, lock, loader, loaded, pending, regAtLookup>>

\* Mutant: the Guard of the first lookup is not scoped, so the spinlock is
\* still held when getParser goes on to dlopen.
lockAfterMissHeld(t) == t

\* The first lookup's Guard is released at the end of its block.
lockAfterMiss(t) == NoThread

\* getParser, first block: find under the spinlock, return on a hit.
Lookup1(t) ==
    /\ pc[t] = "lookup1"
    /\ lock = NoThread
    /\ regAtLookup' = [regAtLookup EXCEPT ![t] = Registered(src[t])]
    /\ IF Registered(src[t])
       THEN /\ res' = [res EXCEPT ![t] = parsers[src[t]]]
            /\ pc' = [pc EXCEPT ![t] = "idle"]
            /\ UNCHANGED lock
       ELSE /\ pc' = [pc EXCEPT ![t] = "dlopen"]
            /\ lock' = lockAfterMiss(t)
            /\ UNCHANGED res
    /\ UNCHANGED <<parsers, loader, loaded, src, cv, pending>>

\* Mutant: dlopen does not serialise static initialisers, so two threads
\* may run the same library's initialiser at once.
DlopenUnserialised(t) ==
    /\ pc[t] = "dlopen"
    /\ CASE src[t] \notin DOMAIN Libs ->
                /\ res' = [res EXCEPT ![t] = "NoLibrary"]
                /\ pc' = [pc EXCEPT ![t] = "idle"]
                /\ UNCHANGED <<loader, pending>>
         [] src[t] \in loaded ->
                /\ pc' = [pc EXCEPT ![t] = "lookup2"]
                /\ UNCHANGED <<res, loader, pending>>
         [] OTHER ->
                /\ loader' = t
                /\ pending' = [pending EXCEPT ![t] = Libs[src[t]]]
                /\ pc' = [pc EXCEPT ![t] = "init"]
                /\ UNCHANGED res
    /\ UNCHANGED <<parsers, lock, loaded, src, cv, regAtLookup>>

\* dlopen(path, RTLD_NOW) under the loader lock: no such file throws
\* "couldn't find bid request parser library"; a loaded library returns
\* its handle; otherwise its static initialiser starts, holding the lock.
Dlopen(t) ==
    /\ pc[t] = "dlopen"
    /\ loader = NoThread
    /\ CASE src[t] \notin DOMAIN Libs ->
                /\ res' = [res EXCEPT ![t] = "NoLibrary"]
                /\ pc' = [pc EXCEPT ![t] = "idle"]
                /\ UNCHANGED <<loader, pending>>
         [] src[t] \in loaded ->
                /\ pc' = [pc EXCEPT ![t] = "lookup2"]
                /\ UNCHANGED <<res, loader, pending>>
         [] OTHER ->
                /\ loader' = t
                /\ pending' = [pending EXCEPT ![t] = Libs[src[t]]]
                /\ pc' = [pc EXCEPT ![t] = "init"]
                /\ UNCHANGED res
    /\ UNCHANGED <<parsers, lock, loaded, src, cv, regAtLookup>>

\* BidRequest::registerParser called by the library's initialiser: insert
\* under the spinlock.  A refused insert throws "already had a bid request
\* parser registered" out of a static initialiser: std::terminate, and the
\* thread never leaves dlopen.
RegisterParser(t) ==
    /\ pc[t] = "init"
    /\ pending[t] # <<>>
    /\ lock = NoThread
    /\ IF Registered(Head(pending[t]))
       THEN /\ pc' = [pc EXCEPT ![t] = "terminated"]
            /\ UNCHANGED <<parsers, pending>>
       ELSE /\ parsers' = [parsers EXCEPT ![Head(pending[t])] = src[t]]
            /\ pending' = [pending EXCEPT ![t] = Tail(@)]
            /\ UNCHANGED pc
    /\ UNCHANGED <<lock, loader, loaded, src, cv, res, regAtLookup>>

\* The initialiser returns and dlopen releases the loader lock.
InitDone(t) ==
    /\ pc[t] = "init"
    /\ pending[t] = <<>>
    /\ loaded' = loaded \cup {src[t]}
    /\ loader' = NoThread
    /\ pc' = [pc EXCEPT ![t] = "lookup2"]
    /\ UNCHANGED <<parsers, lock, src, cv, pending, res, regAtLookup>>

\* Mutant: the second block dereferences the find without comparing it
\* with parsers.end().
Lookup2Unchecked(t) ==
    /\ pc[t] = "lookup2"
    /\ lock = NoThread
    /\ res' = [res EXCEPT ![t] = parsers[src[t]]]
    /\ pc' = [pc EXCEPT ![t] = "idle"]
    /\ UNCHANGED <<parsers, lock, loader, loaded, src, cv, pending, regAtLookup>>

\* Mutant: getParser throws after dlopen without looking again.
Lookup2Skipped(t) ==
    /\ pc[t] = "lookup2"
    /\ lock = NoThread
    /\ res' = [res EXCEPT ![t] = "UnknownParserSource"]
    /\ pc' = [pc EXCEPT ![t] = "idle"]
    /\ UNCHANGED <<parsers, lock, loader, loaded, src, cv, pending, regAtLookup>>

\* getParser, last block: find under the spinlock, or throw "couldn't
\* find bid request parser for source".
Lookup2(t) ==
    /\ pc[t] = "lookup2"
    /\ lock = NoThread
    /\ res' = [res EXCEPT ![t] = IF Registered(src[t]) THEN parsers[src[t]]
                                                       ELSE "UnknownParserSource"]
    /\ pc' = [pc EXCEPT ![t] = "idle"]
    /\ UNCHANGED <<parsers, lock, loader, loaded, src, cv, pending, regAtLookup>>

\* The steps of a call in progress.
Step(t) == Lookup1(t) \/ Dlopen(t) \/ RegisterParser(t) \/ InitDone(t) \/ Lookup2(t)

Next == \E t \in Threads : Call(t) \/ Step(t)

\* The OS keeps scheduling a thread that is inside a call; a thread is
\* never obliged to make another call.
Fairness == \A t \in Threads : WF_vars(Step(t))

Spec == Init /\ [][Next]_vars /\ Fairness

-----------------------------------------------------------------------------
TypeOK ==
    /\ parsers \in [Names -> Parsers \cup {NoParser}]
    /\ lock \in Threads \cup {NoThread}
    /\ loader \in Threads \cup {NoThread}
    /\ loaded \subseteq DOMAIN Libs
    /\ pc \in [Threads -> {"idle", "lookup1", "dlopen", "init", "lookup2", "terminated"}]
    /\ src \in [Threads -> Sources]
    /\ cv \in [Threads -> BOOLEAN]
    /\ pending \in [Threads -> Seq(LibNames)]
    /\ res \in [Threads -> Parsers \cup Errors \cup {"none"}]
    /\ regAtLookup \in [Threads -> BOOLEAN]

\* Does the library named after s register s itself?
ServesItself(s) == s \in DOMAIN Libs /\ s \in ToSet(Libs[s])

\* What parse(s, payload) must give, as if the call took effect at its
\* first lookup: a name registered then gives its parser; a name whose library serves it gives
\* that library's parser however the loads of other threads interleave;
\* otherwise the error getParser reports.
Expected(t) ==
    CASE src[t] = "" -> "EmptySource"
      [] src[t] = "datacratic" \/ cv[t] -> "canonical"
      [] regAtLookup[t] \/ ServesItself(src[t]) -> parsers[src[t]]
      [] src[t] \notin DOMAIN Libs -> "NoLibrary"
      [] OTHER -> "UnknownParserSource"

\* Every finished call of BidRequest::parse returned what Expected says,
\* whatever the other threads did meanwhile: in particular a thread whose
\* first lookup missed while another thread was loading the same library
\* still finds the parser (getParser's second lookup after dlopen), and a
\* canonical name never reaches dlopen.
CallResultCorrect ==
    \A t \in Threads : pc[t] = "idle" /\ res[t] # "none" => res[t] = Expected(t)

\* Every call that is started returns: the spinlock is never held across
\* dlopen, whose initialiser takes it again in registerParser, and no
\* initialiser throws.
CallsComplete == \A t \in Threads : pc[t] # "idle" ~> pc[t] = "idle"

-----------------------------------------------------------------------------
(* Refinement: the registry with its spinlock, the loader lock and the     *)
(* two lookups implements AtomicRegistry.  A call takes effect at the      *)
(* lookup that answers it: its first lookup on a hit, or on a miss for a   *)
(* source with no library (dlopen then only reports it), else its second   *)
(* lookup.  The library whose initialiser holds the loader lock is the one *)
(* loading, with the names its initialiser has still to register.          *)

\* The call of t has taken effect and only dlopen's error is left to report.
Answered(t) == pc[t] = "dlopen" /\ src[t] \notin DOMAIN Libs

absPc == [t \in Threads |-> IF pc[t] = "idle" \/ Answered(t) THEN "idle" ELSE "busy"]
absRes == [t \in Threads |-> IF Answered(t) THEN "NoLibrary" ELSE res[t]]

AR == INSTANCE AtomicRegistry
        WITH pc <- absPc, res <- absRes,
             loading <- IF loader = NoThread THEN {} ELSE {src[loader]},
             toRegister <- IF loader = NoThread THEN <<>> ELSE pending[loader]

\* Every behaviour of BidRequest::parse, getParser and registerParser over
\* concurrent threads is one of the atomic registry: each call returns
\* what one atomic lookup at some instant inside it would return, a miss
\* for a library is only reported after that library's initialiser has
\* finished, each library's initialiser runs once and alone, and every
\* call and every load completes.
AtomicRegistrySpec == AR!Spec
=============================================================================
