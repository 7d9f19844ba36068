---------------------------- MODULE AtomicRegistry ----------------------------
(***************************************************************************)
(* What the parser registry of src/common/bid_request.cc promises its      *)
(* callers, with no locks and no dynamic loader: each call of              *)
(* BidRequest::parse takes effect in one step, at which it returns the     *)
(* parser registered for its source, or "couldn't find bid request parser *)
(* library" when no library is named after the source, or "couldn't find  *)
(* bid request parser for source" once that library has been loaded and   *)
(* has not registered it.  A library is loaded at most once, while a call  *)
(* for it is in progress, and registers its names one after another.       *)
(***************************************************************************)
EXTENDS Naturals, Sequences, SequencesExt

CONSTANTS
    Threads,    \* callers of BidRequest::parse
    Libs,       \* the parser libraries: source -> <<names it registers>>
    Others,     \* source names passed to parse besides the canonical ones
    NoParser    \* the name is not registered

Builtins == {"recoset", "datacratic", "rtbkit"}
Names == Builtins \cup Others \cup UNION {ToSet(Libs[l]) : l \in DOMAIN Libs}
Sources == {""} \cup Names

VARIABLES
    parsers,    \* name -> parser or NoParser
    loaded,     \* libraries whose names are all registered
    loading,    \* the library being loaded: {} or {l}
    toRegister, \* the names it has still to register
    pc,         \* "idle" or "busy" in a call
    src,        \* the source of the thread's call
    res         \* the result of its last call; "none" while busy

avars == <<parsers, loaded, loading, toRegister, pc, src, res>>

Registered(n) == parsers[n] # NoParser

Init ==
    /\ parsers = [n \in Names |-> IF n \in Builtins THEN "canonical" ELSE NoParser]
    /\ loaded = {}
    /\ loading = {}
    /\ toRegister = <<>>
    /\ pc = [t \in Threads |-> "idle"]
    /\ src = [t \in Threads |-> ""]
    /\ res = [t \in Threads |-> "none"]

\* A call starts; the empty source and the canonical names answer at once.
Call(t) ==
    /\ pc[t] = "idle"
    /\ \E s \in Sources, marker \in BOOLEAN :
        /\ src' = [src EXCEPT ![t] = s]
        /\ CASE s = "" -> res' = [res EXCEPT ![t] = "EmptySource"] /\ UNCHANGED pc
             [] s = "datacratic" \/ marker -> res' = [res EXCEPT ![t] = "canonical"] /\ UNCHANGED pc
             [] OTHER -> res' = [res EXCEPT ![t] = "none"] /\ pc' = [pc EXCEPT ![t] = "busy"]
    /\ UNCHANGED <<parsers, loaded, loading, toRegister>>

\* The answer a call takes when it takes effect now.
Answer(t) ==
    CASE Registered(src[t])       -> parsers[src[t]]
      [] src[t] \notin DOMAIN Libs -> "NoLibrary"
      [] OTHER                     -> "UnknownParserSource"

\* The call takes effect: never a miss for a library not yet loaded.
Finish(t) ==
    /\ pc[t] = "busy"
    /\ Registered(src[t]) \/ src[t] \notin DOMAIN Libs \/ src[t] \in loaded
    /\ res' = [res EXCEPT ![t] = Answer(t)]
    /\ pc' = [pc EXCEPT ![t] = "idle"]
    /\ UNCHANGED <<parsers, loaded, loading, toRegister, src>>

\* The library named after a pending call starts loading, one at a time.
StartLoad(t) ==
    /\ pc[t] = "busy"
    /\ src[t] \in DOMAIN Libs \ loaded
    /\ loading = {}
    /\ loading' = {src[t]}
    /\ toRegister' = Libs[src[t]]
    /\ UNCHANGED <<parsers, loaded, pc, src, res>>

\* The loading library registers its next name, never one already taken.
Register ==
    /\ toRegister # <<>>
    /\ ~Registered(Head(toRegister))
    /\ parsers' = [parsers EXCEPT ![Head(toRegister)] = CHOOSE l \in loading : TRUE]
    /\ toRegister' = Tail(toRegister)
    /\ UNCHANGED <<loaded, loading, pc, src, res>>

EndLoad ==
    /\ loading # {}
    /\ toRegister = <<>>
    /\ loaded' = loaded \cup loading
    /\ loading' = {}
    /\ UNCHANGED <<parsers, toRegister, pc, src, res>>

Next ==
    \/ \E t \in Threads : Call(t) \/ Finish(t) \/ StartLoad(t)
    \/ Register \/ EndLoad

\* A call in progress takes effect, and a load once started completes.
Spec == /\ Init /\ [][Next]_avars
        /\ \A t \in Threads : WF_avars(Finish(t)) /\ WF_avars(StartLoad(t))
        /\ WF_avars(Register) /\ WF_avars(EndLoad)
=============================================================================
