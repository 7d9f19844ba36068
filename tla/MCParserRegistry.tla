--------------------------- MODULE MCParserRegistry ---------------------------
EXTENDS ParserRegistry

CONSTANTS t1, t2

MCThreads == {t1, t2}

\* liba serves "a" and also registers "b", which has no library of its own;
\* libx exists but registers nothing.
MCLibs == [s \in {"a", "x"} |-> IF s = "a" THEN <<"a", "b">> ELSE <<>>]

\* "zz" has neither a library nor a registration.
MCOthers == {"a", "b", "x", "zz"}
=============================================================================
