------------------------------- MODULE MCChat -------------------------------
(* Instances of Chat for TLC.                                            *)
EXTENDS Chat, TLC

CONSTANTS s, c1, c2, o

AllShort == Lines
NoAddressShort == Lines \ Addresses
\* The address of c1 is longer than the buffer of the prompts, the others fit.
SomeShort == Lines \ {c1}

\* Faults: c1 talks twice over a link that may fail, c2 listens and may die,
\* and the server may quit or die.
FaultSays == (s :> {"quit"}) @@ (c1 :> {"hello"}) @@ (c2 :> {"hello"})
FaultLines == (s :> 1) @@ (c1 :> 2) @@ (c2 :> 0)

\* Liveness: c1 talks twice, c2 listens, lists connections and may die.
LiveSays == (s :> {}) @@ (c1 :> {"hello"}) @@ (c2 :> {"getconnectionlist"})
LiveLines == (s :> 0) @@ (c1 :> 2) @@ (c2 :> 1)

\* Limit: two clients want the one connection, c1 and the server may quit.
LimitSays == (s :> {"quit"}) @@ (c1 :> {"hello", "quit"}) @@ (c2 :> {})
LimitLines == (s :> 1) @@ (c1 :> 1) @@ (c2 :> 0)

\* Console: the server's operator bans, pings and talks, also ahead of the
\* prompts, and a client talks.
ConsoleSays == (s :> {"ban", "pingip", "getconnectionlist", "hello"})
               @@ (c1 :> {"hello"}) @@ (c2 :> {})
ConsoleLines == (s :> 3) @@ (c1 :> 1) @@ (c2 :> 0)

\* Ban: the server's operator bans an address.
BanSays == (s :> {"ban"}) @@ (c1 :> {}) @@ (c2 :> {})
BanLines == (s :> 2) @@ (c1 :> 0) @@ (c2 :> 0)
=============================================================================
