-------------------------------- MODULE MCServer --------------------------------
(* Values of the constants of Server for TLC, with those of RequestGate.   *)
EXTENDS Server, TLC

CONSTANTS client, victim, proxy,    \* addresses
          garbage                   \* no address

TheSpellings == {client, victim, proxy, garbage}

TheParse == [s \in TheSpellings |-> IF s = garbage THEN NoAddr ELSE s]

TheEnvironments ==
    [port: {0, 1, 65536}, env: {"staging", "test"}, proxies: {{proxy, Blank}, {proxy, garbage}}]
=============================================================================
