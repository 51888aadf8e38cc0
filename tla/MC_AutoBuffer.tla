--------------------------- MODULE MC_AutoBuffer ---------------------------
(***************************************************************************)
(* AutoBuffer for TLC: two peers (the smallest number with a two-player    *)
(* route, and enough to lose one mid-run), pings of 0 and 60 ms (routes   *)
(* of 0, 60 and 120 ms, so that stable and unstable runs both occur),      *)
(* three titles: one eligible for auto buffer, one PAL, one that does not  *)
(* poll on SI read.                                                        *)
(***************************************************************************)
EXTENDS AutoBuffer

CONSTANTS p1, p2, g1, g2, g3

MCPeers == {p1, p2}
MCPings == {0, 60}
MCGames == {g1, g2, g3}
MCPollGames == {g1, g2}
MCPalGames == {g2}
MCManualBuffers == {0, 200}

\* The server's FindLongestRoute is deterministic: it returns one of the
\* longest routes.  Which one differs only in the identities of the two
\* players, which no property reads, so TLC lets it return a CHOSEN one.
MCFindLongestRoute ==
  IF peers = {} THEN {NoRoute}
  ELSE IF PeerPairs = {}
    THEN {[from |-> p, to |-> Null, ping |-> rtt[p]] : p \in peers}
  ELSE {CHOOSE r \in PairRoutes : \A q \in PairRoutes : q.ping <= r.ping}

\* A single ping, large enough that three equal routes exceed 100 ms.
MCStablePings == {60}

=============================================================================
