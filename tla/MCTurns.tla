------------------------------- MODULE MCTurns -------------------------------
(* Small conversations.                                                      *)
(*   log     a large log, distilled as a block                               *)
(*   plain   a large text no pass accepts                                    *)
(*   report  a user text that is one test report: its own region             *)
(*   prose   a user text without regions                                     *)
EXTENDS Dedup, TLC

MCTexts == {"log", "plain", "report", "prose"}
MCFamilies == {"claude"}
MCSize == "log" :> 3 @@ "plain" :> 4 @@ "report" :> 2 @@ "prose" :> 1
MCPieces == [t \in MCTexts |-> IF t = "report" THEN <<t>> ELSE <<>>]
Injective == [t \in MCTexts |-> <<"fnv", t>>]
Colliding == [t \in MCTexts |-> "fnv"]
MCDistilled ==
  [ft \in MCFamilies \X MCTexts |->
     IF ft[2] \in {"log", "report"} THEN <<"lean", ft[2]>> ELSE Nothing]

Msg(kind, texts) == [kind |-> kind, texts |-> texts]

Assistant == Msg("assistant", <<"prose">>)
User(t) == <<Msg("user", <<t>>)>>
Tool(t) == <<Assistant, Msg("tool", <<t>>)>>
ResultTurn(ts) == <<Assistant, Msg("results", ts)>>

(* What the client may add at a turn: a user text, a tool message, or the     *)
(* results of tool calls in Anthropic's blocks, several to a message.        *)
MCDeltas ==
  {User("report"), User("prose"), Tool("log"), Tool("plain"),
   ResultTurn(<<"log">>), ResultTurn(<<"plain", "log">>),
   ResultTurn(<<"log", "log">>)}
=============================================================================
