------------------------------ MODULE MCEngine ------------------------------
(* A small engine: five texts, three request bodies, two model families.     *)
(*   log    a large log: both families distil it, differently                *)
(*   diff   a diff below the dedup floor                                     *)
(*   plain  large text that no pass accepts                                  *)
(*   tiny   below the block floor                                            *)
(*   ask    a user text with a log and a diff region                         *)
EXTENDS Engine, TLC

MCTexts == {"log", "diff", "plain", "tiny", "ask"}
MCFamilies == {"claude", "generic"}
MCSize == "log" :> 3 @@ "diff" :> 1 @@ "plain" :> 3 @@ "tiny" :> 0 @@ "ask" :> 4
MCPieces == [t \in MCTexts |-> IF t = "ask" THEN <<"log", "diff">> ELSE <<>>]
MCDistilled ==
  [ft \in MCFamilies \X MCTexts |->
     CASE ft[2] = "log" -> <<"squeezed", ft[1], "log">>
       [] ft[2] \in {"diff", "tiny"} -> <<"lean", ft[2]>>
       [] OTHER -> Nothing]

Msg(kind, texts) == [kind |-> kind, texts |-> texts]

(* A chat with a user region, a miss that no pass accepts and its repeat. *)
Chat == <<Msg("user", <<"ask">>), Msg("tool", <<"plain">>), Msg("tool", <<"plain">>)>>
(* A chat that re-reads a log, around an assistant turn. *)
ReRead == <<Msg("tool", <<"log">>), Msg("assistant", <<"tiny">>), Msg("tool", <<"log">>)>>
(* Anthropic blocks: two texts in one turn, one of them tiny, then a diff. *)
Blocks == <<Msg("results", <<"log", "tiny">>), Msg("user", <<"ask">>),
            Msg("results", <<"diff">>)>>

MCConversations == {Chat, ReRead, Blocks}
=============================================================================
