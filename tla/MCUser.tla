------------------------------- MODULE MCUser -------------------------------
(* Messages of a human word, a wrapper, a word, a wrapper and a word, where  *)
(* what is pasted into the first wrapper may hold tags and fences of its own *)
(* and the human may mention a tag or write an arrow.                        *)
EXTENDS UserText

MCTags == <<"tool_output", "file_content">>
MCFences == <<"terminal", "diff">>

H(n) == Word(n)
MCHuman == {H("h1"), H("h2"), H("h3")}
Log == Word("log")

SeqsUpTo(S, n) == UNION {[1 .. m -> S] : m \in 0 .. n}
Wrapped(opener, closer, contents) == {<<opener>> \o c \o <<closer>> : c \in contents}

Pasted == {Log, Arrow, Open("file_content"), Close("file_content"), Open("tool_output"),
           Fence("diff"), EndFence}

First ==
  Wrapped(Open("tool_output"), Close("tool_output"), SeqsUpTo(Pasted, 3))
  \cup Wrapped(Fence("terminal"), EndFence, SeqsUpTo({Log, Open("file_content"), Fence("diff")}, 3))
  \cup {<<>>, <<Half("file_content")>>, <<Open("tool_output"), Log>>, <<Half("tool_output"), Arrow>>}

Second ==
  Wrapped(Open("tool_output"), Close("tool_output"), {<<Log>>, <<Log, Log>>})
  \cup Wrapped(Open("file_content"), Close("file_content"), {<<Log, Log>>})
  \cup Wrapped(Fence("diff"), EndFence, {<<>>, <<Log, Log>>})

MCInputs ==
  {<<H("h1")>> \o a \o <<H("h2")>> \o b \o <<H("h3")>> : a \in First, b \in Second}
  \cup {<<Header, Log>> \o a \o <<H("h3")>> : a \in First}
  \cup {<<H("h1")>>, <<H("h1"), H("h2")>>}
=============================================================================
