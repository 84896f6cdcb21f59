-------------------------------- MODULE Dedup --------------------------------
(* DeduplicateHistoricalReads (internal/distill/dedup.go) as the code has    *)
(* it: a loop that notes the first turn of every hash, and a loop that       *)
(* replaces what a later turn repeats.  Transform says what that comes to by *)
(* comparing contents; the code compares their 64-bit FNV hashes.            *)
EXTENDS Turns

CONSTANT Hash     \* [Texts -> hash]: ComputeFastHash

ASSUME DedupAssumption == DOMAIN Hash = Texts

(* A message hands over all its texts as tool output, or none. *)
BlocksOf(path, c, i) ==
  IF Scanned(path, c[i]) /\ c[i].kind # "user"
    THEN [k \in DOMAIN c[i].texts |-> [turn |-> i, at |-> k, content |-> c[i].texts[k]]]
    ELSE <<>>

(* What the scanners hand over: the tool outputs of a request, in document   *)
(* order, each with the index of its message and its place in it.            *)
Blocks(path, c) ==
  LET upTo[i \in 0 .. Len(c)] ==
        IF i = 0 THEN <<>> ELSE upTo[i - 1] \o BlocksOf(path, c, i)
  IN  upTo[Len(c)]

Large(b) == Size[b.content] >= DedupMinBytes

(* The first loop's body: a hash is written on first sight only. *)
Note(firstTurn, b) ==
  IF Large(b) /\ Hash[b.content] \notin DOMAIN firstTurn
    THEN [h \in DOMAIN firstTurn \cup {Hash[b.content]} |->
            IF h = Hash[b.content] THEN b.turn ELSE firstTurn[h]]
    ELSE firstTurn

FirstTurns(blocks) ==
  LET noted[n \in 0 .. Len(blocks)] ==
        IF n = 0 THEN [h \in {} |-> 0] ELSE Note(noted[n - 1], blocks[n])
  IN  noted[Len(blocks)]

LaterOrSame(b, firstTurn) ==            \* mutant: >= for >
  Large(b) /\ b.turn >= firstTurn[Hash[b.content]]

(* Two copies in one message are both kept. *)
Later(b, firstTurn) == Large(b) /\ b.turn > firstTurn[Hash[b.content]]

(* The second loop; fewer than two blocks come back as they are. *)
Deduplicated(blocks) ==
  LET firstTurn == FirstTurns(blocks)
  IN  [n \in DOMAIN blocks |->
        LET b == blocks[n]
        IN  IF Len(blocks) >= 2 /\ Later(b, firstTurn)
              THEN <<"repeat", [first |-> firstTurn[Hash[b.content]], of |-> b.content]>>
              ELSE <<"copy", b.content>>]

(* The loops and their hashes replace the blocks Transform says, by the      *)
(* references it says, and the copy a reference names is one that stays      *)
(* (dedup.go:38-55): for as long as no two blocks share a hash.              *)
DedupLosesNothing ==
  LET path   == Path(conv)
      blocks == Blocks(path, conv)
      out    == Deduplicated(blocks)
  IN  \A n \in DOMAIN blocks :
        LET target == <<blocks[n].turn, blocks[n].at>>
        IN  /\ out[n] = IF Repeats(path, conv, target)
                          THEN <<"repeat", DedupMarker(path, conv, target)>>
                          ELSE <<"copy", TextAt(conv, target)>>
            /\ out[n][1] = "repeat" =>
                 \E m \in 1 .. n - 1 :
                   /\ blocks[m].turn = out[n][2].first
                   /\ out[m] = <<"copy", blocks[n].content>>
=============================================================================
