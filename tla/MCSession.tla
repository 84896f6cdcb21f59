----------------------------- MODULE MCSession -----------------------------
(* Two providers: anthropic, which the catalog knows, and custom, which only *)
(* a config can name.  The user has configured both.                         *)
EXTENDS Session, TLC

CONSTANTS anthropic, custom, u1, u2

MCRank == [p \in Ids |-> IF p = custom THEN 0 ELSE 1]
MCCatalog == [p \in Ids |-> IF p = anthropic THEN u1 ELSE None]

Config(base) == [p \in Ids |-> [base |-> base[p], hdr |-> None]]
MCUserConfigs == {Config(anthropic :> u2 @@ custom :> u1)}

Job(mode, id, port) == [mode |-> mode, id |-> id, port |-> port]
MCJobs == {Job("all", None, 2), Job("one", custom, 1), Job("manual", None, 2)}
Sym == Permutations(Sessions)
=============================================================================
