------------------------------- MODULE Wiring -------------------------------
(* What wiring does to an agent's config file, internal/harness/wire.go.     *)
(* A config is a function from provider id to [base, hdr]: the base URL the  *)
(* agent calls and the X-Squoze-Upstream header it sends along.  A URL is    *)
(* the provider's own (Urls), a port of this machine, or None when the entry *)
(* does not set it; the path suffix that wiring carries over is abstracted.  *)
EXTENDS Naturals, FiniteSets

CONSTANTS
  Agent,        \* "opencode" or "omp"
  Ids,          \* provider ids
  Rank,         \* [Ids -> Nat]: their alphabetical order
  Urls,         \* provider URLs
  Catalog,      \* [Ids -> Urls \cup {None}]: CatalogDefaults
  PortBases,    \* the values --port may take
  None,         \* no URL
  NoFile,       \* the config file does not exist
  Broken,       \* its content does not parse
  Placeholder   \* "# created before squoze wiring\n"

Ports == {b + n : b \in PortBases, n \in 0 .. Cardinality(Ids) - 1}

Entries == [base : Urls \cup Ports \cup {None}, hdr : Urls \cup Ports \cup {None}]
Configs == [Ids -> Entries]
Contents == Configs \cup {NoFile, Broken, Placeholder}

ASSUME WiringAssumption ==
  /\ IsFiniteSet(Ids)
  /\ Rank \in [Ids -> Nat]
  /\ \A p, q \in Ids : Rank[p] = Rank[q] => p = q
  /\ PortBases \subseteq Nat /\ IsFiniteSet(PortBases)
  /\ Catalog \in [Ids -> Urls \cup {None}]
  /\ Urls \cap Ports = {} /\ None \notin Urls \cup Ports
  /\ {NoFile, Broken, Placeholder} \cap Configs = {}
  /\ NoFile \notin {Broken, Placeholder} /\ Broken # Placeholder

Unset == [base |-> None, hdr |-> None]
EmptyConfig == [p \in Ids |-> Unset]

(* The placeholder is an empty YAML document and no JSON document at all.    *)
Parses(f) ==
  f \in Configs \cup {NoFile} \cup (IF Agent = "omp" THEN {Placeholder} ELSE {})

Parsed(f) == IF f \in Configs THEN f ELSE EmptyConfig

(* The URL a provider's listener forwards to: the config's, or the catalog's.*)
Original(c, p) == IF c[p].base # None THEN c[p].base ELSE Catalog[p]

Wireable(c) == {p \in Ids : Original(c, p) # None}

PortOfFromNext(c, port, p) ==           \* mutant: port++ before it is used
  port + Cardinality({q \in Wireable(c) : Rank[q] <= Rank[p]})

PortOf(c, port, p) == port + Cardinality({q \in Wireable(c) : Rank[q] < Rank[p]})

(* WireOpenCodeAll: every provider with a known URL gets its own port. *)
WireAll(c, port) ==
  [p \in Ids |-> IF p \in Wireable(c)
                   THEN [base |-> PortOf(c, port, p), hdr |-> Original(c, p)]
                   ELSE c[p]]

(* WireOpenCode and WireOMP: one provider, and its base URL, if the config   *)
(* sets one, moves into the header.                                          *)
WireOne(c, id, port) ==
  [c EXCEPT ![id] = [base |-> port,
                     hdr  |-> IF c[id].base # None THEN c[id].base ELSE c[id].hdr]]

BackupAlways(bak, f) == IF f = NoFile THEN Placeholder ELSE f   \* mutant

(* backupOnce: the first backup is kept for ever. *)
BackupOnce(bak, f) ==
  IF bak # NoFile THEN bak ELSE IF f = NoFile THEN Placeholder ELSE f

(* restoreBackup: without a backup the config is left alone. *)
RestoreBackup(cfg, bak) == IF bak # NoFile THEN bak ELSE cfg

(* What may be left of f when os.WriteFile stops half way.  Half a JSON       *)
(* document does not parse and an empty file counts as "{}"; half a YAML     *)
(* document may well parse, with the last entries missing.                   *)
Torn(f) ==
  {Broken, EmptyConfig} \cup
    IF Agent = "omp" /\ f \in Configs
      THEN {g \in Configs : \A p \in Ids : /\ g[p].base \in {f[p].base, None}
                                          /\ g[p].hdr \in {f[p].hdr, None}}
      ELSE {}

(* A content no wiring has touched: nothing in it points at this machine. *)
Untouched(f) ==
  f \in Configs => \A p \in Ids : {f[p].base, f[p].hdr} \cap Ports = {}
=============================================================================
