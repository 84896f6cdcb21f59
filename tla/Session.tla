------------------------------ MODULE Session ------------------------------
(* `sq opencode` and `sq omp` from start to exit: cmd/squoze/agent.go wires  *)
(* the agent's config file (internal/harness/wire.go), internal/wrap runs    *)
(* the listeners and the agent, and OnExit restores the backup.  Several     *)
(* sessions, the user's editor and `--unwire` share the one config file and  *)
(* its backup; nothing locks them, so every file operation is a step, and    *)
(* one that may fail or be cut short by a kill.                              *)
EXTENDS Wiring

CONSTANTS
  Sessions,     \* squoze processes
  DefaultId,    \* the provider wired alone when the file lists none
  Fallback,     \* the URL of --upstream, used when no header names another
  Jobs,         \* the command lines in use: a mode, a provider and a port, with
                \* "all" for no flag, "one" for --provider (and omp), "manual"
  UserConfigs,  \* configs a user may write: real URLs only, no routing header
  MaxUpsets     \* bound on edits, killed sessions and I/O errors, together

ASSUME SessionAssumption ==
  /\ DefaultId \in Ids /\ Fallback \in Urls
  /\ Jobs \subseteq [mode : {"all", "one", "manual"}, id : Ids \cup {None}, port : PortBases]
  /\ \A j \in Jobs : j.mode = "one" => j.id \in Ids
  /\ UserConfigs \subseteq [Ids -> [base : Urls \cup {None}, hdr : {None}]]
  /\ MaxUpsets \in Nat

VARIABLES
  cfg,          \* the config file
  bak,          \* <config>.squoze-bak
  pc,           \* what each session does next
  job,          \* each session's [mode, id, port]
  data,         \* the content its wiring has read
  asWired,      \* whether its agent has read just what its wiring wrote
  upsets        \* edits, kills and I/O errors so far

vars == <<cfg, bak, pc, job, data, asWired, upsets>>

NoJob == [mode |-> "none", id |-> None, port |-> 0]

UserFiles == UserConfigs \cup {NoFile, Broken}

Init ==
  /\ cfg \in UserFiles
  /\ bak = NoFile
  /\ pc = [s \in Sessions |-> "idle"]
  /\ job = [s \in Sessions |-> NoJob]
  /\ data = [s \in Sessions |-> NoFile]
  /\ asWired = [s \in Sessions |-> FALSE]
  /\ upsets = 0
-----------------------------------------------------------------------------
(* The listeners of a session, and where each forwards a request that names  *)
(* no upstream of its own.                                                   *)

RoutesOfOne(s) ==                       \* mutant: the handlers share a loop variable
  LET c == Parsed(data[s])
  IN  IF job[s].mode = "all"
        THEN [k \in {PortOf(c, job[s].port, p) : p \in Wireable(c)} |->
                Original(c, CHOOSE p \in Wireable(c) : TRUE)]
        ELSE [k \in {job[s].port} |-> Fallback]

Routes(s) ==
  LET c == Parsed(data[s])
  IN  IF job[s].mode = "all"
        THEN [k \in {PortOf(c, job[s].port, p) : p \in Wireable(c)} |->
                Original(c, CHOOSE p \in Wireable(c) : PortOf(c, job[s].port, p) = k)]
        ELSE [k \in {job[s].port} |-> Fallback]

Running == {s \in Sessions : pc[s] = "running"}

Upstream(k) ==
  LET here == {s \in Running : k \in DOMAIN Routes(s)}
  IN  IF here = {} THEN None ELSE Routes(CHOOSE s \in here : TRUE)[k]

(* Where a request for url ends: a proxy strips the routing header, so every *)
(* hop after the first follows the listener's own upstream.                  *)
Reached(url) ==
  LET hop[n \in 0 .. Cardinality(Ports)] ==
        IF n = 0 THEN url
        ELSE IF hop[n - 1] \in Ports THEN Upstream(hop[n - 1]) ELSE hop[n - 1]
  IN  hop[Cardinality(Ports)]

(* Where an agent is answered from that calls a provider with this entry.    *)
(* Some providers' SDKs drop the headers of the config (sent is false), and  *)
(* their requests go where the listener goes by itself.                      *)
Answers(entry, sent) ==
  IF sent /\ entry.base \in Ports /\ Upstream(entry.base) # None /\ entry.hdr # None
    THEN Reached(entry.hdr) ELSE Reached(entry.base)
-----------------------------------------------------------------------------
(* A session.  Wiring reads the file, saves the backup, parses, and writes.  *)

Start(s, j) ==
  /\ pc[s] = "idle"
  /\ pc' = [pc EXCEPT ![s] = IF j.mode = "manual" THEN "ready" ELSE "reading"]
  /\ job' = [job EXCEPT ![s] = j]
  /\ UNCHANGED <<cfg, bak, data, asWired, upsets>>

Read(s) ==
  /\ pc[s] = "reading"
  /\ data' = [data EXCEPT ![s] = cfg]
  /\ pc' = [pc EXCEPT ![s] = "read"]
  /\ UNCHANGED <<cfg, bak, job, asWired, upsets>>

(* The wiring ends without a wired file.  WireOpenCodeAll is followed by an   *)
(* attempt to wire one provider; after that the session serves --upstream    *)
(* only.                                                                     *)
GiveUp(s) ==
  /\ data' = [data EXCEPT ![s] = NoFile]
  /\ IF job[s].mode = "all"
       THEN pc' = [pc EXCEPT ![s] = "choosing"] /\ UNCHANGED job
       ELSE /\ pc' = [pc EXCEPT ![s] = "ready"]
            /\ job' = [job EXCEPT ![s].mode = "fallback"]

(* opencode is backed up before its content is parsed, omp after. *)
BacksUp(s) == Parses(data[s]) \/ Agent = "opencode"

Backup(s) ==
  /\ pc[s] = "read"
  /\ IF BacksUp(s) THEN bak' = BackupOnce(bak, data[s]) ELSE UNCHANGED bak
  /\ IF Parses(data[s])
       THEN pc' = [pc EXCEPT ![s] = "saved"] /\ UNCHANGED <<job, data>>
       ELSE GiveUp(s)
  /\ UNCHANGED <<cfg, asWired, upsets>>

(* The ids the file may list first: an entry that sets neither URL is not    *)
(* told from one that is not there.                                          *)
FirstIds(f) ==
  IF f \in Configs
    THEN {p \in Ids : \A q \in Ids : f[q] # Unset => Rank[p] <= Rank[q]}
    ELSE {DefaultId}

Upset == upsets < MaxUpsets /\ upsets' = upsets + 1

(* OpenCodeProviderIDs reads the file once more; one that cannot be read     *)
(* lists no provider.                                                        *)
Choose(s) ==
  /\ pc[s] = "choosing"
  /\ \E id \in FirstIds(cfg) \cup {DefaultId} :
       /\ job' = [job EXCEPT ![s] = [mode |-> "one", id |-> id, port |-> job[s].port]]
       /\ IF id \in FirstIds(cfg) THEN UNCHANGED upsets ELSE Upset
  /\ pc' = [pc EXCEPT ![s] = "reading"]
  /\ UNCHANGED <<cfg, bak, data, asWired>>

Wired(s) ==
  LET c == Parsed(data[s])
  IN  IF job[s].mode = "all" THEN WireAll(c, job[s].port)
                             ELSE WireOne(c, job[s].id, job[s].port)

Unchanged(s) == job[s].mode = "all" /\ Wired(s) = data[s]

Write(s) ==
  /\ pc[s] = "saved"
  /\ cfg' = IF Unchanged(s) THEN cfg ELSE Wired(s)
  /\ pc' = [pc EXCEPT ![s] = "ready"]
  /\ UNCHANGED <<bak, job, data, asWired, upsets>>

(* wrap.Run listens and starts the agent, which reads its config. *)
Serve(s) ==
  /\ pc[s] = "ready"
  /\ DOMAIN Routes(s) # {}
  /\ \A t \in Running : DOMAIN Routes(s) \cap DOMAIN Routes(t) = {}
  /\ pc' = [pc EXCEPT ![s] = "running"]
  /\ asWired' = [asWired EXCEPT ![s] = job[s].mode \in {"all", "one"} /\ cfg = Wired(s)]
  /\ UNCHANGED <<cfg, bak, job, data, upsets>>

Gone(s) ==
  /\ pc' = [pc EXCEPT ![s] = "idle"]
  /\ job' = [job EXCEPT ![s] = NoJob]
  /\ data' = [data EXCEPT ![s] = NoFile]
  /\ asWired' = [asWired EXCEPT ![s] = FALSE]

(* The originals store, the log file or a listener fails: wrap.Run returns   *)
(* before it has deferred OnExit.                                            *)
RunFails(s) ==
  /\ pc[s] = "ready"
  /\ Gone(s)
  /\ UNCHANGED <<cfg, bak, upsets>>

(* The agent exits, was interrupted, or did not start (as if with code 1):   *)
(* OnExit restores, in every mode.                                           *)
AgentExits(s) ==
  /\ pc[s] = "running"
  /\ cfg' = RestoreBackup(cfg, bak)
  /\ Gone(s)
  /\ UNCHANGED <<bak, upsets>>

RestoreStops ==
  /\ bak # NoFile
  /\ cfg' \in {cfg} \cup Torn(bak) /\ UNCHANGED bak

(* The next file operation of s stops before its end: a read, the first      *)
(* backup, the write of the wired file, or the restoring write.              *)
Stops(s) ==
  \/ pc[s] = "reading" /\ cfg # NoFile /\ UNCHANGED <<cfg, bak>>
  \/ /\ pc[s] = "read" /\ bak = NoFile /\ BacksUp(s)
     /\ bak' \in {NoFile} \cup Torn(BackupOnce(NoFile, data[s])) /\ UNCHANGED cfg
  \/ /\ pc[s] = "saved" /\ ~Unchanged(s)
     /\ cfg' \in {cfg} \cup Torn(Wired(s)) /\ UNCHANGED bak
  \/ pc[s] = "running" /\ RestoreStops

(* An I/O error while wiring. *)
WiringFails(s) ==
  /\ pc[s] # "running" /\ Stops(s)
  /\ GiveUp(s) /\ Upset
  /\ UNCHANGED asWired

(* A kill, in the middle of a file operation or not, or an I/O error while   *)
(* OnExit restores: it is printed, and the session ends as ever.             *)
Killed(s) ==
  /\ pc[s] # "idle"
  /\ Stops(s) \/ UNCHANGED <<cfg, bak>>
  /\ Gone(s) /\ Upset

(* `squoze agent <name> --unwire` *)
Unwire ==
  /\ cfg' = RestoreBackup(cfg, bak)
  /\ UNCHANGED <<bak, pc, job, data, asWired, upsets>>

UnwireFails == RestoreStops /\ Upset /\ UNCHANGED <<pc, job, data, asWired>>

(* The user rewrites the file, or sets one provider's URL in it. *)
Edit ==
  /\ Upset
  /\ \/ cfg' \in UserFiles
     \/ cfg \in Configs /\ \E p \in Ids, u \in Urls : cfg' = [cfg EXCEPT ![p].base = u]
  /\ UNCHANGED <<bak, pc, job, data, asWired>>

Next ==
  \/ Unwire \/ UnwireFails \/ Edit
  \/ \E s \in Sessions :
       \/ \E j \in Jobs : Start(s, j)
       \/ Read(s) \/ Backup(s) \/ Choose(s) \/ Write(s) \/ Serve(s)
       \/ RunFails(s) \/ AgentExits(s) \/ WiringFails(s) \/ Killed(s)

Spec == Init /\ [][Next]_vars
-----------------------------------------------------------------------------
(* Every variable has its type. *)
TypeOK ==
  /\ cfg \in Contents /\ bak \in Contents
  /\ pc \in [Sessions -> {"idle", "reading", "read", "choosing", "saved", "ready", "running"}]
  /\ job \in [Sessions -> [mode : {"all", "one", "manual", "fallback", "none"},
                           id : Ids \cup {None}, port : PortBases \cup {0}]]
  /\ data \in [Sessions -> Contents] /\ asWired \in [Sessions -> BOOLEAN]
  /\ upsets \in 0 .. MaxUpsets

(* The backup never holds an address squoze wrote: whatever the order in     *)
(* which sessions read, save, write, die and restore, the content saved as   *)
(* the user's own is the user's own (wire.go:374-386, the reason why the     *)
(* first backup is never overwritten).                                       *)
BackupIsUsers == Untouched(bak)

(* Restoring leaves no entry that points at a listener, even when another    *)
(* session has wired the file since (wire.go:388-398, agent.go:151-154).     *)
RestoredIsDirect ==
  [][\A s \in Sessions :
       (pc[s] = "running" /\ pc'[s] = "idle" /\ upsets' = upsets) => Untouched(cfg')]_vars

(* The URL the user gave a provider, or else its well-known one. *)
ProviderUrl(c, p) == IF c[p].base = None THEN Catalog[p] ELSE c[p].base

(* A session whose file was the user's when it wired it, and was still as    *)
(* written when the agent read it, answers every call to a provider from the *)
(* provider, whatever the other sessions do meanwhile: with a listener for   *)
(* each provider, whether or not the headers of the config are sent; with    *)
(* one for all, when the one provider it wired has a URL in the file and its *)
(* headers are sent (wire.go:106-111, wrap.go:95-113, 161-164).              *)
FirstWiringReaches ==
  \A s \in Running :
    LET c == Parsed(data[s])
    IN  (job[s].mode \in {"all", "one"} /\ Untouched(data[s]) /\ asWired[s]) =>
          \A p \in Ids, sent \in BOOLEAN :
            (IF job[s].mode = "all" THEN ProviderUrl(c, p) # None
                                    ELSE c[p].base # None /\ (p = job[s].id => sent)) =>
              Answers(Wired(s)[p], sent) = ProviderUrl(c, p)
-----------------------------------------------------------------------------
(* "Original string // real provider URL the proxy must forward to"          *)
(* (wire.go:103): a listener forwards to a provider.                         *)
ForwardsToProvider ==
  \A s \in Running : \A k \in DOMAIN Routes(s) : Routes(s)[k] \in Urls

(* "so the proxy forwards each request to ITS provider" (wire.go:272-273),   *)
(* of the one provider wired by --provider too.                              *)
EachToItsProvider ==
  \A s \in Running :
    LET c == Parsed(data[s])
    IN  (job[s].mode = "one" /\ Untouched(data[s]) /\ asWired[s]) =>
          \A p \in Ids, sent \in BOOLEAN :
            c[p].base # None => Answers(Wired(s)[p], sent) = ProviderUrl(c, p)

(* "UnwireOpenCode restores the pre-wire backup of the opencode config"      *)
(* (wire.go:305): a session that is not killed leaves the file its wiring    *)
(* had read.                                                                 *)
UnwireRestores ==
  [][\A s \in Running :
       (/\ pc'[s] = "idle" /\ upsets' = upsets
        /\ data[s] \in UserConfigs) => cfg' = data[s]]_vars

(* "do NOT touch the config" (agent.go:43): no step of a --manual session    *)
(* changes the file.                                                         *)
ManualLeavesConfig ==
  [][\A s \in Sessions :
       (job[s].mode = "manual" /\ pc'[s] # pc[s]) => cfg' = cfg]_vars

(* "unwinds the config when it exits" (agent.go:196-197): a session that     *)
(* ends without being killed leaves no wiring behind.                        *)
ExitUnwinds ==
  [][\A s \in Sessions :
       (pc[s] # "idle" /\ pc'[s] = "idle" /\ upsets' = upsets) => Untouched(cfg')]_vars

(* "can be reverted with Unwire*" (wire.go:2-3): restoring never makes a     *)
(* file unreadable that wiring could read.                                   *)
RestoredParses ==
  [][\A s \in Running :
       (pc'[s] = "idle" /\ upsets' = upsets /\ Parses(cfg)) => Parses(cfg')]_vars
=============================================================================
