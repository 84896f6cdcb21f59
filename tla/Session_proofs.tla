--------------------------- MODULE Session_proofs ---------------------------
(* What TLAPS proves of Session, for any number of sessions, providers,      *)
(* ports, edits and kills, and for both agents.                              *)
EXTENDS Session, Functions, FiniteSetTheorems, WellFoundedInduction, TLAPS

PCs == {"idle", "reading", "read", "choosing", "saved", "ready", "running"}
JobTypes ==
  [mode : {"all", "one", "manual", "fallback", "none"}, id : Ids \cup {None}, port : PortBases \cup {0}]

(* A job that wires has a port, and a provider unless it wires them all. *)
JobsAreComplete ==
  \A s \in Sessions :
    /\ pc[s] \in {"reading", "read", "choosing", "saved"} => job[s].mode \in {"all", "one"}
    /\ job[s].mode \in {"all", "one"} => job[s].port \in PortBases
    /\ job[s].mode = "one" => job[s].id \in Ids

(* The first backup is taken from a file nothing had wired, and until it     *)
(* exists neither the file nor what a session has read of it is wired.       *)
BackupFirst ==
  /\ Untouched(bak)
  /\ bak = NoFile => Untouched(cfg) /\ \A s \in Sessions : Untouched(data[s])
  /\ \A s \in Sessions : pc[s] = "saved" => bak # NoFile

(* A port handed out by WireOpenCodeAll is one of the machine's. *)
LEMMA PortsAreTyped ==
  ASSUME NEW c \in Configs, NEW port \in PortBases, NEW p \in Ids
  PROVE  PortOf(c, port, p) \in Ports
<1> DEFINE below == {q \in Wireable(c) : Rank[q] < Rank[p]}
<1>1. below \subseteq Ids \ {p}
  <2>1. Rank[p] \in Nat
    BY WiringAssumption
  <2> QED
    BY <2>1 DEF Wireable
<1>2. IsFiniteSet(Ids) /\ IsFiniteSet(Ids \ {p})
  BY WiringAssumption, FS_RemoveElement
<1>3. Cardinality(Ids \ {p}) = Cardinality(Ids) - 1
  BY <1>2, FS_RemoveElement
<1>4. Cardinality(below) <= Cardinality(Ids \ {p})
  BY <1>1, <1>2, FS_Subset
<1>5. Cardinality(below) \in Nat /\ Cardinality(Ids) \in Nat
  BY <1>1, <1>2, FS_Subset, FS_CardinalityType
<1>6. Cardinality(below) \in 0 .. Cardinality(Ids) - 1
  BY <1>3, <1>4, <1>5
<1>7. PortOf(c, port, p) = port + Cardinality(below)
  BY DEF PortOf
<1> HIDE DEF below
<1> QED
  BY <1>6, <1>7 DEF Ports

(* A configured port is one of the machine's as soon as a provider exists. *)
LEMMA BasesArePorts ==
  ASSUME NEW port \in PortBases, NEW p \in Ids
  PROVE  port \in Ports
<1>1. Cardinality(Ids) \in Nat /\ Cardinality(Ids) # 0
  BY WiringAssumption, FS_CardinalityType, FS_EmptySet
<1>2. 0 \in 0 .. Cardinality(Ids) - 1 /\ port + 0 = port
  BY <1>1, WiringAssumption
<1> QED
  BY <1>2 DEF Ports

LEMMA EmptyIsConfig == EmptyConfig \in Configs /\ Untouched(EmptyConfig)
BY WiringAssumption DEF EmptyConfig, Unset, Configs, Entries, Untouched

LEMMA ParsedIsConfig == ASSUME NEW f PROVE Parsed(f) \in Configs
BY EmptyIsConfig DEF Parsed

(* Wiring yields a config again. *)
LEMMA WiringIsTyped ==
  ASSUME NEW c \in Configs, NEW port \in PortBases
  PROVE  /\ WireAll(c, port) \in Configs
         /\ \A id \in Ids : WireOne(c, id, port) \in Configs
<1>1. ASSUME NEW p \in Ids
      PROVE  /\ c[p] \in Entries
             /\ Original(c, p) \in Urls \cup Ports \cup {None}
             /\ PortOf(c, port, p) \in Ports
  BY PortsAreTyped, WiringAssumption DEF Configs, Entries, Original
<1>2. WireAll(c, port) \in Configs
  <2>1. ASSUME NEW p \in Ids
        PROVE  [base |-> PortOf(c, port, p), hdr |-> Original(c, p)] \in Entries
    BY <1>1 DEF Entries
  <2> QED
    BY <1>1, <2>1 DEF WireAll, Configs
<1>3. ASSUME NEW id \in Ids PROVE WireOne(c, id, port) \in Configs
  <2>1. port \in Ports
    BY BasesArePorts
  <2>2. [base |-> port, hdr |-> IF c[id].base # None THEN c[id].base ELSE c[id].hdr]
          \in Entries
    BY <1>1, <2>1 DEF Entries
  <2> QED
    BY <2>2 DEF WireOne, Configs
<1> QED
  BY <1>2, <1>3

(* What a user writes is a config and points at no listener. *)
LEMMA UsersAreUntouched ==
  ASSUME NEW f \in UserFiles PROVE f \in Contents /\ Untouched(f)
<1>1. UserConfigs \subseteq Configs
  BY SessionAssumption DEF Configs, Entries
<1>2. \A p \in Ids : f \in UserConfigs => f[p].base \in Urls \cup {None} /\ f[p].hdr = None
  BY SessionAssumption
<1>3. Broken \notin Configs /\ NoFile \notin Configs
  BY WiringAssumption
<1> QED
  BY <1>1, <1>2, <1>3, WiringAssumption DEF UserFiles, Contents, Untouched

LEMMA SpecialsAreUntouched ==
  Untouched(NoFile) /\ Untouched(Broken) /\ Untouched(Placeholder)
BY WiringAssumption DEF Untouched

(* What is left of a file is a content, and points at a listener only if the *)
(* whole did.                                                                *)
LEMMA TornIsTyped ==
  ASSUME NEW f, NEW g \in Torn(f)
  PROVE  g \in Contents /\ g # NoFile /\ (Untouched(f) => Untouched(g))
<1>1. CASE g \in {Broken, EmptyConfig}
  <2>1. Broken \in Contents /\ EmptyConfig \in Contents
    BY EmptyIsConfig DEF Contents
  <2>2. Broken # NoFile /\ EmptyConfig # NoFile
    BY EmptyIsConfig, WiringAssumption
  <2> QED BY <1>1, <2>1, <2>2, EmptyIsConfig, SpecialsAreUntouched
<1>2. CASE /\ f \in Configs /\ g \in Configs
           /\ \A p \in Ids : g[p].base \in {f[p].base, None} /\ g[p].hdr \in {f[p].hdr, None}
  <2>1. g \in Contents /\ g # NoFile
    BY <1>2, WiringAssumption DEF Contents
  <2>2. Untouched(f) => Untouched(g)
    BY <1>2, WiringAssumption DEF Untouched
  <2> QED BY <2>1, <2>2
<1> QED BY <1>1, <1>2 DEF Torn

(* A file operation that stops half way leaves contents, and neither file    *)
(* points at a listener unless it did or a session was just writing that.    *)
LEMMA StopsAreTyped ==
  ASSUME TypeOK, JobsAreComplete, NEW s \in Sessions, Stops(s)
  PROVE  cfg' \in Contents /\ bak' \in Contents
<1> USE DEF TypeOK
<1>1. CASE pc[s] = "reading" /\ cfg # NoFile /\ UNCHANGED <<cfg, bak>>
  BY <1>1
<1>2. CASE /\ bak' \in {NoFile} \cup Torn(BackupOnce(NoFile, data[s])) /\ UNCHANGED cfg
  BY <1>2, TornIsTyped DEF Contents
<1>3. CASE /\ cfg' \in {cfg} \cup Torn(Wired(s)) /\ UNCHANGED bak
  BY <1>3, TornIsTyped
<1>4. CASE RestoreStops
  BY <1>4, TornIsTyped DEF RestoreStops
<1> QED BY <1>1, <1>2, <1>3, <1>4 DEF Stops

(* Every variable keeps its type, every wired port included. *)
THEOREM TypeCorrect == Spec => [](TypeOK /\ JobsAreComplete)
<1>1. Init => TypeOK /\ JobsAreComplete
  BY UsersAreUntouched, SessionAssumption
  DEF Init, TypeOK, JobsAreComplete, NoJob, Contents
<1>2. TypeOK /\ JobsAreComplete /\ [Next]_vars => (TypeOK /\ JobsAreComplete)'
  <2> SUFFICES ASSUME TypeOK, JobsAreComplete, [Next]_vars
               PROVE  TypeOK' /\ JobsAreComplete'
    OBVIOUS
  <2> USE DEF TypeOK, JobsAreComplete
  <2>0. bak \in Contents /\ cfg \in Contents /\ RestoreBackup(cfg, bak) \in Contents
    BY DEF RestoreBackup
  <2>j. \A j \in Jobs : j \in [mode : {"all", "one", "manual", "fallback", "none"},
                               id : Ids \cup {None}, port : PortBases \cup {0}]
    BY SessionAssumption
  <2>1. CASE Unwire
    BY <2>1, <2>0 DEF Unwire
  <2>2. CASE Edit
    <3>1. cfg' \in Contents
      <4>1. CASE cfg' \in UserFiles
        BY <4>1, UsersAreUntouched
      <4>2. CASE cfg \in Configs /\ \E p \in Ids, u \in Urls : cfg' = [cfg EXCEPT ![p].base = u]
        <5>1. PICK p \in Ids, u \in Urls : cfg' = [cfg EXCEPT ![p].base = u]
          BY <4>2
        <5>2. \A q \in Ids : cfg[q] \in Entries
          BY <4>2 DEF Configs
        <5>3. [cfg[p] EXCEPT !.base = u] \in Entries
          BY <5>2 DEF Entries
        <5>4. cfg' = [cfg EXCEPT ![p] = [cfg[p] EXCEPT !.base = u]]
          BY <5>1
        <5> QED
          BY <4>2, <5>2, <5>3, <5>4 DEF Configs, Contents
      <4> QED
        BY <2>2, <4>1, <4>2 DEF Edit
    <3>2. upsets' \in 0 .. MaxUpsets
      BY <2>2, SessionAssumption DEF Edit, Upset
    <3> QED
      BY <2>2, <3>1, <3>2 DEF Edit
  <2>3. ASSUME NEW s \in Sessions, NEW j \in Jobs, Start(s, j) PROVE TypeOK' /\ JobsAreComplete'
    <3>1. /\ j.mode \in {"all", "one", "manual"} /\ j.port \in PortBases
          /\ j.mode = "one" => j.id \in Ids
      BY SessionAssumption
    <3> QED BY <2>3, <2>j, <3>1 DEF Start
  <2>4. ASSUME NEW s \in Sessions, Read(s) PROVE TypeOK' /\ JobsAreComplete'
    BY <2>4 DEF Read
  <2>g. ASSUME NEW s \in Sessions, pc[s] # "idle", GiveUp(s)
        PROVE  /\ pc' \in [Sessions -> PCs] /\ job' \in [Sessions -> JobTypes]
               /\ data' \in [Sessions -> Contents] /\ JobsAreComplete'
    <3>1. data' \in [Sessions -> Contents]
      BY <2>g DEF GiveUp, Contents
    <3>2. CASE job[s].mode = "all"
      BY <2>g, <3>1, <3>2 DEF GiveUp, PCs, JobTypes
    <3>3. CASE job[s].mode # "all"
      <4>1. pc' = [pc EXCEPT ![s] = "ready"] /\ job' = [job EXCEPT ![s].mode = "fallback"]
        BY <2>g, <3>3 DEF GiveUp
      <4>2. job' \in [Sessions -> JobTypes]
        BY <4>1 DEF JobTypes
      <4>3. \A t \in Sessions : t # s => job'[t] = job[t] /\ pc'[t] = pc[t]
        BY <4>1
      <4>4. job'[s].mode = "fallback" /\ pc'[s] = "ready"
        BY <4>1
      <4>5. JobsAreComplete'
        BY <4>3, <4>4
      <4> QED BY <3>1, <4>1, <4>2, <4>5 DEF PCs
    <3> QED BY <3>2, <3>3
  <2>5. ASSUME NEW s \in Sessions, Backup(s) PROVE TypeOK' /\ JobsAreComplete'
    <3>1. bak' \in Contents
      BY <2>5 DEF Backup, BackupOnce, Contents
    <3>3. CASE Parses(data[s])
      BY <2>5, <3>1, <3>3 DEF Backup
    <3>4. CASE ~Parses(data[s])
      BY <2>5, <2>g, <3>1, <3>4 DEF Backup, PCs, JobTypes
    <3> QED
      BY <3>3, <3>4
  <2>u. ASSUME Upset PROVE upsets' \in 0 .. MaxUpsets
    BY <2>u, SessionAssumption DEF Upset
  <2>c. ASSUME NEW s \in Sessions, Choose(s) PROVE TypeOK' /\ JobsAreComplete'
    <3>1. PICK id \in FirstIds(cfg) \cup {DefaultId} :
            /\ job' = [job EXCEPT ![s] = [mode |-> "one", id |-> id, port |-> job[s].port]]
            /\ IF id \in FirstIds(cfg) THEN UNCHANGED upsets ELSE Upset
      BY <2>c DEF Choose
    <3>2. id \in Ids
      BY SessionAssumption DEF FirstIds
    <3>3. pc[s] = "choosing" /\ job[s].port \in PortBases
      BY <2>c DEF Choose
    <3>4. upsets' \in 0 .. MaxUpsets
      BY <2>u, <3>1
    <3> QED BY <2>c, <3>1, <3>2, <3>3, <3>4 DEF Choose
  <2>6. ASSUME NEW s \in Sessions, Write(s) PROVE TypeOK' /\ JobsAreComplete'
    <3>1. job[s].port \in PortBases /\ (job[s].mode # "all" => job[s].id \in Ids)
      BY <2>6 DEF Write
    <3>2. Parsed(data[s]) \in Configs
      BY ParsedIsConfig
    <3>3. Wired(s) \in Contents
      BY <3>1, <3>2, WiringIsTyped DEF Wired, Contents
    <3> QED
      BY <2>6, <3>3 DEF Write
  <2>7. ASSUME NEW s \in Sessions, Serve(s) PROVE TypeOK' /\ JobsAreComplete'
    BY <2>7 DEF Serve
  <2>8. ASSUME NEW s \in Sessions, Gone(s)
        PROVE  /\ pc' \in [Sessions -> PCs] /\ job' \in [Sessions -> JobTypes]
               /\ data' \in [Sessions -> Contents] /\ asWired' \in [Sessions -> BOOLEAN]
               /\ JobsAreComplete'
    BY <2>8 DEF Gone, NoJob, Contents, PCs, JobTypes
  <2>9. ASSUME NEW s \in Sessions, RunFails(s) \/ AgentExits(s) PROVE TypeOK' /\ JobsAreComplete'
    BY <2>0, <2>8, <2>9 DEF RunFails, AgentExits, PCs, JobTypes
  <2>10. ASSUME NEW s \in Sessions, Killed(s) PROVE TypeOK' /\ JobsAreComplete'
    <3>1. cfg' \in Contents /\ bak' \in Contents
      BY <2>10, StopsAreTyped DEF Killed
    <3> QED
      BY <2>8, <2>10, <2>u, <3>1 DEF Killed, PCs, JobTypes
  <2>12. ASSUME NEW s \in Sessions, WiringFails(s) PROVE TypeOK' /\ JobsAreComplete'
    <3>1. cfg' \in Contents /\ bak' \in Contents /\ pc[s] # "idle"
      BY <2>12, StopsAreTyped DEF WiringFails, Stops
    <3> QED
      BY <2>12, <2>g, <2>u, <3>1 DEF WiringFails, PCs, JobTypes
  <2>13. CASE UnwireFails
    <3>1. cfg' \in Contents
      BY <2>13, TornIsTyped DEF UnwireFails, RestoreStops
    <3> QED BY <2>13, <2>u, <3>1 DEF UnwireFails, RestoreStops
  <2>11. CASE UNCHANGED vars
    BY <2>11 DEF vars
  <2> QED
    BY <2>1, <2>2, <2>3, <2>4, <2>5, <2>c, <2>6, <2>7, <2>9, <2>10, <2>11, <2>12, <2>13 DEF Next
<1> QED
  BY <1>1, <1>2, PTL DEF Spec

(* Where a wiring that gave up stands. *)
LEMMA GivingUpStands ==
  ASSUME TypeOK, NEW s \in Sessions, GiveUp(s)
  PROVE  /\ data' = [data EXCEPT ![s] = NoFile]
         /\ pc' = [pc EXCEPT ![s] = pc'[s]] /\ pc'[s] \in {"choosing", "ready"}
BY DEF GiveUp, TypeOK

(* A file operation that stops half way takes no wired file for the first    *)
(* backup, and leaves the config alone as long as there is none.             *)
LEMMA StopsKeepBackup ==
  ASSUME BackupFirst, NEW s \in Sessions, Stops(s)
  PROVE  Untouched(bak') /\ (bak' = NoFile => bak = NoFile /\ cfg' = cfg)
<1> USE DEF BackupFirst
<1>1. CASE pc[s] = "reading" /\ UNCHANGED <<cfg, bak>>
  BY <1>1
<1>2. CASE /\ bak = NoFile /\ UNCHANGED cfg
           /\ bak' \in {NoFile} \cup Torn(BackupOnce(NoFile, data[s]))
  <2>1. Untouched(BackupOnce(NoFile, data[s]))
    BY <1>2, SpecialsAreUntouched DEF BackupOnce
  <2> QED BY <1>2, <2>1, TornIsTyped, SpecialsAreUntouched
<1>3. CASE pc[s] = "saved" /\ UNCHANGED bak
  BY <1>3
<1>4. CASE RestoreStops
  BY <1>4 DEF RestoreStops
<1> QED BY <1>1, <1>2, <1>3, <1>4 DEF Stops

(* The inductive step behind the two properties of the backup. *)
LEMMA BackupIsFirst == Spec => []BackupFirst
<1>1. Init => BackupFirst
  BY UsersAreUntouched, SpecialsAreUntouched DEF Init, BackupFirst
<1>2. TypeOK /\ BackupFirst /\ [Next]_vars => BackupFirst'
  <2> SUFFICES ASSUME TypeOK, BackupFirst, [Next]_vars PROVE BackupFirst'
    OBVIOUS
  <2> USE DEF BackupFirst
  <2>1. CASE Unwire
    BY <2>1 DEF Unwire, RestoreBackup
  <2>2. CASE Edit
    <3>1. bak = NoFile => Untouched(cfg')
      <4>1. CASE cfg' \in UserFiles
        BY <4>1, UsersAreUntouched
      <4>2. ASSUME bak = NoFile, cfg \in Configs, NEW p \in Ids, NEW u \in Urls,
                   cfg' = [cfg EXCEPT ![p].base = u]
            PROVE  Untouched(cfg')
        <5>1. \A q \in Ids : cfg'[q].hdr = cfg[q].hdr /\ cfg'[q].base \in {u, cfg[q].base}
          BY <4>2 DEF Configs, Entries
        <5>2. u \notin Ports
          BY WiringAssumption
        <5> QED
          BY <4>2, <5>1, <5>2 DEF Untouched
      <4> QED
        BY <2>2, <4>1, <4>2 DEF Edit
    <3> QED
      BY <2>2, <3>1 DEF Edit
  <2>3. ASSUME NEW s \in Sessions, NEW j \in Jobs, Start(s, j) PROVE BackupFirst'
    BY <2>3 DEF Start, TypeOK
  <2>4. ASSUME NEW s \in Sessions, Read(s) PROVE BackupFirst'
    BY <2>4 DEF Read, TypeOK
  <2>5. ASSUME NEW s \in Sessions, Backup(s) PROVE BackupFirst'
    <3>1. BackupOnce(bak, data[s]) # NoFile /\ Untouched(BackupOnce(bak, data[s]))
      BY SpecialsAreUntouched, WiringAssumption DEF BackupOnce
    <3>2. bak' = BackupOnce(bak, data[s]) \/ (bak' = bak /\ ~Parses(data[s]))
      BY <2>5 DEF Backup, BacksUp
    <3>3. CASE Parses(data[s])
      BY <2>5, <3>1, <3>2, <3>3 DEF Backup, TypeOK
    <3>4. CASE ~Parses(data[s])
      <4>1. GiveUp(s) /\ cfg' = cfg
        BY <2>5, <3>4 DEF Backup
      <4> QED BY <3>1, <3>2, <4>1, GivingUpStands, SpecialsAreUntouched DEF TypeOK
    <3> QED
      BY <3>3, <3>4
  <2>6. ASSUME NEW s \in Sessions, Write(s) PROVE BackupFirst'
    BY <2>6 DEF Write, TypeOK
  <2>7. ASSUME NEW s \in Sessions, Serve(s) PROVE BackupFirst'
    BY <2>7 DEF Serve, TypeOK
  <2>8. ASSUME NEW s \in Sessions, RunFails(s) PROVE BackupFirst'
    BY <2>8, SpecialsAreUntouched DEF RunFails, Gone, TypeOK
  <2>9. ASSUME NEW s \in Sessions, AgentExits(s) PROVE BackupFirst'
    BY <2>9, SpecialsAreUntouched DEF AgentExits, Gone, RestoreBackup, TypeOK
  <2>10. ASSUME NEW s \in Sessions, Killed(s) PROVE BackupFirst'
    <3>1. Untouched(bak') /\ (bak' = NoFile => bak = NoFile /\ cfg' = cfg)
      BY <2>10, StopsKeepBackup DEF Killed
    <3>2. \A t \in Sessions : data'[t] \in {data[t], NoFile} /\ (pc'[t] = "saved" => pc[t] = "saved")
      BY <2>10 DEF Killed, Gone, TypeOK
    <3> QED BY <3>1, <3>2, SpecialsAreUntouched
  <2>11. CASE UNCHANGED vars
    BY <2>11 DEF vars
  <2>12. ASSUME NEW s \in Sessions, Choose(s) PROVE BackupFirst'
    BY <2>12 DEF Choose, TypeOK
  <2>13. ASSUME NEW s \in Sessions, WiringFails(s) PROVE BackupFirst'
    <3>1. Untouched(bak') /\ (bak' = NoFile => bak = NoFile /\ cfg' = cfg)
      BY <2>13, StopsKeepBackup DEF WiringFails
    <3>2. \A t \in Sessions : data'[t] \in {data[t], NoFile} /\ (pc'[t] = "saved" => pc[t] = "saved")
      BY <2>13, GivingUpStands DEF WiringFails, TypeOK
    <3> QED BY <3>1, <3>2, SpecialsAreUntouched
  <2>14. CASE UnwireFails
    BY <2>14 DEF UnwireFails, RestoreStops
  <2> QED
    BY <2>1, <2>2, <2>3, <2>4, <2>5, <2>6, <2>7, <2>8, <2>9, <2>10, <2>11, <2>12, <2>13, <2>14
    DEF Next
<1> QED
  BY <1>1, <1>2, TypeCorrect, PTL DEF Spec

(* The backup never holds an address squoze wrote (wire.go:374-386). *)
THEOREM BackupStaysUsers == Spec => []BackupIsUsers
<1>1. BackupFirst => BackupIsUsers
  BY DEF BackupFirst, BackupIsUsers
<1> QED
  BY <1>1, BackupIsFirst, PTL

(* A session that ends after serving leaves no wiring behind, its own or     *)
(* another's (wire.go:388-398).                                              *)
THEOREM RestoringUnwires == Spec => RestoredIsDirect
<1> DEFINE Direct == \A s \in Sessions :
       (pc[s] = "running" /\ pc'[s] = "idle" /\ upsets' = upsets) => Untouched(cfg')
<1>1. TypeOK /\ BackupFirst /\ [Next]_vars => [Direct]_vars
  <2> SUFFICES ASSUME TypeOK, BackupFirst, [Next]_vars, NEW s \in Sessions,
                      pc[s] = "running", pc'[s] = "idle", upsets' = upsets
               PROVE  Untouched(cfg')
    OBVIOUS
  <2>1. ASSUME NEW t \in Sessions, AgentExits(t) PROVE Untouched(cfg')
    BY <2>1 DEF AgentExits, RestoreBackup, BackupFirst
  <2>2. ~Upset
    BY DEF Upset, TypeOK
  <2>3. ASSUME NEW t \in Sessions, RunFails(t) PROVE FALSE
    BY <2>3 DEF RunFails, Gone, TypeOK
  <2>4. ASSUME NEW t \in Sessions, NEW j \in Jobs, Start(t, j) PROVE FALSE
    BY <2>4 DEF Start, TypeOK
  <2>5. ASSUME NEW t \in Sessions, Read(t) \/ Choose(t) \/ Write(t) \/ Serve(t)
        PROVE  FALSE
    BY <2>5 DEF Read, Choose, Write, Serve, TypeOK
  <2>6. ASSUME NEW t \in Sessions, Backup(t)  PROVE FALSE
    BY <2>6, GivingUpStands DEF Backup, TypeOK
  <2>7. ~Unwire /\ ~Edit /\ ~UnwireFails /\ ~UNCHANGED vars
    BY <2>2 DEF Unwire, Edit, UnwireFails, vars
  <2>8. \A t \in Sessions : ~Killed(t) /\ ~WiringFails(t)
    BY <2>2 DEF Killed, WiringFails
  <2> QED
    BY <2>1, <2>3, <2>4, <2>5, <2>6, <2>7, <2>8 DEF Next
<1>2. RestoredIsDirect <=> [][Direct]_vars
  BY DEF RestoredIsDirect
<1> QED
  BY <1>1, <1>2, TypeCorrect, BackupIsFirst, PTL DEF Spec

(* A nonempty set of naturals has a least element: what stands in for        *)
(* induction, as the first n of which something fails.                       *)
LEMMA HasLeast ==
  ASSUME NEW S, S \subseteq Nat, S # {}
  PROVE  \E m \in S : \A n \in S : m <= n
<1>1. PICK less : less = OpToRel(<, Nat) /\ IsWellFoundedOn(less, Nat)
  BY NatLessThanWellFounded
<1>2. PICK m \in S : \A n \in S : ~(<<n, m>> \in less)
  BY <1>1, WFMin
<1>3. ASSUME NEW n \in S PROVE m <= n
  <2>1. PICK p : p = <<n, m>>
    OBVIOUS
  <2>2. p \in Nat \X Nat /\ p[1] = n /\ p[2] = m
    BY <2>1
  <2>3. less = {ss \in Nat \X Nat : ss[1] < ss[2]}
    BY <1>1 DEF OpToRel
  <2>4. ~(n < m)
    BY <1>2, <2>1, <2>2, <2>3
  <2> QED BY <2>4
<1> QED BY <1>3

(* A request ends at a provider when it is sent there straight away, or to a *)
(* listener that forwards there.                                             *)
LEMMA ProvidersAreReached ==
  ASSUME NEW url, url \notin Ports, IsFiniteSet(Ports),
         NEW from, from = url \/ (from \in Ports /\ Upstream(from) = url)
  PROVE  Reached(from) = url
<1> DEFINE Last == Cardinality(Ports)
           Hops(h) == [n \in 0 .. Last |->
                         IF n = 0 THEN from
                         ELSE IF h[n - 1] \in Ports THEN Upstream(h[n - 1]) ELSE h[n - 1]]
<1>1. PICK hop : hop = CHOOSE h : h = Hops(h)
  OBVIOUS
<1>2. Reached(from) = hop[Last]
  BY <1>1 DEF Reached
<1>3. Last \in Nat /\ (from # url => Last # 0)
  BY FS_CardinalityType, FS_EmptySet
<1>4. hop = Hops(hop)
  <2>1. PICK stay : stay = [n \in 0 .. Last |-> IF n = 0 THEN from ELSE url]
    OBVIOUS
  <2>2. \A n \in 0 .. Last : n = 0 \/ n - 1 \in 0 .. Last
    BY <1>3
  <2>3. stay = Hops(stay)
    BY <2>1, <2>2
  <2> QED BY <1>1, <2>3
<1>5. /\ \A n \in 0 .. Last : n # 0 => hop[n] = IF hop[n - 1] \in Ports THEN Upstream(hop[n - 1])
                                                                        ELSE hop[n - 1]
      /\ hop[0] = from
  <2>1. PICK hops : hops = Hops(hop)
    OBVIOUS
  <2>2. /\ \A n \in 0 .. Last : n # 0 => hops[n] = IF hop[n - 1] \in Ports THEN Upstream(hop[n - 1])
                                                                          ELSE hop[n - 1]
        /\ hops[0] = from
    BY <1>3, <2>1
  <2> QED BY <1>4, <2>1, <2>2
<1>6. \A n \in 0 .. Last : n # 0 => hop[n] = url
  <2> DEFINE strayed == {n \in 0 .. Last : n # 0 /\ hop[n] # url}
  <2> SUFFICES ASSUME strayed # {} PROVE FALSE
    OBVIOUS
  <2>1. strayed \subseteq Nat
    BY <1>3
  <2>2. PICK m \in strayed : \A n \in strayed : m <= n
    <3> HIDE DEF strayed
    <3> QED BY <2>1, HasLeast
  <2>3. m # 0 /\ m - 1 \in 0 .. Last /\ m - 1 < m
    BY <1>3, <2>2
  <2>4. hop[m - 1] = IF m - 1 = 0 THEN from ELSE url
    BY <1>3, <1>5, <2>2, <2>3
  <2> QED BY <1>5, <2>2, <2>3, <2>4
<1>7. CASE Last = 0
  BY <1>2, <1>3, <1>5, <1>7
<1>8. CASE Last # 0
  BY <1>2, <1>3, <1>6, <1>8
<1> QED BY <1>7, <1>8

LEMMA PortsAreFinite == IsFiniteSet(Ports)
<1> DEFINE offsets == 0 .. Cardinality(Ids) - 1
           sum == [bn \in PortBases \X offsets |-> bn[1] + bn[2]]
<1>1. IsFiniteSet(PortBases) /\ Cardinality(Ids) \in Nat
  BY WiringAssumption, FS_CardinalityType
<1>2. IsFiniteSet(offsets)
  BY <1>1, FS_Interval
<1>3. IsFiniteSet(PortBases \X offsets)
  BY <1>1, <1>2, FS_Product
<1>4. ASSUME NEW k \in Ports PROVE \E bn \in PortBases \X offsets : sum[bn] = k
  <2>1. PICK b \in PortBases, n \in offsets : k = b + n
    BY DEF Ports
  <2>2. PICK bn : bn = <<b, n>>
    OBVIOUS
  <2>3. bn \in PortBases \X offsets /\ bn[1] = b /\ bn[2] = n
    BY <2>2
  <2> QED BY <2>1, <2>3
<1>5. ASSUME NEW bn \in PortBases \X offsets PROVE sum[bn] \in Ports
  BY DEF Ports
<1>6. sum \in Surjection(PortBases \X offsets, Ports)
  <2>1. sum \in [PortBases \X offsets -> Ports]
    BY <1>5
  <2> QED BY <1>4, <2>1 DEF Surjection
<1> HIDE DEF sum, offsets
<1> QED BY <1>3, <1>6, FS_Surjection

(* A listener that is up forwards somewhere. *)
LEMMA ListenersForward ==
  ASSUME TypeOK, NEW s \in Sessions, NEW k \in DOMAIN Routes(s)
  PROVE  Routes(s)[k] # None
<1>1. PICK c : c = Parsed(data[s])
  OBVIOUS
<1>2. CASE job[s].mode = "all"
  <2>1. PICK q : q = CHOOSE p \in Wireable(c) : PortOf(c, job[s].port, p) = k
    OBVIOUS
  <2>2. k \in {PortOf(c, job[s].port, p) : p \in Wireable(c)} /\ Routes(s)[k] = Original(c, q)
    BY <1>1, <1>2, <2>1 DEF Routes
  <2>3. q \in Wireable(c)
    BY <2>1, <2>2
  <2> QED BY <2>2, <2>3 DEF Wireable
<1>3. CASE job[s].mode # "all"
  <2>1. Routes(s)[k] = Fallback
    BY <1>3 DEF Routes
  <2> QED BY <2>1, SessionAssumption, WiringAssumption
<1> QED BY <1>2, <1>3

(* No two sessions that serve share a port: the second could not listen.     *)
Apart ==
  \A s, t \in Running : s # t => DOMAIN Routes(s) \cap DOMAIN Routes(t) = {}

(* The listeners of a session that goes on serving are the same.             *)
LEMMA ServingStays ==
  ASSUME TypeOK, [Next]_vars, NEW t \in Sessions, pc'[t] = "running", pc[t] = "running"
  PROVE  Routes(t)' = Routes(t)
<1>1. job'[t] = job[t] /\ data'[t] = data[t]
  <2> USE DEF TypeOK
  <2>1. CASE Unwire \/ UnwireFails \/ Edit \/ UNCHANGED vars
    BY <2>1 DEF Unwire, UnwireFails, Edit, vars
  <2>2. ASSUME NEW s \in Sessions, (\E j \in Jobs : Start(s, j)) \/ Read(s) \/ Choose(s) \/ Write(s) \/ Serve(s)
        PROVE  job'[t] = job[t] /\ data'[t] = data[t]
    BY <2>2 DEF Start, Read, Choose, Write, Serve
  <2>3. ASSUME NEW s \in Sessions, Gone(s)  PROVE job'[t] = job[t] /\ data'[t] = data[t]
    BY <2>3 DEF Gone
  <2>4. ASSUME NEW s \in Sessions, GiveUp(s)  PROVE job'[t] = job[t] /\ data'[t] = data[t]
    <3>1. pc'[s] # "running"
      BY <2>4, GivingUpStands
    <3>2. t # s
      BY <3>1
    <3> QED BY <2>4, <3>2 DEF GiveUp
  <2>5. ASSUME NEW s \in Sessions, Backup(s)  PROVE job'[t] = job[t] /\ data'[t] = data[t]
    BY <2>4, <2>5 DEF Backup
  <2> QED
    BY <2>1, <2>2, <2>3, <2>4, <2>5 DEF Next, RunFails, AgentExits, WiringFails, Killed
<1> QED BY <1>1 DEF Routes

LEMMA SessionsStayApart == Spec => []Apart
<1>1. Init => Apart
  BY DEF Init, Apart, Running
<1>2. TypeOK /\ Apart /\ [Next]_vars => Apart'
  <2> SUFFICES ASSUME TypeOK, Apart, [Next]_vars,
                      NEW s \in Running', NEW t \in Running', s # t
               PROVE  DOMAIN Routes(s)' \cap DOMAIN Routes(t)' = {}
    BY DEF Apart
  <2>1. s \in Sessions /\ t \in Sessions /\ pc'[s] = "running" /\ pc'[t] = "running"
    BY DEF Running
  <2>2. ASSUME NEW r \in Sessions, pc'[r] = "running", pc[r] # "running"
        PROVE  Serve(r)
    <3>1. ASSUME NEW q \in Sessions, GiveUp(q)  PROVE FALSE
      BY <2>2, <3>1, GivingUpStands DEF TypeOK
    <3>2. ASSUME NEW q \in Sessions, Gone(q)  PROVE FALSE
      BY <2>2, <3>2 DEF Gone, TypeOK
    <3>3. ASSUME NEW q \in Sessions, Backup(q)  PROVE FALSE
      BY <2>2, <3>1, <3>3 DEF Backup, TypeOK
    <3>4. ASSUME NEW q \in Sessions, (\E j \in Jobs : Start(q, j)) \/ Read(q) \/ Choose(q) \/ Write(q)
          PROVE  FALSE
      BY <2>2, <3>4 DEF Start, Read, Choose, Write, TypeOK
    <3>5. ASSUME NEW q \in Sessions, Serve(q)  PROVE q = r
      BY <2>2, <3>5 DEF Serve, TypeOK
    <3> QED
      BY <2>2, <3>1, <3>2, <3>3, <3>4, <3>5
      DEF Next, RunFails, AgentExits, WiringFails, Killed, Unwire, UnwireFails, Edit, vars
  <2>3. ASSUME NEW r \in Sessions, Serve(r)
        PROVE  /\ \A q \in Sessions : pc'[q] = "running" => Routes(q)' = Routes(q)
               /\ \A q \in Sessions : pc'[q] = "running" /\ q # r => pc[q] = "running"
               /\ \A q \in Running : DOMAIN Routes(r) \cap DOMAIN Routes(q) = {}
    <3>1. job' = job /\ data' = data
      BY <2>3 DEF Serve
    <3> QED BY <2>3, <3>1 DEF Serve, TypeOK, Routes
  <2>4. CASE pc[s] = "running" /\ pc[t] = "running"
    BY <2>1, <2>4, ServingStays DEF Apart, Running
  <2>5. CASE pc[s] # "running"
    BY <2>1, <2>2, <2>3, <2>5 DEF Running
  <2>6. CASE pc[t] # "running"
    BY <2>1, <2>2, <2>3, <2>6 DEF Running
  <2> QED BY <2>4, <2>5, <2>6
<1> QED BY <1>1, <1>2, TypeCorrect, PTL DEF Spec

(* What listens on a port of a session that serves is that session.          *)
LEMMA ListenersAnswer ==
  ASSUME TypeOK, Apart, NEW s \in Running, NEW k \in DOMAIN Routes(s)
  PROVE  Upstream(k) = Routes(s)[k] /\ Upstream(k) # None
<1> DEFINE here == {t \in Running : k \in DOMAIN Routes(t)}
<1>1. here = {s}
  BY DEF Apart
<1>2. PICK w : w = CHOOSE t \in here : TRUE
  OBVIOUS
<1>3. w = s
  BY <1>1, <1>2
<1>4. Upstream(k) = Routes(s)[k]
  BY <1>1, <1>2, <1>3 DEF Upstream
<1> QED BY <1>4, ListenersForward DEF Running

(* WireOpenCodeAll hands no port out twice. *)
LEMMA PortsAreDistinct ==
  ASSUME NEW c, NEW port \in PortBases, NEW p \in Wireable(c), NEW q \in Wireable(c),
         PortOf(c, port, p) = PortOf(c, port, q)
  PROVE  p = q
<1>1. ASSUME NEW a \in Wireable(c), NEW b \in Wireable(c), Rank[a] < Rank[b]
      PROVE  PortOf(c, port, a) # PortOf(c, port, b)
  <2> DEFINE Below(i) == {x \in Wireable(c) : Rank[x] < Rank[i]}
  <2>1. /\ \A x \in Wireable(c) : Rank[x] \in Nat
        /\ Below(a) \subseteq Ids /\ Below(b) \subseteq Ids
    BY WiringAssumption DEF Wireable
  <2>2. IsFiniteSet(Below(a)) /\ IsFiniteSet(Below(b))
    BY <2>1, FS_Subset, WiringAssumption
  <2>3. a \notin Below(a) /\ Below(a) \cup {a} \subseteq Below(b)
    BY <1>1, <2>1
  <2>4. Cardinality(Below(a) \cup {a}) = Cardinality(Below(a)) + 1
    BY <2>2, <2>3, FS_AddElement
  <2>5. Cardinality(Below(a) \cup {a}) <= Cardinality(Below(b))
    BY <2>2, <2>3, FS_Subset
  <2>6. Cardinality(Below(a)) \in Nat /\ Cardinality(Below(b)) \in Nat /\ port \in Nat
    BY <2>2, FS_CardinalityType, WiringAssumption
  <2>7. /\ PortOf(c, port, a) = port + Cardinality(Below(a))
        /\ PortOf(c, port, b) = port + Cardinality(Below(b))
    BY DEF PortOf
  <2> HIDE DEF Below
  <2> QED BY <2>4, <2>5, <2>6, <2>7
<1>2. p \in Ids /\ q \in Ids /\ Rank[p] \in Nat /\ Rank[q] \in Nat
  BY WiringAssumption DEF Wireable
<1>3. ~(Rank[p] < Rank[q]) /\ ~(Rank[q] < Rank[p])
  BY <1>1
<1> QED BY <1>2, <1>3, WiringAssumption

(* The table of a session that wired every provider says, for each port, the *)
(* URL of the provider whose entry was given that port.                      *)
LEMMA TableAgrees ==
  ASSUME NEW s, job[s].mode = "all", job[s].port \in PortBases,
         NEW p \in Wireable(Parsed(data[s]))
  PROVE  /\ PortOf(Parsed(data[s]), job[s].port, p) \in DOMAIN Routes(s)
         /\ Routes(s)[PortOf(Parsed(data[s]), job[s].port, p)] = Original(Parsed(data[s]), p)
<1>1. PICK c : c = Parsed(data[s])
  OBVIOUS
<1>2. PICK k : k = PortOf(c, job[s].port, p)
  OBVIOUS
<1>3. PICK q : q = CHOOSE x \in Wireable(c) : PortOf(c, job[s].port, x) = k
  OBVIOUS
<1>4. q \in Wireable(c) /\ PortOf(c, job[s].port, q) = k
  BY <1>1, <1>2, <1>3
<1>5. q = p
  BY <1>1, <1>2, <1>4, PortsAreDistinct
<1> QED BY <1>1, <1>2, <1>3, <1>5 DEF Routes

(* Every call to a provider ends at the provider, for any number of sessions *)
(* and providers: through the listener's own upstream where each provider    *)
(* has one, through the header where one listener serves all (wire.go:106-   *)
(* 111, wrap.go:95-113).                                                     *)
THEOREM FirstWiringIsTransparent == Spec => []FirstWiringReaches
<1>1. ASSUME TypeOK, JobsAreComplete, Apart PROVE FirstWiringReaches
  <2> SUFFICES ASSUME NEW s \in Running, NEW c, c = Parsed(data[s]),
                      job[s].mode \in {"all", "one"}, Untouched(data[s]),
                      NEW p \in Ids, NEW sent \in BOOLEAN,
                      IF job[s].mode = "all" THEN ProviderUrl(c, p) # None
                      ELSE c[p].base # None /\ (p = job[s].id => sent)
               PROVE  Answers(Wired(s)[p], sent) = ProviderUrl(c, p)
    BY DEF FirstWiringReaches
  <2>1. PICK url : url = ProviderUrl(c, p)
    OBVIOUS
  <2>2. s \in Sessions /\ job[s].port \in PortBases /\ (job[s].mode = "one" => job[s].id \in Ids)
    BY <1>1 DEF JobsAreComplete, Running
  <2>3. c \in Configs /\ url \in Urls
    <3>1. c \in Configs /\ Untouched(c)
      BY EmptyIsConfig DEF Parsed
    <3>2. c[p].base \in Urls \cup {None} /\ Catalog[p] \in Urls \cup {None}
      BY <3>1, WiringAssumption DEF Configs, Entries, Untouched
    <3>3. url # None
      BY <2>1 DEF ProviderUrl
    <3> QED BY <2>1, <3>1, <3>2, <3>3 DEF ProviderUrl
  <2>4. url \notin Ports /\ url # None /\ Reached(url) = url
    <3>1. url \notin Ports /\ url # None
      BY <2>3, WiringAssumption
    <3> QED BY <3>1, PortsAreFinite, ProvidersAreReached
  <2>5. CASE job[s].mode = "all"
    <3>1. p \in Wireable(c) /\ Original(c, p) = url
      BY <2>1, <2>4 DEF Wireable, Original, ProviderUrl
    <3>2. PICK k : k = PortOf(c, job[s].port, p)
      OBVIOUS
    <3>3. Wired(s)[p] = [base |-> k, hdr |-> url]
      BY <2>5, <3>1, <3>2 DEF Wired, WireAll
    <3>4. k \in Ports
      BY <2>2, <2>3, <3>2, PortsAreTyped
    <3>5. k \in DOMAIN Routes(s) /\ Routes(s)[k] = url
      BY <2>2, <2>5, <3>1, <3>2, TableAgrees
    <3>6. Upstream(k) = url
      BY <1>1, <3>5, ListenersAnswer
    <3>7. Reached(k) = url
      BY <2>4, <3>4, <3>6, PortsAreFinite, ProvidersAreReached
    <3> QED BY <2>1, <2>4, <3>3, <3>7 DEF Answers
  <2>6. CASE job[s].mode = "one"
    <3>1. c[p].base = url
      BY <2>1, <2>6 DEF ProviderUrl
    <3>2. Wired(s) = [c EXCEPT ![job[s].id] = [base |-> job[s].port,
                        hdr |-> IF c[job[s].id].base # None THEN c[job[s].id].base ELSE c[job[s].id].hdr]]
      BY <2>6 DEF Wired, WireOne
    <3>3. CASE p = job[s].id
      <4>1. Wired(s)[p] = [base |-> job[s].port, hdr |-> url]
        BY <2>3, <2>4, <3>1, <3>2, <3>3 DEF Configs
      <4>2. job[s].port \in Ports
        BY <2>2, BasesArePorts
      <4>3. job[s].port \in DOMAIN Routes(s)
        BY <2>6 DEF Routes
      <4>4. Upstream(job[s].port) # None /\ sent
        BY <1>1, <2>6, <3>3, <4>3, ListenersAnswer
      <4> QED BY <2>1, <2>4, <4>1, <4>2, <4>4 DEF Answers
    <3>4. CASE p # job[s].id
      <4>1. Wired(s)[p] = c[p]
        BY <2>3, <3>2, <3>4 DEF Configs
      <4> QED BY <2>1, <2>4, <3>1, <4>1 DEF Answers
    <3> QED BY <3>3, <3>4
  <2> QED BY <2>5, <2>6
<1> QED BY <1>1, TypeCorrect, SessionsStayApart, PTL

(* One session at a time. *)
Alone == \A s, t \in Sessions : pc[s] # "idle" /\ pc[t] # "idle" => s = t

(* A session that ends without restoring, as it is killed or cannot be set   *)
(* up, or an I/O error.                                                      *)
GoesWrong == UnwireFails \/ \E s \in Sessions : RunFails(s) \/ WiringFails(s) \/ Killed(s)

(* The file is wired only while a session that will restore it is there. *)
Clean ==
  /\ \A s \in Sessions : Untouched(data[s])
  /\ Untouched(cfg) \/ \E s \in Sessions : pc[s] \in {"ready", "running"}

LEMMA EditsLeaveUntouched == ASSUME Edit, Untouched(cfg)  PROVE Untouched(cfg')
<1>1. CASE cfg' \in UserFiles
  BY <1>1, UsersAreUntouched
<1>2. ASSUME cfg \in Configs, NEW p \in Ids, NEW u \in Urls, cfg' = [cfg EXCEPT ![p].base = u]
      PROVE  Untouched(cfg')
  <2>1. \A q \in Ids : cfg'[q].hdr = cfg[q].hdr /\ cfg'[q].base \in {u, cfg[q].base}
    BY <1>2 DEF Configs, Entries
  <2>2. u \notin Ports
    BY WiringAssumption
  <2> QED BY <1>2, <2>1, <2>2 DEF Untouched
<1> QED BY <1>1, <1>2 DEF Edit

LEMMA CleanIsKept ==
  ASSUME TypeOK, BackupFirst, Alone, Clean, [Next]_vars, ~GoesWrong
  PROVE  Clean'
<1> USE DEF TypeOK, Clean
<1>0. Untouched(RestoreBackup(cfg, bak))
  BY DEF BackupFirst, RestoreBackup
<1>1. CASE Unwire
  BY <1>0, <1>1 DEF Unwire
<1>2. CASE Edit
  <2>1. Untouched(cfg) => Untouched(cfg')
    BY <1>2, EditsLeaveUntouched
  <2> QED BY <1>2, <2>1 DEF Edit
<1>3. ASSUME NEW s \in Sessions, NEW j \in Jobs, Start(s, j)  PROVE Clean'
  BY <1>3 DEF Start
<1>4. ASSUME NEW s \in Sessions, Read(s)  PROVE Clean'
  <2>1. \A t \in Sessions : pc[t] \notin {"ready", "running"}
    BY <1>4 DEF Read, Alone
  <2>2. Untouched(cfg) /\ cfg' = cfg
    BY <1>4, <2>1 DEF Read
  <2> QED BY <1>4, <2>2 DEF Read
<1>5. ASSUME NEW s \in Sessions, Backup(s)  PROVE Clean'
  <2>1. cfg' = cfg /\ pc[s] = "read"
    BY <1>5 DEF Backup
  <2>2. \A t \in Sessions : data'[t] \in {data[t], NoFile} /\ (t # s => pc'[t] = pc[t])
    <3>1. CASE Parses(data[s])
      BY <1>5, <3>1 DEF Backup
    <3>2. CASE ~Parses(data[s])
      BY <1>5, <3>2, GivingUpStands DEF Backup
    <3> QED BY <3>1, <3>2
  <2> QED BY <2>1, <2>2, SpecialsAreUntouched
<1>10. ASSUME NEW s \in Sessions, Choose(s)  PROVE Clean'
  BY <1>10 DEF Choose
<1>6. ASSUME NEW s \in Sessions, Write(s)  PROVE Clean'
  BY <1>6 DEF Write
<1>7. ASSUME NEW s \in Sessions, Serve(s)  PROVE Clean'
  BY <1>7 DEF Serve
<1>8. ASSUME NEW s \in Sessions, AgentExits(s)  PROVE Clean'
  BY <1>0, <1>8, SpecialsAreUntouched DEF AgentExits, Gone
<1>9. CASE UNCHANGED vars
  BY <1>9 DEF vars
<1> QED BY <1>1, <1>2, <1>3, <1>4, <1>5, <1>6, <1>7, <1>8, <1>9, <1>10 DEF Next, GoesWrong

LEMMA CleanForwards == ASSUME TypeOK, Clean  PROVE ForwardsToProvider
<1> SUFFICES ASSUME NEW s \in Running, NEW k \in DOMAIN Routes(s)  PROVE Routes(s)[k] \in Urls
  BY DEF ForwardsToProvider
<1>1. PICK c : c = Parsed(data[s])
  OBVIOUS
<1>2. c \in Configs /\ Untouched(c)
  <2>1. Untouched(data[s])
    BY DEF Clean, Running
  <2> QED BY <1>1, <2>1, EmptyIsConfig DEF Parsed
<1>3. CASE job[s].mode = "all"
  <2>1. PICK q : q = CHOOSE p \in Wireable(c) : PortOf(c, job[s].port, p) = k
    OBVIOUS
  <2>2. k \in {PortOf(c, job[s].port, p) : p \in Wireable(c)} /\ Routes(s)[k] = Original(c, q)
    BY <1>1, <1>3, <2>1 DEF Routes
  <2>3. q \in Wireable(c)
    BY <2>1, <2>2
  <2>4. q \in Ids /\ Original(c, q) # None
    BY <2>3 DEF Wireable
  <2>5. c[q].base \in Urls \cup {None}
    BY <1>2, <2>4 DEF Configs, Entries, Untouched
  <2>6. Catalog[q] \in Urls \cup {None}
    BY <2>4, WiringAssumption
  <2> QED BY <2>2, <2>4, <2>5, <2>6 DEF Original
<1>4. CASE job[s].mode # "all"
  <2>1. Routes(s)[k] = Fallback
    BY <1>4 DEF Routes
  <2> QED BY <2>1, SessionAssumption
<1> QED BY <1>3, <1>4

(* The condition under which "Original" is a real provider URL               *)
(* (wire.go:103): used one at a time, each session ending with its agent, a  *)
(* listener never forwards to a listener, whatever the user edits and        *)
(* unwires in between.                                                       *)
THEOREM CarefulUseForwards ==
  Spec /\ []Alone /\ [][~GoesWrong]_vars => []ForwardsToProvider
<1>1. Init => Clean
  BY UsersAreUntouched, SpecialsAreUntouched DEF Init, Clean
<1>2. TypeOK /\ BackupFirst /\ Alone /\ Clean /\ [Next]_vars /\ [~GoesWrong]_vars => Clean'
  <2>1. ASSUME TypeOK, Clean, UNCHANGED vars  PROVE Clean'
    BY <2>1 DEF Clean, vars
  <2> QED BY <2>1, CleanIsKept
<1>3. TypeOK /\ Clean => ForwardsToProvider
  BY CleanForwards
<1> QED BY <1>1, <1>2, <1>3, TypeCorrect, BackupIsFirst, PTL DEF Spec

(* The user edits the file only before it is wired for the first time. *)
EditsEarly == Edit => bak = NoFile /\ \A s \in Sessions : pc[s] = "idle"

(* The first backup is what later sessions find and leave. *)
Faithful ==
  /\ \A s \in Sessions : data[s] \in UserConfigs =>
       /\ pc[s] \in {"saved", "ready", "running"} => data[s] = bak
       /\ pc[s] = "read" /\ bak # NoFile => data[s] = bak
  /\ \A s \in Sessions : pc[s] = "read" /\ bak = NoFile => data[s] = cfg
  /\ \A s \in Sessions : pc[s] = "idle" => data[s] = NoFile
  /\ \/ bak = NoFile \/ (cfg \in UserConfigs => cfg = bak)
     \/ \E s \in Sessions : pc[s] \in {"ready", "running"}

LEMMA NoFileIsNoConfig == NoFile \notin UserConfigs /\ Placeholder \notin UserConfigs
BY SessionAssumption, WiringAssumption DEF Configs, Entries

LEMMA FaithfulIsKept ==
  ASSUME TypeOK, Alone, Faithful, [Next]_vars, ~GoesWrong, EditsEarly
  PROVE  Faithful'
<1> USE DEF TypeOK, Faithful
<1>1. CASE Unwire
  BY <1>1 DEF Unwire, RestoreBackup
<1>2. CASE Edit
  BY <1>2 DEF Edit, EditsEarly
<1>3. ASSUME NEW s \in Sessions, NEW j \in Jobs, Start(s, j)  PROVE Faithful'
  BY <1>3, NoFileIsNoConfig DEF Start
<1>4. ASSUME NEW s \in Sessions, Read(s)  PROVE Faithful'
  BY <1>4 DEF Read, Alone
<1>5. ASSUME NEW s \in Sessions, Backup(s)  PROVE Faithful'
  <2>1. pc[s] = "read" /\ pc' = [pc EXCEPT ![s] = pc'[s]] /\ pc'[s] \in {"saved", "choosing", "ready"}
    BY <1>5, GivingUpStands DEF Backup
  <2>2. /\ cfg' = cfg /\ data'[s] \in {data[s], NoFile}
        /\ \A t \in Sessions \ {s} : data'[t] = data[t]
    BY <1>5, GivingUpStands DEF Backup
  <2>3. \A t \in Sessions \ {s} : pc[t] = "idle" /\ pc'[t] = "idle" /\ data[t] = NoFile
    BY <2>1 DEF Alone
  <2>4. data[s] \in UserConfigs => bak' = BackupOnce(bak, data[s]) /\ Parses(data[s])
    <3>1. data[s] \in UserConfigs => Parses(data[s])
      BY SessionAssumption DEF Parses, Configs, Entries
    <3> QED BY <1>5, <3>1 DEF Backup, BacksUp
  <2>5. data[s] \in UserConfigs => data[s] = bak'
    BY <2>1, <2>4, NoFileIsNoConfig DEF BackupOnce
  <2>6. bak' = bak \/ bak' = BackupOnce(bak, data[s])
    BY <1>5 DEF Backup
  <2>7. bak = NoFile => data[s] = cfg
    BY <2>1
  <2>8. bak' = NoFile \/ (cfg \in UserConfigs => cfg = bak')
    <3>1. CASE bak = NoFile
      BY <2>4, <2>6, <2>7, <3>1, NoFileIsNoConfig DEF BackupOnce
    <3>2. CASE bak # NoFile
      <4>1. \A t \in Sessions : pc[t] \notin {"ready", "running"}
        BY <2>1, <2>3
      <4>2. bak' = bak
        BY <2>6, <3>2 DEF BackupOnce
      <4> QED BY <3>2, <4>1, <4>2
    <3> QED BY <3>1, <3>2
  <2> QED BY <2>1, <2>2, <2>3, <2>5, <2>8, NoFileIsNoConfig
<1>6. ASSUME NEW s \in Sessions, Write(s)  PROVE Faithful'
  BY <1>6 DEF Write, Alone
<1>7. ASSUME NEW s \in Sessions, Serve(s)  PROVE Faithful'
  BY <1>7 DEF Serve
<1>8. ASSUME NEW s \in Sessions, AgentExits(s)  PROVE Faithful'
  BY <1>8, NoFileIsNoConfig DEF AgentExits, Gone, RestoreBackup, Alone
<1>9. CASE UNCHANGED vars
  BY <1>9 DEF vars
<1>10. ASSUME NEW s \in Sessions, Choose(s)  PROVE Faithful'
  BY <1>10 DEF Choose
<1> QED BY <1>1, <1>2, <1>3, <1>4, <1>5, <1>6, <1>7, <1>8, <1>9, <1>10 DEF Next, GoesWrong

(* The condition under which unwiring "restores the pre-wire backup"         *)
(* (wire.go:305) and nothing older: used one at a time, each session ending  *)
(* with its agent, and no edit after the first wiring, a session leaves the  *)
(* file as its wiring found it.                                              *)
THEOREM CarefulUseRestores ==
  Spec /\ []Alone /\ [][~GoesWrong /\ EditsEarly]_vars => UnwireRestores
<1> DEFINE Restores == \A s \in Running :
       (/\ pc'[s] = "idle" /\ upsets' = upsets
        /\ data[s] \in UserConfigs) => cfg' = data[s]
<1>1. Init => Faithful
  BY NoFileIsNoConfig DEF Init, Faithful
<1>2. TypeOK /\ Alone /\ Faithful /\ [Next]_vars /\ [~GoesWrong /\ EditsEarly]_vars => Faithful'
  <2>1. ASSUME Faithful, UNCHANGED vars  PROVE Faithful'
    BY <2>1 DEF Faithful, vars
  <2> QED BY <2>1, FaithfulIsKept
<1>3. TypeOK /\ Faithful /\ [Next]_vars /\ [~GoesWrong /\ EditsEarly]_vars => [Restores]_vars
  <2> SUFFICES ASSUME TypeOK, Faithful, Next, ~GoesWrong, NEW s \in Running, pc'[s] = "idle",
                      data[s] \in UserConfigs
               PROVE  cfg' = data[s]
    OBVIOUS
  <2>1. s \in Sessions /\ pc[s] = "running" /\ data[s] = bak /\ bak # NoFile
    BY NoFileIsNoConfig DEF Running, Faithful
  <2>2. \E t \in Sessions : AgentExits(t)
    <3>1. ~Unwire /\ ~Edit
      BY <2>1 DEF Unwire, Edit
    <3>2. \A t \in Sessions : ~Read(t) /\ ~Choose(t) /\ ~Write(t) /\ ~Serve(t)
      BY <2>1 DEF Read, Choose, Write, Serve, TypeOK
    <3>4. ASSUME NEW t \in Sessions, Backup(t)  PROVE FALSE
      BY <2>1, <3>4, GivingUpStands DEF Backup, TypeOK
    <3>3. \A t \in Sessions : \A j \in Jobs : ~Start(t, j)
      BY <2>1 DEF Start, TypeOK
    <3> QED BY <3>1, <3>2, <3>3, <3>4 DEF Next, GoesWrong
  <2> QED BY <2>1, <2>2 DEF AgentExits, RestoreBackup
<1>4. UnwireRestores <=> [][Restores]_vars
  BY DEF UnwireRestores
<1> QED BY <1>1, <1>2, <1>3, <1>4, TypeCorrect, PTL DEF Spec
=============================================================================
