---------------------------- MODULE Proxy_proofs ----------------------------
(* What TLAPS proves of Proxy, for any number of requests, every set of      *)
(* bodies, upstreams and buffer sizes.                                       *)
EXTENDS Proxy, TLAPS

PCs == {"idle", "route", "forward", "waiting", "copying", "log", "ended"}
Phases == {"opening", "agent", "onexit", "stop", "close", "closelog", "exiting", "exited", "killed"}
Codes == {200, 400, 502} \cup Statuses
Outputs == {"as is", "squeezed"} \X Bodies
Jobs ==
  [pc : PCs, in : Inbound \cup {None}, out : Outputs \cup {None}, got : Outputs \cup {None},
   to : Statics \cup {Other, None}, res : Outputs \cup {None}, reported : BOOLEAN,
   status : Codes, seen : Codes \cup {None}, held : 0 .. BufferEvents - 1]
Lines == [req : Requests, status : Codes, claims : Outputs \cup {None}]

Typed ==
  /\ static \in Statics
  /\ job \in [Requests -> Jobs]
  /\ log \in Seq(Lines)
  /\ phase \in Phases
  /\ agent \in {"none", "running", "gone"}
  /\ wired \in BOOLEAN

(* Where a handler stands decides what it has set: the report and the body   *)
(* are set together unless the request is a GET, the upstream gets that body *)
(* or, of a GET only, nothing, and a refusal is recorded before the line is  *)
(* written.                                                                  *)
Fits(j) ==
  /\ j.in = None <=> j.pc = "idle"
  /\ j.pc \in {"idle", "route"} => j.out = None /\ j.status = 200 /\ ~j.reported
  /\ j.pc \in {"idle", "route", "forward"} => j.got = None
  /\ j.pc \in {"idle", "route", "forward", "waiting"} => j.seen = None
  /\ j.pc \in {"waiting", "copying"} /\ j.got = None => j.in.method = "GET"
  /\ j.pc \in {"forward", "waiting", "copying"} =>
       /\ j.out \in {Applied(j.in.body), AsIs(j.in.body)}
       /\ j.reported <=> j.in.method # "GET"
  /\ j.reported => j.in.method # "GET"
  /\ j.res = IF j.reported THEN j.out ELSE AsIs(Empty)
  /\ j.got \in {None, j.out}
  /\ j.got # None /\ j.in.method # "GET" => j.reported
  /\ j.seen \in {None, j.status}
  /\ j.pc \in {"log", "ended"} /\ j.got = None /\ j.in.method # "GET" => j.status \in {400, 502}

(* A line is written as the last thing a handler does. *)
Written ==
  /\ \A n \in DOMAIN log :
       LET j == job[log[n].req]
       IN  j.pc = "ended" /\ log[n].status = j.status /\ log[n].claims = j.res
  /\ \A m, n \in DOMAIN log : log[m].req = log[n].req => m = n

(* How far Run has got decides what is left of the agent and its config. *)
Staged ==
  /\ phase = "opening" => agent = "none"
  /\ phase = "agent" => agent = "running"
  /\ phase = "onexit" => agent = "gone"
  /\ phase \in {"stop", "close", "closelog", "exiting", "exited"} => agent = "gone" /\ ~wired
  /\ phase = "killed" => agent = "none" \/ (agent = "gone" /\ ~wired)

IInv == Typed /\ (\A r \in Requests : Fits(job[r])) /\ Written /\ Staged

(* The body a request comes with decides what may be sent. *)
LEMMA OutputsAreTyped ==
  ASSUME NEW body \in Bodies
  PROVE  /\ Applied(body) \in Outputs /\ AsIs(body) \in Outputs
         /\ Applied(body) # None /\ AsIs(body) # None
<1>1. <<"as is", body>> \in Outputs /\ <<"squeezed", body>> \in Outputs
  BY DEF Outputs
<1>2. None \notin Outputs
  BY ProxyAssumption DEF Outputs
<1> QED BY <1>1, <1>2 DEF Applied, AsIs

LEMMA JobsAreTyped ==
  ASSUME NEW j \in Jobs
  PROVE  /\ j.in # None => j.in \in Inbound /\ j.in.body \in Bodies
         /\ j.pc \in PCs /\ j.status \in Codes
         /\ j.out \in Outputs \cup {None} /\ j.res \in Outputs \cup {None} /\ j.got \in Outputs \cup {None}
BY DEF Jobs, Inbound

LEMMA StatusesAreTyped ==
  ASSUME NEW j \in Jobs, NEW code \in Codes, NEW sees \in Codes \cup {None}, NEW pc \in PCs
  PROVE  [j EXCEPT !.status = code, !.seen = sees, !.pc = pc] \in Jobs
BY DEF Jobs

LEMMA BuffersAreTyped ==
  ASSUME NEW held \in 0 .. BufferEvents - 1
  PROVE  0 \in 0 .. BufferEvents - 1 /\ (held + 1) % BufferEvents \in 0 .. BufferEvents - 1
<1>1. BufferEvents \in Nat /\ BufferEvents > 0 /\ held + 1 \in Nat
  <2>1. BufferEvents \in Nat \ {0}
    BY Zenon, ProxyAssumption
  <2> QED BY <2>1
<1>2. \A a \in Nat, n \in Nat : n > 0 => a % n \in 0 .. n - 1
  OBVIOUS
<1> QED BY <1>1, <1>2

(* What any step of a handler does: its own record stays typed and fits, the *)
(* others and the session are left alone.                                    *)
LEMMA HandlersFit ==
  ASSUME IInv, NEW r \in Requests, Arrive(r) \/ Handle(r)
  PROVE  /\ \E j \in Jobs : Fits(j) /\ job' = [job EXCEPT ![r] = j]
         /\ job[r].pc # "ended"
         /\ UNCHANGED <<static, phase, agent, wired>>
<1>1. PICK j : j = job[r]
  OBVIOUS
<1>2. /\ j \in Jobs /\ Fits(j) /\ static \in Statics /\ job \in [Requests -> Jobs]
      /\ j.pc \in PCs /\ j.status \in Codes
      /\ j.in # None => j.in \in Inbound /\ j.in.body \in Bodies
  BY <1>1, JobsAreTyped DEF IInv, Typed
<1>3. \A body \in Bodies : Applied(body) \in Outputs /\ AsIs(body) \in Outputs
                           /\ Applied(body) # None /\ AsIs(body) # None
  BY OutputsAreTyped
<1>5. CASE Arrive(r)
  <2>1. PICK in \in Inbound : job' = [job EXCEPT ![r] = [@ EXCEPT !.in = in, !.pc = "route"]]
    BY <1>5 DEF Arrive
  <2>2. in # None
    BY ProxyAssumption
  <2>3. j.pc = "idle"
    BY <1>1, <1>5 DEF Arrive, At
  <2> DEFINE k == [j EXCEPT !.in = in, !.pc = "route"]
  <2>4. k \in Jobs
    BY <1>2 DEF Jobs, PCs
  <2>5. Fits(k)
    BY <1>2, <2>2, <2>3 DEF Jobs, Fits
  <2> QED BY <1>1, <1>5, <2>1, <2>3, <2>4, <2>5 DEF Arrive, Main
<1>6. ASSUME NEW code, code \in {400, 502}, Refuse(r, code), j.pc \in {"route", "forward", "waiting"}
      PROVE  \E k \in Jobs : Fits(k) /\ job' = [job EXCEPT ![r] = k] /\ UNCHANGED Main
  <2>1. PICK sees : sees \in {None, code} /\ sees = Sees(code)
    BY DEF Sees
  <2> DEFINE k == [j EXCEPT !.status = code, !.seen = sees, !.pc = "log"]
  <2>2. k \in Jobs
    <3>1. code \in Codes /\ sees \in Codes \cup {None}
      BY <1>6, <2>1 DEF Codes
    <3> QED BY <1>2, <3>1, StatusesAreTyped DEF PCs
  <2>3. Fits(k)
    BY <1>2, <1>6, <2>1 DEF Jobs, Fits
  <2> QED BY <1>1, <1>6, <2>1, <2>2, <2>3 DEF Refuse
<1>7. CASE NoRoute(r) \/ Unreadable(r) \/ TransportError(r)
  <2>1. j.pc \in {"route", "forward", "waiting"} /\ \E code \in {400, 502} : Refuse(r, code)
    BY <1>1, <1>7 DEF NoRoute, Unreadable, TransportError, At
  <2> QED BY <1>1, <1>6, <2>1 DEF Main
<1>8. CASE PassThrough(r)
  <2> DEFINE k == [j EXCEPT !.out = AsIs(j.in.body), !.pc = "forward"]
  <2>1. j.pc = "route" /\ j.in.method = "GET" /\ job' = [job EXCEPT ![r] = k]
    BY <1>1, <1>2, <1>8 DEF PassThrough, At
  <2>2. AsIs(j.in.body) \in Outputs
    BY <1>2, <1>3, <2>1 DEF Fits
  <2>3. k \in Jobs
    BY <1>2, <2>2 DEF Jobs, PCs
  <2>4. Fits(k)
    BY <1>2, <2>1 DEF Jobs, Fits
  <2> QED BY <1>1, <1>8, <2>1, <2>3, <2>4 DEF PassThrough, Main
<1>9. CASE Apply(r) \/ Recover(r)
  <2>1. PICK out : /\ Processed(r, out)
                   /\ out \in {Applied(j.in.body), AsIs(j.in.body)}
    BY <1>1, <1>9 DEF Apply, Recover
  <2> DEFINE k == [j EXCEPT !.out = out, !.res = out, !.reported = TRUE, !.pc = "forward"]
  <2>2. j.pc = "route" /\ j.in.method # "GET" /\ job' = [job EXCEPT ![r] = k]
    BY <1>1, <1>2, <2>1 DEF Processed, At
  <2>3. j.in \in Inbound /\ j.in.body \in Bodies
    BY <1>2, <2>2 DEF Fits
  <2>4. out \in Outputs
    BY <1>3, <2>1, <2>3
  <2>5. k \in Jobs
    BY <1>2, <2>4 DEF Jobs, PCs
  <2>6. Fits(k)
    BY <1>2, <2>1, <2>2, <2>4 DEF Jobs, Fits
  <2> QED BY <1>1, <2>1, <2>2, <2>5, <2>6 DEF Processed, Main
<1>10. CASE Forward(r)
  <2>0. PICK body \in Sent(r) :
          job' = [job EXCEPT ![r] = [@ EXCEPT !.got = body, !.to = Target(r), !.pc = "waiting"]]
    BY <1>10 DEF Forward
  <2> DEFINE k == [j EXCEPT !.got = body, !.to = Target(r), !.pc = "waiting"]
  <2>1. /\ j.pc = "forward" /\ job' = [job EXCEPT ![r] = k]
        /\ body \in {j.out, None} /\ (body = None => ~j.reported)
    BY <1>1, <1>2, <1>3, <1>10, <2>0 DEF Forward, At, Sent, Fits
  <2>2. k \in Jobs
    <3>1. body \in Outputs \cup {None}
      BY <1>2, <2>1, JobsAreTyped
    <3>2. Target(r) \in Statics \cup {Other, None}
      BY <1>2 DEF Target
    <3> QED BY <1>2, <3>1, <3>2 DEF Jobs, PCs
  <2>3. Fits(k)
    BY <1>2, <2>1 DEF Jobs, Fits
  <2> QED BY <1>1, <1>10, <2>1, <2>2, <2>3 DEF Forward, Main
<1>11. CASE Answer(r)
  <2>1. PICK code \in Statuses :
          job' = [job EXCEPT ![r] = [@ EXCEPT !.status = code, !.seen = Sees(code), !.pc = "copying"]]
    BY Zenon, <1>11 DEF Answer
  <2>2. PICK sees : sees \in {None, code} /\ sees = Sees(code)
    BY DEF Sees
  <2> DEFINE k == [j EXCEPT !.status = code, !.seen = sees, !.pc = "copying"]
  <2>3. j.pc = "waiting" /\ job' = [job EXCEPT ![r] = k]
    BY <1>1, <1>2, <1>11, <2>1, <2>2 DEF Answer, At
  <2>4. k \in Jobs
    <3>1. code \in Codes /\ sees \in Codes \cup {None}
      BY <2>1, <2>2 DEF Codes
    <3> QED BY <1>2, <3>1, StatusesAreTyped DEF PCs
  <2>5. Fits(k)
    BY <1>2, <2>1, <2>2, <2>3 DEF Jobs, Fits
  <2> QED BY <1>1, <1>11, <2>3, <2>4, <2>5 DEF Answer, Main
<1>12. CASE Event(r) \/ Copied(r)
  <2>1. PICK held \in 0 .. BufferEvents - 1, pc \in {"copying", "log"} :
          job' = [job EXCEPT ![r] = [@ EXCEPT !.held = held, !.pc = pc]]
    <3>1. j.held \in 0 .. BufferEvents - 1 /\ j.pc = "copying"
      BY <1>1, <1>2, <1>12 DEF Jobs, Event, Copied, At
    <3>2. 0 \in 0 .. BufferEvents - 1 /\ (j.held + 1) % BufferEvents \in 0 .. BufferEvents - 1
      BY <3>1, BuffersAreTyped
    <3>3. CASE Event(r)
      BY <1>1, <1>2, <3>1, <3>2, <3>3 DEF Event, Jobs
    <3>4. CASE Copied(r)
      BY <1>1, <3>2, <3>4 DEF Copied
    <3> QED BY <1>12, <3>3, <3>4
  <2> DEFINE k == [j EXCEPT !.held = held, !.pc = pc]
  <2>2. j.pc = "copying" /\ job' = [job EXCEPT ![r] = k]
    BY <1>1, <1>2, <1>12, <2>1 DEF Event, Copied, At
  <2>3. k \in Jobs
    BY <1>2 DEF Jobs, PCs
  <2>4. Fits(k)
    BY <1>2, <2>2 DEF Jobs, Fits
  <2> QED BY <1>1, <1>12, <2>2, <2>3, <2>4 DEF Event, Copied, Main
<1>13. CASE Log(r)
  <2> DEFINE k == [j EXCEPT !.pc = "ended"]
  <2>1. j.pc = "log" /\ job' = [job EXCEPT ![r] = k]
    BY <1>1, <1>2, <1>13 DEF Log, At
  <2>2. k \in Jobs
    BY <1>2 DEF Jobs, PCs
  <2>3. Fits(k)
    BY <1>2, <2>1 DEF Jobs, Fits
  <2> QED BY <1>1, <1>13, <2>1, <2>2, <2>3 DEF Log
<1> QED BY <1>5, <1>7, <1>8, <1>9, <1>10, <1>11, <1>12, <1>13 DEF Handle

LEMMA LinesAreTyped ==
  ASSUME NEW lines \in Seq(Lines), NEW n \in DOMAIN lines
  PROVE  lines[n] \in Lines /\ lines[n].req \in Requests
<1>1. lines[n] \in Lines
  OBVIOUS
<1> QED BY <1>1 DEF Lines

LEMMA HandlersWrite ==
  ASSUME IInv, NEW r \in Requests, Arrive(r) \/ Handle(r)
  PROVE  log' \in Seq(Lines) /\ Written'
<1>1. PICK j \in Jobs : /\ Fits(j) /\ job' = [job EXCEPT ![r] = j] /\ job[r].pc # "ended"
                        /\ UNCHANGED <<static, phase, agent, wired>>
  BY HandlersFit
<1>2. /\ job \in [Requests -> Jobs] /\ log \in Seq(Lines)
      /\ \A n \in DOMAIN log : log[n] \in Lines /\ log[n].req \in Requests
  <2>1. job \in [Requests -> Jobs] /\ log \in Seq(Lines)
    BY DEF IInv, Typed
  <2> QED BY <2>1, LinesAreTyped
<1>3. \A n \in DOMAIN log : log[n].req # r /\ job'[log[n].req] = job[log[n].req]
  BY <1>1, <1>2 DEF IInv, Written
<1>4. CASE UNCHANGED log
  BY <1>2, <1>3, <1>4 DEF IInv, Written
<1>5. CASE Log(r) /\ phase # "exiting"
  <2> DEFINE line == [req |-> r, status |-> job[r].status, claims |-> job[r].res]
  <2>1. log' = Append(log, line) /\ job' = [job EXCEPT ![r].pc = "ended"]
    BY <1>5 DEF Log
  <2>2. line \in Lines
    BY <1>2, JobsAreTyped DEF Lines
  <2>3. /\ Len(log) \in Nat /\ DOMAIN log = 1 .. Len(log) /\ DOMAIN log' = 1 .. Len(log) + 1
        /\ \A n \in DOMAIN log : log'[n] = log[n]
        /\ log'[Len(log) + 1] = line
    BY <1>2, <2>1, <2>2
  <2>4. job'[r].pc = "ended" /\ job'[r].status = job[r].status /\ job'[r].res = job[r].res
    BY <1>2, <2>1 DEF Jobs
  <2>5. ASSUME NEW n \in DOMAIN log'
        PROVE  LET k == job'[log'[n].req]
               IN  k.pc = "ended" /\ log'[n].status = k.status /\ log'[n].claims = k.res
    <3>1. CASE n \in DOMAIN log
      BY <1>2, <1>3, <2>3, <3>1 DEF IInv, Written
    <3>2. CASE n = Len(log) + 1
      BY <2>3, <2>4, <3>2
    <3> QED BY <2>3, <3>1, <3>2
  <2>6. ASSUME NEW m \in DOMAIN log', NEW n \in DOMAIN log', log'[m].req = log'[n].req
        PROVE  m = n
    <3>1. \A i \in DOMAIN log' : i \in DOMAIN log \/ (i = Len(log) + 1 /\ log'[i].req = r)
      BY <2>3
    <3> QED BY <1>3, <2>3, <2>6, <3>1 DEF IInv, Written
  <2> QED BY <1>2, <2>1, <2>2, <2>5, <2>6 DEF Written
<1> QED
  BY <1>4, <1>5 DEF Arrive, Handle, NoRoute, PassThrough, Unreadable, Apply, Recover, Processed,
     Refuse, Forward, TransportError, Answer, Event, Copied, Log, Main

(* What the main goroutine and the terminal do leaves the requests alone. *)
LEMMA StagesKeep ==
  ASSUME IInv, StartAgent \/ AgentEnds \/ Return \/ Interrupt
  PROVE  IInv'
<1>1. UNCHANGED <<static, job, log>>
  BY DEF StartAgent, AgentEnds, Return, OnExit, Stop, CloseServers, CloseLog, Exit, Interrupt, Enter
<1>2. /\ phase' \in Phases /\ agent' \in {"none", "running", "gone"} /\ wired' \in BOOLEAN
      /\ Staged'
  <2>1. agent \in {"none", "running", "gone"} /\ wired \in BOOLEAN /\ phase \in Phases /\ Staged
    BY DEF IInv, Typed
  <2>2. CASE StartAgent
    BY <2>1, <2>2 DEF Staged, Phases, StartAgent, Enter
  <2>3. CASE AgentEnds
    BY <2>1, <2>3 DEF Staged, Phases, AgentEnds, Enter
  <2>4. CASE Return
    <3>1. CASE OnExit
      BY <2>1, <3>1 DEF Staged, Phases, OnExit, Enter
    <3>2. CASE Stop \/ CloseServers \/ CloseLog \/ Exit
      <4>1. UNCHANGED <<agent, wired>>
        BY <3>2 DEF Stop, CloseServers, CloseLog, Exit
      <4>2. /\ phase \in {"stop", "close", "closelog", "exiting"}
            /\ phase' \in {"close", "closelog", "exiting", "exited"}
        BY <3>2 DEF Stop, CloseServers, CloseLog, Exit, Enter
      <4> QED BY <2>1, <4>1, <4>2 DEF Staged, Phases
    <3> QED BY <2>4, <3>1, <3>2 DEF Return
  <2>5. CASE Interrupt
    BY <2>1, <2>5 DEF Staged, Phases, Interrupt, Alive, SignalsCaught, Enter
  <2> QED BY <2>2, <2>3, <2>4, <2>5
<1> QED BY <1>1, <1>2 DEF IInv, Typed, Written

LEMMA InitIInv == ASSUME Init PROVE IInv
<1>1. NewJob \in Jobs
  <2>1. 0 \in 0 .. BufferEvents - 1
    <3>1. BufferEvents \in Nat \ {0}
      BY Zenon, ProxyAssumption
    <3> QED BY <3>1
  <2>2. AsIs(Empty) \in Outputs
    BY OutputsAreTyped, ProxyAssumption
  <2> QED BY <2>1, <2>2 DEF NewJob, Jobs, PCs, Codes
<1>2. Fits(NewJob)
  BY DEF Fits, NewJob
<1>3. log = <<>> /\ DOMAIN log = {} /\ log \in Seq(Lines)
  BY DEF Init
<1> QED BY <1>1, <1>2, <1>3 DEF Init, IInv, Typed, Written, Staged, Phases

LEMMA NextIInv == ASSUME IInv, [Next]_vars PROVE IInv'
<1>1. CASE UNCHANGED vars
  BY <1>1 DEF vars, IInv, Typed, Written, Staged
<1>2. ASSUME NEW r \in Requests, Arrive(r) \/ Handle(r)  PROVE IInv'
  <2>1. PICK j \in Jobs : /\ Fits(j) /\ job' = [job EXCEPT ![r] = j]
                          /\ UNCHANGED <<static, phase, agent, wired>>
    BY <1>2, HandlersFit
  <2>2. log' \in Seq(Lines) /\ Written'
    BY <1>2, HandlersWrite
  <2>3. job \in [Requests -> Jobs] /\ \A q \in Requests : Fits(job[q])
    BY DEF IInv, Typed
  <2>4. job' \in [Requests -> Jobs] /\ \A q \in Requests : Fits(job'[q])
    BY <2>1, <2>3
  <2>5. Staged'
    BY <2>1 DEF IInv, Staged
  <2> QED BY <2>1, <2>2, <2>4, <2>5 DEF IInv, Typed
<1> QED BY <1>1, <1>2, StagesKeep DEF Next, Over

LEMMA Invariance == Spec => []IInv
<1>1. Init => IInv
  BY InitIInv
<1>2. IInv /\ [Next]_vars => IInv'
  BY NextIInv
<1> QED BY <1>1, <1>2, PTL DEF Spec

(* Every variable keeps its type; the buffers of a reply stay below what     *)
(* flushes them (proxy.go:95-98).                                            *)
THEOREM TypeCorrect == Spec => []Typed
<1>1. IInv => Typed
  BY DEF IInv
<1> QED BY <1>1, Invariance, PTL

(* An interrupt, whenever it comes, leaves no agent running and no config    *)
(* pointing at the listener.                                                 *)
THEOREM InterruptsUnwind == Spec => []InterruptUnwinds
<1>1. IInv => InterruptUnwinds
  BY DEF IInv, Staged, InterruptUnwinds
<1> QED BY <1>1, Invariance, PTL

(* The request log is true, whatever failed, whoever left and whatever Run   *)
(* had taken down already.                                                   *)
THEOREM LogsAreTrue == Spec => []LogIsTrue
<1>1. ASSUME IInv PROVE LogIsTrue
  <2> SUFFICES ASSUME NEW n \in DOMAIN log
               PROVE  LET j == job[log[n].req]
                      IN  /\ j.seen \in {None, log[n].status}
                          /\ IF j.in.method = "GET"
                             THEN log[n].claims = AsIs(Empty)
                             ELSE IF j.got = None THEN log[n].status \in {400, 502}
                                                  ELSE log[n].claims = j.got
                          /\ \A m \in DOMAIN log : log[m].req = log[n].req => m = n
    BY DEF LogIsTrue
  <2>1. log[n].req \in Requests
    BY <1>1, LinesAreTyped DEF IInv, Typed
  <2>2. Fits(job[log[n].req])
    BY <1>1, <2>1 DEF IInv
  <2> QED BY <1>1, <2>2 DEF IInv, Written, Fits
<1> QED BY <1>1, Invariance, PTL

(* What a request looks like to the promise. *)
Asked(j) == IF j.in = None THEN None ELSE [family |-> "any", conv |-> j.in.body]

requests == [r \in Requests |-> Asked(job[r])]
replies == [r \in Requests |-> job[r].got]

LEMMA PromiseIsOfThese ==
  /\ Promise!Init <=> requests = [r \in Requests |-> None] /\ replies = [r \in Requests |-> None]
  /\ \A r : Promise!Receive(r) <=>
       /\ requests[r] = None
       /\ \E f \in {"any"}, conv \in Bodies :
            requests' = [requests EXCEPT ![r] = [family |-> f, conv |-> conv]]
       /\ UNCHANGED replies
  /\ \A r : Promise!Respond(r) <=>
       /\ requests[r] # None /\ replies[r] = None
       /\ replies' = [replies EXCEPT ![r] =
                        [fc \in {"any"} \X Bodies |-> Applied(fc[2])][<<requests[r].family, requests[r].conv>>]]
       /\ UNCHANGED requests
  /\ \A r : Promise!PassThrough(r) <=>
       /\ requests[r] # None /\ replies[r] = None
       /\ replies' = [replies EXCEPT ![r] = [body \in Bodies |-> AsIs(body)][requests[r].conv]]
       /\ UNCHANGED requests
BY DEF requests, replies, Asked, Promise!Init, Promise!Receive, Promise!Respond, Promise!PassThrough

(* Only an arrival and a forwarding touch what the promise speaks of. *)
LEMMA OthersStutter ==
  ASSUME IInv, NEW r \in Requests, Handle(r), ~Forward(r)
  PROVE  UNCHANGED <<requests, replies>>
<1>1. job \in [Requests -> Jobs]
  BY DEF IInv, Typed
<1>2. job[r] \in Jobs
  BY <1>1
<1> DEFINE Kept == \A q \in Requests : job'[q].in = job[q].in /\ job'[q].got = job[q].got
<1>3. CASE NoRoute(r) \/ Unreadable(r) \/ TransportError(r)
  <2>1. PICK code : Refuse(r, code)
    BY <1>3 DEF NoRoute, Unreadable, TransportError
  <2>2. Kept
    BY <1>1, <1>2, <2>1 DEF Refuse, Jobs
  <2> QED BY <2>2 DEF requests, replies, Asked
<1>4. CASE PassThrough(r)
  <2>1. Kept
    BY <1>1, <1>2, <1>4 DEF PassThrough, Jobs
  <2> QED BY <2>1 DEF requests, replies, Asked
<1>5. CASE Apply(r) \/ Recover(r)
  <2>1. PICK out : Processed(r, out)
    BY <1>5 DEF Apply, Recover
  <2>2. Kept
    BY <1>1, <1>2, <2>1 DEF Processed, Jobs
  <2> QED BY <2>2 DEF requests, replies, Asked
<1>6. CASE Answer(r)
  <2>1. Kept
    BY <1>1, <1>2, <1>6 DEF Answer, Jobs
  <2> QED BY <2>1 DEF requests, replies, Asked
<1>7. CASE Event(r) \/ Copied(r)
  <2>1. CASE Event(r)
    <3>1. PICK held : job' = [job EXCEPT ![r].held = held]
      BY <1>1, <2>1 DEF Event
    <3>2. Kept
      BY <1>1, <1>2, <3>1 DEF Jobs
    <3> QED BY <3>2 DEF requests, replies, Asked
  <2>2. CASE Copied(r)
    <3>1. Kept
      BY <1>1, <1>2, <2>2 DEF Copied, Jobs
    <3> QED BY <3>1 DEF requests, replies, Asked
  <2> QED BY <1>7, <2>1, <2>2
<1>8. CASE Log(r)
  <2>1. Kept
    BY <1>1, <1>2, <1>8 DEF Log, Jobs
  <2> QED BY <2>1 DEF requests, replies, Asked
<1> QED BY <1>3, <1>4, <1>5, <1>6, <1>7, <1>8 DEF Handle

(* The proxy implements Squeeze for the bodies it is given, through every    *)
(* failure of the engine, the transport, the client and the session.         *)
THEOREM ProxyImplementsSqueeze == Spec => ForwardsPromise
<1>1. Init => Promise!Init
  <2>1. ASSUME Init PROVE Promise!Init
    <3>1. \A r \in Requests : Asked(job[r]) = None /\ job[r].got = None
      BY <2>1 DEF Init, NewJob, Asked
    <3> QED BY <3>1, PromiseIsOfThese DEF requests, replies
  <2> QED BY <2>1
<1>2. ASSUME IInv, [Next]_vars  PROVE [Promise!Next]_<<requests, replies>>
  <2>1. CASE UNCHANGED <<static, job>>
    BY <2>1 DEF requests, replies, Asked
  <2>2. CASE \E r \in Requests : Arrive(r) \/ Handle(r)
    <3>1. PICK r \in Requests : Arrive(r) \/ Handle(r)
      BY <2>2
    <3>2. PICK j : j = job[r] /\ j \in Jobs /\ Fits(j) /\ job \in [Requests -> Jobs]
      BY <1>2 DEF IInv, Typed
    <3>3. CASE Arrive(r)
      <4>1. PICK in \in Inbound : job' = [job EXCEPT ![r] = [@ EXCEPT !.in = in, !.pc = "route"]]
        BY <3>3 DEF Arrive
      <4>2. in # None /\ in.body \in Bodies /\ j.in = None
        <5>1. None \notin Inbound
          BY Zenon, ProxyAssumption
        <5>2. in.body \in Bodies
          BY DEF Inbound
        <5> QED BY <3>2, <3>3, <5>1, <5>2 DEF Arrive, At, Fits
      <4>3. /\ requests[r] = None
            /\ job'[r].in = in /\ job'[r].got = job[r].got
            /\ \A q \in Requests : q # r => job'[q] = job[q]
        BY <3>2, <4>1, <4>2 DEF Jobs, requests, Asked
      <4>4. UNCHANGED replies
        BY <4>3 DEF replies
      <4>5. requests' = [requests EXCEPT ![r] = [family |-> "any", conv |-> in.body]]
        BY <4>2, <4>3 DEF requests, Asked
      <4>6. Promise!Receive(r)
        BY <4>2, <4>3, <4>4, <4>5, PromiseIsOfThese
      <4> QED BY <4>6 DEF Promise!Next
    <3>4. CASE Forward(r)
      <4>1. PICK body \in Sent(r) :
              job' = [job EXCEPT ![r] = [@ EXCEPT !.got = body, !.to = Target(r), !.pc = "waiting"]]
        BY <3>4 DEF Forward
      <4>2. /\ j.pc = "forward" /\ j.in # None /\ j.got = None
            /\ j.out \in {Applied(j.in.body), AsIs(j.in.body)}
            /\ j.in.body \in Bodies
            /\ body \in {j.out, None}
        BY <3>2, <3>4, <4>1, JobsAreTyped DEF Forward, At, Fits, Sent
      <4>3. /\ job'[r].in = j.in /\ job'[r].got = body
            /\ \A q \in Requests : q # r => job'[q] = job[q]
        BY <3>2, <4>1 DEF Jobs
      <4>4. UNCHANGED requests
        BY <3>2, <4>3 DEF requests, Asked
      <4>5. replies' = [replies EXCEPT ![r] = body] /\ replies[r] = None
        BY <3>2, <4>2, <4>3 DEF replies
      <4>6. CASE body = None
        <5>1. UNCHANGED replies
          BY <4>2, <4>5, <4>6 DEF replies
        <5> QED BY <4>4, <5>1
      <4>7. CASE body = j.out
        <5>1. requests[r] # None /\ requests[r].family = "any" /\ requests[r].conv = j.in.body
          <6>1. requests[r] = [family |-> "any", conv |-> j.in.body]
            BY <3>2, <4>2 DEF requests, Asked
          <6>2. requests[r] \in [family : {"any"}, conv : Bodies]
            BY <4>2, <6>1
          <6>3. None \notin [family : {"any"}, conv : Bodies]
            BY Zenon, ProxyAssumption
          <6> QED BY <6>1, <6>2, <6>3
        <5>2. /\ [b \in Bodies |-> AsIs(b)][requests[r].conv] = AsIs(j.in.body)
              /\ [fc \in {"any"} \X Bodies |-> Applied(fc[2])]
                   [<<requests[r].family, requests[r].conv>>] = Applied(j.in.body)
          <6>1. PICK mine : mine = <<requests[r].family, requests[r].conv>>
            OBVIOUS
          <6>2. mine \in {"any"} \X Bodies /\ mine[2] = j.in.body /\ j.in.body \in Bodies
            BY <4>2, <5>1, <6>1
          <6> QED BY <5>1, <6>1, <6>2
        <5>3. Promise!Respond(r) \/ Promise!PassThrough(r)
          BY <4>2, <4>4, <4>5, <4>7, <5>1, <5>2, PromiseIsOfThese
        <5> QED BY <5>3 DEF Promise!Next
      <4> QED BY <4>2, <4>6, <4>7
    <3>5. CASE Handle(r) /\ ~Forward(r)
      BY <1>2, <3>5, OthersStutter
    <3> QED BY <3>1, <3>3, <3>4, <3>5
  <2>3. CASE StartAgent \/ AgentEnds \/ Return \/ Interrupt
    <3>1. UNCHANGED <<static, job>>
      BY <2>3 DEF StartAgent, AgentEnds, Return, OnExit, Stop, CloseServers, CloseLog, Exit, Interrupt, Enter
    <3> QED BY <2>1, <3>1
  <2> QED BY <1>2, <2>1, <2>2, <2>3 DEF Next, Over, vars
<1> QED BY <1>1, <1>2, Invariance, PTL DEF Spec, ForwardsPromise, Promise!Spec, requests, replies, Asked
=============================================================================
