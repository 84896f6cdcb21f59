-------------------------------- MODULE Proxy --------------------------------
(* One wrap session (internal/wrap/wrap.go, Run) and the requests its        *)
(* listener serves (internal/proxy/proxy.go, ServeHTTP) at the same time:    *)
(* the main goroutine starts the agent, waits for it and takes everything    *)
(* down in the order of its defers, whatever the handlers are doing.  The    *)
(* engine is the outcome of one step (see Engine); net/http, the client, the *)
(* upstream and the terminal's interrupt are external.                       *)
EXTENDS Naturals, Sequences

CONSTANTS
  Requests,     \* calls of ServeHTTP
  Bodies,       \* request bodies
  Empty,        \* the body of no bytes
  Shrinking,    \* those Apply changes
  Statics,      \* the static upstreams a session may have, None among them
  Other,        \* the upstream a routing header names
  Statuses,     \* what upstreams answer with
  None,
  BufferEvents  \* events that fill the buffers of the response writer

VARIABLES
  static,       \* Server.upstream
  job,          \* one record per request, see NewJob
  log,          \* lines of the request log: [req, status, claims]
  phase,        \* where Run is
  agent,        \* "none", "running" or "gone"
  wired         \* the agent's config points at the listener

vars == <<static, job, log, phase, agent, wired>>

AsIs(body) == <<"as is", body>>
Applied(body) == IF body \in Shrinking THEN <<"squeezed", body>> ELSE AsIs(body)

(* in: what the client sent; out: the body to forward; got: the body the     *)
(* upstream was sent to its end; res: the bytes the engine's report speaks   *)
(* of, none in the zero Result; status: rec.status; seen: the status the     *)
(* client received; held: the events of a streamed reply that are on their   *)
(* way to the client.                                                        *)
NewJob ==
  [pc |-> "idle", in |-> None, out |-> None, got |-> None, to |-> None, res |-> AsIs(Empty),
   reported |-> FALSE, status |-> 200, seen |-> None, held |-> 0]

(* "GET" stands for GET and HEAD, "POST" for every other method.  A server   *)
(* gives each request a body, an empty one when the client sends none; only  *)
(* one with bytes to come can break off.                                     *)
Inbound ==
  {in \in [method : {"GET", "POST"}, body : Bodies, readable : BOOLEAN,
           header : {"none", "valid", "malformed"}] :
     in.body = Empty => in.readable}

(* None is no request, no body and no upstream. *)
ASSUME ProxyAssumption ==
  /\ Shrinking \subseteq Bodies
  /\ Empty \in Bodies \ Shrinking
  /\ None \notin Bodies \cup {Other}
  /\ None \notin Inbound \cup ({"as is", "squeezed"} \X Bodies) \cup [family : {"any"}, conv : Bodies]
  /\ BufferEvents \in Nat \ {0}

Alive == phase \notin {"exited", "killed"}
Connected == phase \in {"opening", "agent", "onexit", "stop", "close"}

At(r, pc) == Alive /\ job[r].pc = pc
Sees(code) == IF Connected THEN code ELSE None
Main == <<static, log, phase, agent, wired>>
-----------------------------------------------------------------------------
(* The handler *)

Arrive(r) ==
  /\ Connected
  /\ At(r, "idle")
  /\ \E in \in Inbound : job' = [job EXCEPT ![r] = [@ EXCEPT !.in = in, !.pc = "route"]]
  /\ UNCHANGED Main

RefuseUnrecorded(r, code) ==            \* mutant: http.Error gets w instead of rec
  /\ job' = [job EXCEPT ![r] = [@ EXCEPT !.seen = Sees(code), !.pc = "log"]]
  /\ UNCHANGED Main

(* http.Error: the proxy answers itself. *)
Refuse(r, code) ==
  /\ job' = [job EXCEPT ![r] = [@ EXCEPT !.status = code, !.seen = Sees(code), !.pc = "log"]]
  /\ UNCHANGED Main

HasRoute(r) == static # None \/ job[r].in.header # "none"

NoRoute(r) == At(r, "route") /\ ~HasRoute(r) /\ Refuse(r, 502)

(* GET and HEAD: the body, if there is one, goes on as it comes, uncounted. *)
PassThrough(r) ==
  /\ At(r, "route") /\ HasRoute(r)
  /\ job[r].in.method = "GET"
  /\ job' = [job EXCEPT ![r] = [@ EXCEPT !.out = AsIs(job[r].in.body), !.pc = "forward"]]
  /\ UNCHANGED Main

Unreadable(r) ==
  /\ At(r, "route") /\ HasRoute(r)
  /\ job[r].in.method # "GET"
  /\ ~job[r].in.readable \/ ~Connected
  /\ Refuse(r, 400)

(* The body, the report and the three response headers of a processed body. *)
Processed(r, out) ==
  /\ At(r, "route") /\ HasRoute(r)
  /\ job[r].in.method # "GET" /\ job[r].in.readable
  /\ job' = [job EXCEPT ![r] = [@ EXCEPT !.out = out, !.res = out, !.reported = TRUE, !.pc = "forward"]]
  /\ UNCHANGED Main

Apply(r) == Processed(r, Applied(job[r].in.body))

RecoverWithoutBody(r) ==                \* mutant: out is left nil
  Processed(r, AsIs(None))

(* safeProcess: a panic degrades to the original bytes. *)
Recover(r) == Processed(r, AsIs(job[r].in.body))

(* Rewrite: a header that does not parse is dropped, the static upstream     *)
(* stays.                                                                    *)
Target(r) == IF job[r].in.header = "valid" THEN Other ELSE static

(* A body that was not read before is read from the client while it is sent, *)
(* and may break off.                                                        *)
Sent(r) ==
  LET j == job[r]
  IN  {body \in {j.out, None} :
         IF body = None THEN ~j.reported /\ ~(j.in.readable /\ Connected) ELSE j.in.readable}

Forward(r) ==
  /\ At(r, "forward")
  /\ Target(r) # None
  /\ \E body \in Sent(r) :
       job' = [job EXCEPT ![r] = [@ EXCEPT !.got = body, !.to = Target(r), !.pc = "waiting"]]
  /\ UNCHANGED Main

(* The transport fails, before or after the upstream has the request, or the *)
(* client has gone: ReverseProxy answers 502.                                *)
TransportError(r) == (At(r, "forward") \/ At(r, "waiting")) /\ Refuse(r, 502)

Answer(r) ==
  /\ At(r, "waiting")
  /\ \E code \in Statuses :
       job' = [job EXCEPT ![r] = [@ EXCEPT !.status = code, !.seen = Sees(code), !.pc = "copying"]]
  /\ UNCHANGED Main

(* An event of a streamed reply.  The status recorder has no Flush, so it    *)
(* stays in the buffers until they are full or the reply ends.               *)
Event(r) ==
  /\ At(r, "copying")
  /\ job' = [job EXCEPT ![r].held = (@ + 1) % BufferEvents]
  /\ UNCHANGED Main

(* The end of the reply, or of the copy: a failure on the way panics with    *)
(* ErrAbortHandler, through the deferred log.                                *)
Copied(r) ==
  /\ At(r, "copying")
  /\ job' = [job EXCEPT ![r] = [@ EXCEPT !.held = 0, !.pc = "log"]]
  /\ UNCHANGED Main

(* The deferred log line, under logMu; once the file is closed it is lost. *)
Log(r) ==
  /\ At(r, "log")
  /\ log' = IF phase = "exiting" THEN log
            ELSE Append(log, [req |-> r, status |-> job[r].status, claims |-> job[r].res])
  /\ job' = [job EXCEPT ![r].pc = "ended"]
  /\ UNCHANGED <<static, phase, agent, wired>>

Handle(r) ==
  \/ NoRoute(r) \/ PassThrough(r) \/ Unreadable(r) \/ Apply(r) \/ Recover(r)
  \/ Forward(r) \/ TransportError(r) \/ Answer(r) \/ Event(r) \/ Copied(r) \/ Log(r)
-----------------------------------------------------------------------------
(* Run.  The config is wired before it is called, the listener is up.        *)

Init ==
  /\ static \in Statics
  /\ job = [r \in Requests |-> NewJob]
  /\ log = <<>>
  /\ phase = "opening"
  /\ agent = "none"
  /\ wired = TRUE

Enter(next) == phase' = next /\ UNCHANGED <<static, job, log>>

(* signal.NotifyContext, then cmd.Run. *)
StartAgent == phase = "opening" /\ agent' = "running" /\ Enter("agent") /\ UNCHANGED wired

(* The agent exits, or is killed with its context when a signal arrives. *)
AgentEnds == phase = "agent" /\ agent' = "gone" /\ Enter("onexit") /\ UNCHANGED wired

(* The defers, last one first. *)
OnExit == phase = "onexit" /\ wired' = FALSE /\ Enter("stop") /\ UNCHANGED agent
Stop == phase = "stop" /\ Enter("close") /\ UNCHANGED <<agent, wired>>

ShutDownGracefully ==                   \* mutant: Shutdown instead of Close
  /\ phase = "close"
  /\ \A r \in Requests : job[r].pc \in {"idle", "ended"}
  /\ Enter("closelog") /\ UNCHANGED <<agent, wired>>

(* srv.Close cuts the connections and waits for no handler. *)
CloseServers == phase = "close" /\ Enter("closelog") /\ UNCHANGED <<agent, wired>>
CloseLog == phase = "closelog" /\ Enter("exiting") /\ UNCHANGED <<agent, wired>>
Exit == phase = "exiting" /\ Enter("exited") /\ UNCHANGED <<agent, wired>>

Return == OnExit \/ Stop \/ CloseServers \/ CloseLog \/ Exit

CaughtWhileRunning == phase = "agent"   \* mutant: stop() before OnExit

(* From NotifyContext to stop(). *)
SignalsCaught == phase \in {"agent", "onexit", "stop"}

(* A signal ends the agent (AgentEnds) while it is caught, else the process. *)
Interrupt ==
  /\ Alive /\ ~SignalsCaught
  /\ Enter("killed") /\ UNCHANGED <<agent, wired>>

Over == ~Alive /\ UNCHANGED vars

Next ==
  \/ \E r \in Requests : Arrive(r) \/ Handle(r)
  \/ StartAgent \/ AgentEnds \/ Return \/ Interrupt \/ Over

Spec == Init /\ [][Next]_vars

(* Once the agent is gone the main goroutine runs on; clients, upstreams and *)
(* so the handlers owe nothing: neither side has a timeout.                  *)
FairSpec == Spec /\ WF_vars(Return)
-----------------------------------------------------------------------------
Promise ==
  INSTANCE Squeeze
    WITH Families <- {"any"}, Conversations <- Bodies,
         Outcome <- [fc \in {"any"} \X Bodies |-> Applied(fc[2])],
         Original <- [body \in Bodies |-> AsIs(body)],
         request <- [r \in Requests |->
                       IF job[r].in = None THEN None
                       ELSE [family |-> "any", conv |-> job[r].in.body]],
         reply <- [r \in Requests |-> job[r].got]

(* What reaches the upstream, whatever fails on the way: a body, once, as    *)
(* the engine makes it or, of a GET or after a panic, as it came             *)
(* (proxy.go:143-182).                                                       *)
ForwardsPromise == Promise!Spec

(* The log tells what happened: there is one line per request, its status is *)
(* what the client received, and the bytes it reports are those the upstream *)
(* received; of a GET, whose body goes on uncounted, it reports none, and    *)
(* any other request that sent nothing was refused (proxy.go:107-168).       *)
LogIsTrue ==
  \A n \in DOMAIN log :
    LET j == job[log[n].req]
    IN  /\ j.seen \in {None, log[n].status}
        /\ IF j.in.method = "GET"
           THEN log[n].claims = AsIs(Empty)
           ELSE IF j.got = None THEN log[n].status \in {400, 502} ELSE log[n].claims = j.got
        /\ \A m \in DOMAIN log : log[m].req = log[n].req => m = n

(* From the moment the agent runs, no interrupt leaves it running or its     *)
(* config pointing at a listener that is gone (wrap.go:136-145, 167-185).    *)
InterruptUnwinds ==
  phase \in {"exited", "killed"} /\ agent # "none" => agent = "gone" /\ ~wired

(* Once the agent has exited, squoze does too, also with requests an         *)
(* upstream never answers (wrap.go:167, 182-185).                            *)
ExitsAnyway == agent = "gone" ~> ~Alive

(* "If the engine panics or the body is unreadable, the original bytes go    *)
(* upstream unchanged" (proxy.go:5-6).                                       *)
UnreadableGoesUpstream == \A r \in Requests : job[r].status = 400 => job[r].got # None

(* "Every response carries X-Squoze-Original-Bytes, ..." (README:154).       *)
EveryResponseReports == \A r \in Requests : job[r].seen # None => job[r].reported

(* "write a full JSONL request log" (main.go:99): what an upstream received  *)
(* is in the log when squoze has exited.                                     *)
FullLog ==
  phase = "exited" =>
    \A r \in Requests : job[r].got # None => \E n \in DOMAIN log : log[n].req = r

(* "one object per request" with the bytes sent (proxy.go:37, 120-131): the  *)
(* bytes of a line are those the upstream received, whatever the method.     *)
BytesAreCounted ==
  \A n \in DOMAIN log :
    job[log[n].req].got # None => log[n].claims = job[log[n].req].got

(* "squoze never breaks a request" (proxy.go:5): an event an upstream sends  *)
(* reaches a client that stays.                                              *)
EventsArrive ==
  \A r \in Requests : job[r].held > 0 ~> job[r].held = 0 \/ ~Connected
=============================================================================
