---------------------------- MODULE TunnelStreams ----------------------------
(***************************************************************************)
(* The requests of one framed tunnel session of the docker bridge, and the *)
(* tunnel agent at the other end of its exec stream.                       *)
(*                                                                         *)
(* A request comes from tunnel traffic (Direct: the response is buffered,  *)
(* 30 s for all of it), from the session proxy (Streaming: 30 s for the    *)
(* headers, then open until somebody ends it) or from a WebSocket client   *)
(* of the session (Socket: no time limit).  Each takes a slot of the       *)
(* session's limiter.  All share one exec stream in each direction: the    *)
(* agent answers with text frames that name their stream and binary frames *)
(* that do not, which go to the stream `next' names.                       *)
(*                                                                         *)
(* Frames are handled in the order in which they are written and neither   *)
(* side waits for the other to read, so a step of the writer is also the   *)
(* step of the reader; an unread frame is a frame not written yet.         *)
(*                                                                         *)
(* A definition under "Mutant:" is a bug put in place of the next one to   *)
(* see a property fail; it is no part of the specification.                *)
(***************************************************************************)
EXTENDS Integers, Sequences, FiniteSets

CONSTANTS
  Direct, Streaming, Socket,  \* the requests, by where they come from
  HasBody,        \* the requests with a body, sent as a second frame
  Client,         \* WebSocket clients of the session
  Ephemeral,      \* whether the session's mode is ephemeral
  MaxConcurrent,  \* maxConcurrentPerSession
  MaxTeardowns,   \* bound: calls of teardown
  None

Stream == Direct \cup Streaming \cup Socket
Teardown == 1 .. MaxTeardowns

ASSUME StreamAssumption ==
  /\ Direct \cap Streaming = {} /\ Direct \cap Socket = {} /\ Streaming \cap Socket = {}
  /\ IsFiniteSet(Stream)
  /\ HasBody \subseteq Stream
  /\ Client \cap Stream = {}
  /\ None \notin Stream \cup Client

ASSUME LimitAssumption ==
  /\ Ephemeral \in BOOLEAN
  /\ MaxConcurrent \in Nat
  /\ MaxTeardowns \in Nat

VARIABLES
  sess,       \* session.state; "gone" once it has left the manager and limiter
  tear,       \* of each call of teardown: where it is
  pipe,       \* the exec stream; "ended" by the bridge, "broken" when the agent
              \* is gone, "closed" once its last event has been handled
  heartbeat,  \* whether the dead-agent timer is armed
  clients,    \* session.clients, in the order of attachment; the session proxy
              \* attaches a sentinel, named after its request
  grace,      \* whether the ephemeral grace timer is armed
  inFlight,   \* the session's count in the limiter
  pend,       \* pendingHTTPResponses
  via,        \* the session's stream map: the client a response goes to
  outcome,    \* of each request: what its caller has been told; "over" is an
              \* error, a time-out, a cancellation, a client that has left
  sending,    \* of each request: whether a write is outstanding
  next,       \* nextBinaryStreamId
  expect,     \* the request whose body frame the agent reads next
  agent,      \* of each request: how far the agent is with it
  binary,     \* the stream whose binary frame the agent writes next
  missed,     \* of each response: whether a chunk has not reached its caller
  foreign     \* of each response: other streams whose chunks did

session == <<sess, tear, pipe, heartbeat>>
routes  == <<clients, grace, inFlight, pend, via, outcome>>
remote  == <<expect, agent>>
bodies  == <<binary, missed, foreign>>
vars == <<sess, tear, pipe, heartbeat, clients, grace, inFlight, pend, via, outcome,
          sending, next, expect, agent, binary, missed, foreign>>

TypeOK ==
  /\ sess \in {"active", "closing", "gone"}
  /\ tear \in [Teardown -> {"idle", "begun", "cleared", "done"}]
  /\ pipe \in {"open", "ended", "broken", "closed"}
  /\ heartbeat \in BOOLEAN
  /\ clients \in Seq(Client \cup Streaming)
  /\ grace \in BOOLEAN
  /\ inFlight \in 0 .. MaxConcurrent
  /\ pend \subseteq Direct \cup Streaming
  /\ via \in [Socket -> Client \cup Streaming \cup {None}]
  /\ outcome \in [Stream -> {"idle", "waiting", "streaming", "ok", "over"}]
  /\ sending \in [Stream -> BOOLEAN]
  /\ next \in Stream \cup {None}
  /\ expect \in Stream \cup {None}
  /\ agent \in [Stream -> {"none", "run", "body", "done"}]
  /\ binary \in Stream \cup {None}
  /\ missed \in [Stream -> BOOLEAN]
  /\ foreign \in [Stream -> SUBSET Stream]

\* The agent has reported ready: the session is active and its timer armed.
Init ==
  /\ sess = "active"
  /\ tear = [t \in Teardown |-> "idle"]
  /\ pipe = "open"
  /\ heartbeat = TRUE
  /\ clients = <<>>
  /\ grace = FALSE
  /\ inFlight = 0
  /\ pend = {}
  /\ via = [s \in Socket |-> None]
  /\ outcome = [s \in Stream |-> "idle"]
  /\ sending = [s \in Stream |-> FALSE]
  /\ next = None
  /\ expect = None
  /\ agent = [s \in Stream |-> "none"]
  /\ binary = None
  /\ missed = [s \in Stream |-> FALSE]
  /\ foreign = [s \in Stream |-> {}]

-----------------------------------------------------------------------------
(* Clients, slots, and the ends of requests. *)

Entry == {s \in Socket : via[s] # None}
Waited == pend \cup Entry

Attached(c) == \E i \in 1 .. Len(clients) : clients[i] = c

\* The clients without c, which is attached at most once.
Without(c) ==
  IF ~Attached(c) THEN clients
  ELSE LET i == CHOOSE j \in 1 .. Len(clients) : clients[j] = c
       IN  SubSeq(clients, 1, i - 1) \o SubSeq(clients, i + 1, Len(clients))

\* SessionConcurrencyLimiter.release, n times.
Release(n) == IF inFlight >= n THEN inFlight - n ELSE 0

\* The entries that detach removes with client c.
Orphans(c) ==
  IF sess = "active" /\ Attached(c) THEN {s \in Entry : via[s] = c} ELSE {}

\* The entries D leave the stream map.
Forget(D) == via' = [s \in Socket |-> IF s \in D THEN None ELSE via[s]]

\* What the callers of D are told; the entries E go without a word.
Tell(D, how, E) ==
  outcome' = [s \in Stream |-> IF s \in D THEN how
                               ELSE IF s \in E THEN "over" ELSE outcome[s]]

\* detach: the last client of an ephemeral session leaves it to the grace timer.
Leave(c) ==
  /\ clients' = Without(c)
  /\ grace' = (grace \/ (/\ Attached(c) /\ sess = "active"
                         /\ Ephemeral /\ Without(c) = <<>>))
  /\ Forget(Orphans(c))

\* A pending response is settled: it gives back its slot, and the sentinel of a
\* streaming one is detached unless it was before.
Settle(s, how) ==
  /\ pend' = pend \ {s}
  /\ inFlight' = Release(1 + Cardinality(Orphans(s)))
  /\ Tell({s}, how, Orphans(s))
  /\ Leave(s)

\* Whether what is sent to the caller of s gets there: the entry of a client's
\* request may name the sentinel of a streaming one, which has no `send'.
Reaches(s) == s \in Socket => via[s] \in Client

\* The response to a client's request has been passed on, or dropped.
SettleEntry(s, how) ==
  /\ Forget({s})
  /\ inFlight' = Release(1)
  /\ Tell({s}, IF Reaches(s) THEN how ELSE "over", {})
  /\ UNCHANGED <<pend, clients, grace>>

-----------------------------------------------------------------------------
(* What the agent reads. *)

\* A request with a body is run after one more frame, whatever that frame is; a
\* request that arrives as that frame is lost.
ReadRequest(s) ==
  \/ /\ expect # None
     /\ agent' = [agent EXCEPT ![expect] = "run"]
     /\ expect' = None
  \/ /\ expect = None /\ s \in HasBody
     /\ expect' = s
     /\ UNCHANGED agent
  \/ /\ expect = None /\ s \notin HasBody
     /\ agent' = [agent EXCEPT ![s] = "run"]
     /\ UNCHANGED expect

\* A binary frame, or a stream_close.  Outside a body the first is dropped, and
\* the second cancels a request that may end at any time anyway.
ReadOther ==
  \/ /\ pipe = "open" /\ expect # None
     /\ agent' = [agent EXCEPT ![expect] = "run"]
     /\ expect' = None
  \/ (pipe # "open" \/ expect = None) /\ UNCHANGED remote

-----------------------------------------------------------------------------
(* Requests. *)

\* Mutant: one request more than the limit.
CanAcquireOneMore == sess # "gone" /\ inFlight <= MaxConcurrent

CanAcquire == sess # "gone" /\ inFlight < MaxConcurrent

\* No slot: a 429.  The sentinel of a streaming request comes and goes.
Refuse(s) ==
  /\ outcome[s] = "idle"
  /\ s \in Socket => sess # "gone" /\ clients # <<>>
  /\ ~CanAcquire
  /\ Tell({s}, "over", {})
  /\ grace' = IF s \in Streaming
                THEN sess = "active" /\ Ephemeral /\ clients = <<>> ELSE grace
  /\ UNCHANGED <<session, clients, inFlight, pend, via, sending, next, remote, bodies>>

\* A request takes its slot and its text frame is written.  An open stream takes
\* the frame; the write is outstanding if it fails, or if the body is to follow.
Send(s) ==
  /\ outcome[s] = "idle"
  /\ CanAcquire
  /\ inFlight' = inFlight + 1
  /\ Tell({s}, "waiting", {})
  /\ sending' = [sending EXCEPT ![s] = pipe # "open" \/ s \in HasBody]
  /\ \/ pipe = "open" /\ ReadRequest(s)
     \/ pipe # "open" /\ UNCHANGED remote
  /\ UNCHANGED <<session, next, bodies>>

\* proxyHTTPDirect.  Its caller looked the session up before it read the body of
\* the request, so the session may be gone by now.
ProxyDirect(s) ==
  /\ s \in Direct
  /\ Send(s)
  /\ pend' = pend \cup {s}
  /\ UNCHANGED <<clients, grace, via>>

\* Mutant: no sentinel.
ProxyStreamingUnattached(s) ==
  /\ s \in Streaming
  /\ Send(s)
  /\ pend' = pend \cup {s}
  /\ UNCHANGED <<clients, grace, via>>

\* The session proxy attaches its sentinel and calls proxyHTTPStreaming.  For a
\* framed session attach awaits nothing, so both are in one turn of the loop.
ProxyStreaming(s) ==
  /\ s \in Streaming
  /\ Send(s)
  /\ pend' = pend \cup {s}
  /\ clients' = Append(clients, s)
  /\ grace' = FALSE
  /\ UNCHANGED via

\* proxyHTTPRequest: a client asks, and the last attached one gets the answer.
ProxyRequest(s) ==
  /\ s \in Socket
  /\ clients # <<>>
  /\ Send(s)
  /\ via' = [via EXCEPT ![s] = clients[Len(clients)]]
  /\ UNCHANGED <<clients, grace, pend>>

\* The body follows when the text frame has been flushed.
SendBody(s) ==
  /\ sending[s]
  /\ pipe = "open"
  /\ sending' = [sending EXCEPT ![s] = FALSE]
  /\ ReadOther
  /\ UNCHANGED <<session, routes, next, bodies>>

\* A write fails.  The handler of a direct request gives a slot back without a
\* look at whether the request still has one; the one of a client's request
\* leaves its entry and its slot.
WriteFails(s) ==
  /\ sending[s]
  /\ pipe # "open"
  /\ sending' = [sending EXCEPT ![s] = FALSE]
  /\ \/ s \in pend /\ Settle(s, "over")
     \/ /\ s \in Direct /\ s \notin pend
        /\ inFlight' = Release(1)
        /\ UNCHANGED <<clients, grace, pend, via, outcome>>
     \/ s \notin Direct /\ s \notin pend /\ UNCHANGED routes
  /\ UNCHANGED <<session, next, remote, bodies>>

\* Mutant: the slot is not given back.
TimeoutKeepsSlot(s) ==
  /\ s \in pend
  /\ outcome[s] = "waiting"
  /\ pend' = pend \ {s}
  /\ Tell({s}, "over", Orphans(s))
  /\ Leave(s)
  /\ UNCHANGED <<session, inFlight, sending, next, remote, bodies>>

\* Mutant: the timer of a direct request is stopped by the headers, too.
TimeoutBeforeHeaders(s) ==
  /\ s \in pend
  /\ outcome[s] = "waiting"
  /\ agent[s] # "body"
  /\ Settle(s, "over")
  /\ UNCHANGED <<session, sending, next, remote, bodies>>

\* The timer: the agent is not told.
Timeout(s) ==
  /\ s \in pend
  /\ outcome[s] = "waiting"
  /\ Settle(s, "over")
  /\ UNCHANGED <<session, sending, next, remote, bodies>>

\* The consumer of a streaming response goes away, and the stream's cancel
\* callback sends a stream_close.
Cancel(s) ==
  /\ s \in pend
  /\ outcome[s] = "streaming"
  /\ Settle(s, "over")
  /\ ReadOther
  /\ UNCHANGED <<session, sending, next, bodies>>

\* A client leaves, or the sentinel of a stream that goes on.
Detach(c) ==
  /\ Attached(c)
  /\ Leave(c)
  /\ inFlight' = Release(Cardinality(Orphans(c)))
  /\ Tell({}, "over", Orphans(c))
  /\ UNCHANGED <<session, pend, sending, next, remote, bodies>>

\* The abort signal of the consumer, without a cancel of the stream.
Abort(s) == s \in pend /\ outcome[s] = "streaming" /\ Detach(s)

-----------------------------------------------------------------------------
(* Frames of the agent, and their handlers in the bridge. *)

\* Frames of requests that arrive when the session is gone find nobody.
Heard == sess # "gone" /\ pipe \in {"open", "ended"} /\ binary = None

\* http_response.  The headers of a body that follows make the stream the one
\* that the next binary frame is for.
Respond(s, follows) ==
  /\ Heard
  /\ agent[s] = "run"
  /\ agent' = [agent EXCEPT ![s] = IF follows THEN "body" ELSE "done"]
  /\ \/ /\ s \in pend /\ follows
        /\ next' = s
        /\ Tell({s} \cap Streaming, "streaming", {})
        /\ UNCHANGED <<clients, grace, inFlight, pend, via>>
     \/ s \in pend /\ ~follows /\ Settle(s, "ok") /\ UNCHANGED next
     \/ s \in Entry /\ ~follows /\ SettleEntry(s, "ok") /\ UNCHANGED next
     \/ s \notin pend /\ (s \in Entry => follows) /\ UNCHANGED <<routes, next>>
  /\ UNCHANGED <<session, sending, expect, bodies>>

\* Mutant: a stream that expects its body keeps its place.
ChunkKeepsNext(s) ==
  /\ Heard
  /\ agent[s] = "body"
  /\ binary' = s
  /\ next' = IF s \in Waited /\ next = None THEN s ELSE next
  /\ UNCHANGED <<session, routes, sending, remote, missed, foreign>>

\* body_chunk, whose binary frame follows at once.  A stream nobody waits for
\* leaves `next' as it is.
Chunk(s) ==
  /\ Heard
  /\ agent[s] = "body"
  /\ binary' = s
  /\ next' = IF s \in Waited THEN s ELSE next
  /\ UNCHANGED <<session, routes, sending, remote, missed, foreign>>

\* A chunk of s goes to the caller of n, or to all clients and no caller.
Route(s, n) ==
  /\ missed' = [missed EXCEPT ![s] = @ \/ s # n \/ ~Reaches(s)]
  /\ foreign' = [r \in Stream |-> foreign[r] \cup
                   (IF r = n /\ Reaches(r) THEN {s} \ {r} ELSE {})]

\* handleAgentBinary: the frame goes to the stream `next' names.  A streaming
\* response whose consumer has fallen too far behind is ended.  (expectingBinary
\* is set whenever `next' names a pending response.)
Binary ==
  /\ sess # "gone"
  /\ binary # None
  /\ binary' = None
  /\ next' = None
  /\ Route(binary, IF next \in Waited THEN next ELSE None)
  /\ \/ UNCHANGED <<routes, remote>>
     \/ next \in pend \cap Streaming /\ Settle(next, "over") /\ ReadOther
  /\ UNCHANGED <<session, sending>>

\* body_end, or the stream_close of a request the agent could not carry out.
Finish(s) ==
  /\ Heard
  /\ agent[s] \in {"run", "body"}
  /\ agent' = [agent EXCEPT ![s] = "done"]
  /\ LET how == IF agent[s] = "body" THEN "ok" ELSE "over"
     IN  \/ s \in pend /\ Settle(s, how)
         \/ s \in Entry /\ SettleEntry(s, how)
         \/ s \notin Waited /\ UNCHANGED routes
  /\ UNCHANGED <<session, sending, next, expect, bodies>>

\* A heartbeat arms the timer again, whatever the session's state.
Heartbeat ==
  /\ pipe \in {"open", "ended"} /\ binary = None
  /\ heartbeat' = TRUE
  /\ UNCHANGED <<sess, tear, pipe, routes, sending, next, remote, bodies>>

AgentDies ==
  /\ pipe \in {"open", "ended"}
  /\ pipe' = "broken"
  /\ UNCHANGED <<sess, tear, heartbeat, routes, sending, next, remote, bodies>>

-----------------------------------------------------------------------------
(* Clients, and the end of the session. *)

Attach(c) ==
  /\ sess # "gone"
  /\ ~Attached(c)
  /\ clients' = Append(clients, c)
  /\ grace' = FALSE
  /\ UNCHANGED <<session, inFlight, pend, via, outcome, sending, next, remote, bodies>>

\* The first part of teardown.
Begin(t) ==
  /\ tear[t] = "idle"
  /\ tear' = [tear EXCEPT ![t] = "begun"]
  /\ sess' = IF sess = "gone" THEN sess ELSE "closing"
  /\ grace' = FALSE

DeleteSession(t) ==
  /\ sess # "gone"
  /\ Begin(t)
  /\ UNCHANGED <<pipe, heartbeat, clients, inFlight, pend, via, outcome, sending, next,
                 remote, bodies>>

\* Fifteen seconds without a heartbeat.
HeartbeatTimeout(t) ==
  /\ heartbeat
  /\ heartbeat' = FALSE
  /\ Begin(t)
  /\ UNCHANGED <<pipe, clients, inFlight, pend, via, outcome, sending, next, remote, bodies>>

\* Mutant: the handler only stops the timer.
ExecEndStopsTimer(t) ==
  /\ pipe = "broken"
  /\ pipe' = "closed"
  /\ heartbeat' = FALSE
  /\ UNCHANGED <<sess, tear, routes, sending, next, remote, bodies>>

\* The `end' event of the exec stream.
ExecEnd(t) ==
  /\ pipe = "broken"
  /\ pipe' = "closed"
  /\ heartbeat' = FALSE
  /\ \/ sess = "active" /\ Begin(t)
     \/ sess # "active" /\ UNCHANGED <<sess, tear, grace>>
  /\ UNCHANGED <<clients, inFlight, pend, via, outcome, sending, next, remote, bodies>>

\* The exec stream is destroyed with an error instead, which is only logged: no
\* `end' follows, and the session is left to the heartbeat timer.
ExecError ==
  /\ pipe = "broken"
  /\ pipe' = "closed"
  /\ UNCHANGED <<sess, tear, heartbeat, routes, sending, next, remote, bodies>>

GraceExpires(t) ==
  /\ grace
  /\ \/ clients = <<>> /\ sess = "active" /\ Begin(t)
     \/ /\ clients # <<>> \/ sess # "active"
        /\ grace' = FALSE
        /\ UNCHANGED <<sess, tear>>
  /\ UNCHANGED <<pipe, heartbeat, clients, inFlight, pend, via, outcome, sending, next,
                 remote, bodies>>

\* The stream_closes are written, the map cleared, the stream ended; then the
\* exec is inspected and killed.
TeardownClear(t) ==
  /\ tear[t] = "begun"
  /\ tear' = [tear EXCEPT ![t] = "cleared"]
  /\ pipe' = IF pipe = "open" THEN "ended" ELSE pipe
  /\ \/ Entry # {} /\ ReadOther
     \/ Entry = {} /\ UNCHANGED remote
  /\ Forget(Entry)
  /\ Tell({}, "over", Entry)
  /\ UNCHANGED <<sess, heartbeat, clients, grace, inFlight, pend, sending, next, bodies>>

\* Mutant: the session leaves the manager and the limiter before the responses
\* are rejected, which another call of teardown is left to do.
TeardownFinishKeepsPending(t) ==
  /\ tear[t] = "cleared"
  /\ tear' = [tear EXCEPT ![t] = "done"]
  /\ sess' = "gone"
  /\ heartbeat' = FALSE
  /\ Forget(Entry)
  /\ Tell({}, "over", Entry)
  /\ next' = None
  /\ clients' = <<>>
  /\ inFlight' = 0
  /\ UNCHANGED <<pipe, grace, pend, sending, remote, bodies>>

\* The rest of teardown, in one go.
TeardownFinish(t) ==
  /\ tear[t] = "cleared"
  /\ tear' = [tear EXCEPT ![t] = "done"]
  /\ sess' = "gone"
  /\ heartbeat' = FALSE
  /\ pend' = {}
  /\ Forget(Entry)
  /\ Tell({}, "over", Waited)
  /\ next' = None
  /\ clients' = <<>>
  /\ inFlight' = 0
  /\ UNCHANGED <<pipe, grace, sending, remote, bodies>>

-----------------------------------------------------------------------------
Next ==
  \/ \E s \in Stream :
       \/ Refuse(s) \/ ProxyDirect(s) \/ ProxyStreaming(s) \/ ProxyRequest(s)
       \/ SendBody(s) \/ WriteFails(s) \/ Timeout(s) \/ Cancel(s) \/ Abort(s)
       \/ \E follows \in BOOLEAN : Respond(s, follows)
       \/ Chunk(s) \/ Finish(s)
  \/ Binary \/ Heartbeat \/ AgentDies \/ ExecError
  \/ \E c \in Client : Attach(c) \/ (sess # "gone" /\ Detach(c))
  \/ \E t \in Teardown :
       \/ DeleteSession(t) \/ HeartbeatTimeout(t) \/ ExecEnd(t) \/ GraceExpires(t)
       \/ TeardownClear(t) \/ TeardownFinish(t)

Spec == Init /\ [][Next]_vars

\* Timers fire, that of the heartbeat once no agent is left to arm it again, the
\* exec stream ends or fails, and the awaits of teardown end.  Nothing is assumed
\* of the agent, of clients and of consumers.
FairSpec ==
  /\ Spec
  /\ \A s \in Stream : WF_vars(Timeout(s))
  /\ WF_vars(ExecError \/ \E t \in Teardown : ExecEnd(t))
  /\ WF_vars(pipe \in {"broken", "closed"} /\ \E t \in Teardown : HeartbeatTimeout(t))
  /\ \A t \in Teardown : WF_vars(TeardownClear(t)) /\ WF_vars(TeardownFinish(t))

-----------------------------------------------------------------------------
(* Properties. *)

\* While the session works, the limiter counts the requests under way, whatever
\* ends them: a response, a timer, a consumer, a client that leaves with the
\* requests of others.
SlotsExact ==
  sess = "active" /\ pipe = "open" => inFlight = Cardinality(Waited)

\* A response that its caller sees complete has all the chunks the agent wrote.
ResponseComplete == \A s \in Stream : outcome[s] = "ok" => ~missed[s]

\* A chunk reaches the caller of another stream only if nobody waits for its own
\* stream any more: two requests under way are never mixed up.
StrayIsAbandoned ==
  \A s \in Stream : \A r \in foreign[s] : outcome[r] = "over"

\* "set by the preceding TEXT frame handler": a response has chunks of its own
\* stream only.
BodyIsItsOwn == \A s \in Stream : foreign[s] = {}

\* Once the session has left the manager nothing of it is left behind, also of
\* requests that arrived while it was torn down.
GoneIsEmpty ==
  sess = "gone" =>
    /\ Waited = {} /\ next = None /\ inFlight = 0 /\ ~grace
    /\ \A s \in Stream : outcome[s] \notin {"waiting", "streaming"}

\* The grace timer runs only while no client is attached and no streaming
\* response is open but those whose consumer has gone.
GraceIsIdle ==
  grace => /\ clients = <<>>
           /\ \A s \in pend \cap Streaming : outcome[s] = "streaming"

\* The inductive invariant.  A request is under way exactly while its caller
\* waits; the agent has not seen one that has not been made.
Outcomes ==
  \A s \in Stream :
    /\ s \in Waited <=> outcome[s] \in {"waiting", "streaming"}
    /\ outcome[s] = "idle" => agent[s] = "none" /\ expect # s /\ ~missed[s]
    /\ expect = s => agent[s] = "none"

\* Between a chunk's text and binary frame `next' names its stream, if anybody
\* waits for it; so no chunk of a request under way is lost on the way to its
\* caller.
Frames ==
  \A s \in Stream :
    /\ binary = s => agent[s] = "body" /\ (s \in Waited => next = s)
    /\ s \in Waited /\ Reaches(s) => ~missed[s]
    /\ outcome[s] = "ok" => agent[s] = "done"

\* A streaming request holds the session until its consumer has the headers.
Sentinels ==
  \A s \in pend \cap Streaming : outcome[s] = "waiting" => Attached(s)

Closing ==
  /\ sess # "active" => ~grace
  /\ \A t \in Teardown : tear[t] # "idle" => sess # "active"

IInv ==
  /\ TypeOK
  /\ Outcomes
  /\ Frames
  /\ Sentinels
  /\ Closing
  /\ SlotsExact
  /\ ResponseComplete
  /\ StrayIsAbandoned
  /\ GoneIsEmpty
  /\ GraceIsIdle

\* The session keeps what TunnelService promises its callers, whoever ends their
\* requests and however teardowns, timers and late frames interleave: while it
\* works none is refused below the limit or taken above it, each is told once,
\* and nobody waits for a session that is gone.
Service == INSTANCE TunnelService WITH
  Request <- Stream,
  told <- outcome,
  phase <- IF sess = "gone" THEN "gone"
           ELSE IF sess = "active" /\ pipe = "open" THEN "working" ELSE "failing"
ImplementsService == Service!ServiceSpec

\* A request with a time limit is answered.
LimitedRequestSettles ==
  \A s \in Direct \cup Streaming : outcome[s] = "waiting" ~> outcome[s] # "waiting"

\* When the agent is gone, every request under way is ended: by the `end' of the
\* exec stream or, if that fails without one, by the missing heartbeats.
DeadAgentEndsAll == pipe = "broken" ~> Waited = {}

=============================================================================
