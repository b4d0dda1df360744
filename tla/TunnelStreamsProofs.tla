------------------------ MODULE TunnelStreamsProofs ------------------------
(***************************************************************************)
(* The safety properties of TunnelStreams, for every set of requests and   *)
(* clients, every limit and any number of teardowns.                       *)
(*                                                                         *)
(* The invariant falls into two halves: who waits and which slots are      *)
(* taken (RoutesInv), and which frames are under way (FramesInv).  Requests*)
(* end in many ways, which differ little: SettleRoutes, EntryRoutes and    *)
(* LeaveRoutes treat the first half once for all of them, EndingFrames the *)
(* second.                                                                 *)
(***************************************************************************)
EXTENDS TunnelStreams, FiniteSetTheorems, SequenceTheorems, TLAPS

TypeSession ==
  /\ sess \in {"active", "closing", "gone"}
  /\ tear \in [Teardown -> {"idle", "begun", "cleared", "done"}]
  /\ pipe \in {"open", "ended", "broken", "closed"}
  /\ heartbeat \in BOOLEAN

TypeRoutes ==
  /\ clients \in Seq(Client \cup Streaming)
  /\ grace \in BOOLEAN
  /\ inFlight \in 0 .. MaxConcurrent
  /\ pend \subseteq Direct \cup Streaming
  /\ via \in [Socket -> Client \cup Streaming \cup {None}]
  /\ outcome \in [Stream -> {"idle", "waiting", "streaming", "ok", "over"}]

TypeFrames ==
  /\ sending \in [Stream -> BOOLEAN]
  /\ next \in Stream \cup {None}
  /\ expect \in Stream \cup {None}
  /\ agent \in [Stream -> {"none", "run", "body", "done"}]
  /\ binary \in Stream \cup {None}
  /\ missed \in [Stream -> BOOLEAN]
  /\ foreign \in [Stream -> SUBSET Stream]

RoutesInv ==
  TypeRoutes /\ SlotsExact /\ Sentinels /\ Closing /\ GraceIsIdle /\ GoneIsEmpty

FramesInv == TypeFrames /\ Outcomes /\ Frames /\ ResponseComplete /\ StrayIsAbandoned

Parts == TypeSession /\ RoutesInv /\ FramesInv

\* Requests end and none begins; only s may end as `how' says, and as a success
\* only if its caller is reached.  No other caller moves within reach.
Ended(s, how) ==
  /\ Waited' \subseteq Waited \ {s}
  /\ \A r \in Stream : r \in Waited' \/ r \notin Waited \cup {s} => outcome'[r] = outcome[r]
  /\ \A r \in Stream : r \in Waited \ Waited' => outcome'[r] = "over" \/ r = s
  /\ s \in Stream => outcome'[s] = how
  /\ how = "ok" => Reaches(s)
  /\ \A r \in Waited' : Reaches(r)' => Reaches(r)

\* The agent begins with no other request than the one whose body it expected.
AgentReads ==
  /\ expect' \in {expect, None}
  /\ agent' \in [Stream -> {"none", "run", "body", "done"}]
  /\ \A r \in Stream : agent'[r] # agent[r] =>
        expect = r /\ expect' = None /\ agent[r] = "none" /\ agent'[r] = "run"

-----------------------------------------------------------------------------
(* Clients and slots. *)

\* Taking a client out leaves the others in.
LEMMA WithoutLemma ==
  ASSUME TypeRoutes, NEW c
  PROVE  /\ Without(c) \in Seq(Client \cup Streaming)
         /\ \A d : d # c /\ Attached(d)
              => \E i \in 1 .. Len(Without(c)) : Without(c)[i] = d
         /\ ~Attached(c) => Without(c) = clients
<1> DEFINE S == Client \cup Streaming
<1>1. clients \in Seq(S) /\ Len(clients) \in Nat
      /\ \A i \in 1 .. Len(clients) : clients[i] \in S
  BY LenProperties DEF TypeRoutes
<1>2. CASE ~Attached(c)
  BY <1>1, <1>2 DEF Without, Attached
<1>3. CASE Attached(c)
  <2> DEFINE i == CHOOSE j \in 1 .. Len(clients) : clients[j] = c
             a == SubSeq(clients, 1, i - 1)
             b == SubSeq(clients, i + 1, Len(clients))
  <2>1. i \in 1 .. Len(clients) /\ clients[i] = c
    BY <1>3 DEF Attached
  <2>2. Without(c) = a \o b
    BY <1>3 DEF Without
  <2> HIDE DEF i
  <2>3. a \in Seq(S) /\ Len(a) = i - 1 /\ \A j \in 1 .. i - 1 : a[j] = clients[j]
    <3>1. \A j \in 1 .. i - 1 : clients[j] \in S
      BY <1>1, <2>1
    <3>2. QED BY <1>1, <2>1, <3>1, SubSeqProperties
  <2>4. b \in Seq(S) /\ Len(b) = Len(clients) - i
        /\ \A j \in 1 .. Len(clients) - i : b[j] = clients[i + j]
    <3>1. \A j \in i + 1 .. Len(clients) : clients[j] \in S
      BY <1>1, <2>1
    <3>2. /\ b \in Seq(S)
          /\ Len(b) = IF i + 1 <= Len(clients) THEN Len(clients) - (i + 1) + 1 ELSE 0
          /\ \A j \in 1 .. Len(clients) - (i + 1) + 1 : b[j] = clients[(i + 1) + j - 1]
      BY <1>1, <2>1, <3>1, SubSeqProperties
    <3>3. QED BY <1>1, <2>1, <3>2
  <2> HIDE DEF a, b
  <2>5. /\ a \o b \in Seq(S)
        /\ Len(a \o b) = Len(a) + Len(b)
        /\ \A j \in 1 .. Len(a) + Len(b) :
             (a \o b)[j] = IF j <= Len(a) THEN a[j] ELSE b[j - Len(a)]
    BY <2>3, <2>4, ConcatProperties
  <2>6. ASSUME NEW d, d # c, Attached(d)
        PROVE  \E j \in 1 .. Len(a \o b) : (a \o b)[j] = d
    <3>1. PICK k \in 1 .. Len(clients) : clients[k] = d
      BY <2>6 DEF Attached
    <3>2. k # i
      BY <2>1, <2>6, <3>1
    <3>3. CASE k < i
      BY <1>1, <2>1, <2>3, <2>4, <2>5, <3>1, <3>3
    <3>4. CASE k > i
      <4>1. k - 1 \in 1 .. Len(a) + Len(b) /\ ~(k - 1 <= Len(a))
            /\ k - 1 - Len(a) = k - i /\ k - i \in 1 .. Len(clients) - i
        BY <1>1, <2>1, <2>3, <2>4, <3>1, <3>4
      <4>2. (a \o b)[k - 1] = clients[i + (k - i)]
        BY <2>4, <2>5, <4>1
      <4>3. i + (k - i) = k
        BY <2>1, <3>1
      <4>4. QED BY <2>5, <3>1, <4>1, <4>2, <4>3
    <3>5. QED BY <2>1, <3>1, <3>2, <3>3, <3>4
  <2>7. QED BY <1>3, <2>2, <2>5, <2>6
<1>4. QED BY <1>2, <1>3

\* The requests under way are finitely many, and a request is in one map only.
LEMMA WaitedLemma ==
  ASSUME TypeRoutes
  PROVE  /\ IsFiniteSet(Waited) /\ Cardinality(Waited) \in Nat
         /\ Waited \subseteq Stream
         /\ pend \cap Entry = {} /\ Entry \subseteq Socket
<1>1. Waited \subseteq Stream /\ Entry \subseteq Socket
  BY DEF TypeRoutes, Waited, Entry, Stream
<1>2. IsFiniteSet(Waited)
  BY <1>1, StreamAssumption, FS_Subset
<1>3. Cardinality(Waited) \in Nat
  BY <1>2, FS_CardinalityType
<1>4. pend \cap Entry = {}
  BY StreamAssumption DEF TypeRoutes, Entry
<1>5. QED BY <1>1, <1>2, <1>3, <1>4

\* As many requests as leave the set leave the count.
LEMMA CountLemma ==
  ASSUME TypeRoutes, NEW D, D \subseteq Waited
  PROVE  /\ Cardinality(D) \in Nat /\ Cardinality(D) <= Cardinality(Waited)
         /\ Cardinality(Waited \ D) = Cardinality(Waited) - Cardinality(D)
<1>1. IsFiniteSet(Waited)
  BY WaitedLemma
<1>2. IsFiniteSet(D) /\ Cardinality(D) <= Cardinality(Waited)
  BY <1>1, FS_Subset
<1>3. Waited \cap D = D
  OBVIOUS
<1>4. Cardinality(Waited \ D) = Cardinality(Waited) - Cardinality(Waited \cap D)
  BY <1>1, FS_Difference
<1>5. Cardinality(D) \in Nat
  BY <1>2, FS_CardinalityType
<1>6. QED BY <1>2, <1>3, <1>4, <1>5

\* A slot count stays in its range.
LEMMA ReleaseLemma ==
  ASSUME TypeRoutes, NEW n \in Nat
  PROVE  /\ Release(n) \in 0 .. MaxConcurrent
         /\ inFlight >= n => Release(n) = inFlight - n
BY LimitAssumption DEF TypeRoutes, Release

\* Entries that leave the stream map leave the requests under way.
LEMMA ForgetLemma ==
  ASSUME TypeRoutes, NEW D, Forget(D)
  PROVE  /\ via' \in [Socket -> Client \cup Streaming \cup {None}]
         /\ Entry' = Entry \ D
         /\ \A r \in Direct \cup Streaming \cup Entry' : Reaches(r)' => Reaches(r)
<1>1. via' \in [Socket -> Client \cup Streaming \cup {None}]
  BY DEF TypeRoutes, Forget
<1>2. \A s \in Socket : via'[s] = IF s \in D THEN None ELSE via[s]
  BY DEF Forget
<1>3. Entry' = {s \in Socket : via'[s] # None}
  BY DEF Entry
<1>4. Entry' = Entry \ D /\ \A r \in Entry' : via'[r] = via[r]
  BY <1>2, <1>3 DEF Entry
<1>5. ASSUME NEW r \in Direct \cup Streaming \cup Entry'
      PROVE  Reaches(r)' => Reaches(r)
  BY <1>4, StreamAssumption DEF Reaches
<1>6. QED BY <1>1, <1>4, <1>5

\* What a client that leaves does to clients, timer and entries.
LEMMA LeaveLemma ==
  ASSUME TypeRoutes, Closing, NEW c, Leave(c)
  PROVE  /\ clients' \in Seq(Client \cup Streaming)
         /\ grace' \in BOOLEAN
         /\ via' \in [Socket -> Client \cup Streaming \cup {None}]
         /\ Entry' = Entry \ Orphans(c)
         /\ Orphans(c) \subseteq Entry
         /\ \A r \in Direct \cup Streaming \cup Entry' : Reaches(r)' => Reaches(r)
         /\ \A d : d # c /\ Attached(d) => Attached(d)'
         /\ sess # "active" => ~grace'
         /\ grace' /\ ~grace => clients' = <<>>
         /\ grace /\ clients = <<>> => clients' = <<>>
<1>1. Forget(Orphans(c)) /\ clients' = Without(c)
      /\ grace' = (grace \/ (/\ Attached(c) /\ sess = "active"
                             /\ Ephemeral /\ Without(c) = <<>>))
  BY DEF Leave
<1>2. grace' \in BOOLEAN
  BY <1>1 DEF TypeRoutes
<1>3. \A d : d # c /\ Attached(d) => Attached(d)'
  BY <1>1, WithoutLemma DEF Attached
<1>4. grace /\ clients = <<>> => clients' = <<>>
  <2>1. clients = <<>> => ~Attached(c)
    BY EmptySeq DEF Attached
  <2>2. QED BY <1>1, <2>1, WithoutLemma
<1>5. Orphans(c) \subseteq Entry
  BY DEF Orphans
<1>6. sess # "active" => ~grace'
  BY <1>1 DEF Closing
<1>7. clients' \in Seq(Client \cup Streaming)
  BY <1>1, WithoutLemma
<1>8. /\ via' \in [Socket -> Client \cup Streaming \cup {None}]
      /\ Entry' = Entry \ Orphans(c)
      /\ \A r \in Direct \cup Streaming \cup Entry' : Reaches(r)' => Reaches(r)
  BY <1>1, ForgetLemma
<1>9. QED BY <1>1, <1>2, <1>3, <1>4, <1>5, <1>6, <1>7, <1>8

-----------------------------------------------------------------------------
(* Requests that end: who waits. *)

\* Requests end and none begins; the rest of the routes follow suit.
LEMMA EndingRoutes ==
  ASSUME Parts, TypeRoutes', NEW D, D \subseteq Waited, sess # "gone",
         sess' = sess, tear' = tear, pipe' = pipe,
         Waited' = Waited \ D, inFlight' = Release(Cardinality(D)),
         pend' \subseteq pend,
         \A r \in Waited' : outcome'[r] = outcome[r],
         \A r \in pend' : outcome[r] = "waiting" /\ Attached(r) => Attached(r)',
         sess # "active" => ~grace',
         grace' => clients' = <<>>
  PROVE  RoutesInv'
<1>1. SlotsExact'
  <2> SUFFICES ASSUME sess = "active", pipe = "open"
               PROVE  inFlight' = Cardinality(Waited')
    BY DEF SlotsExact
  <2>1. inFlight = Cardinality(Waited)
    BY DEF Parts, RoutesInv, SlotsExact
  <2>2. /\ Cardinality(D) \in Nat /\ Cardinality(D) <= Cardinality(Waited)
        /\ Cardinality(Waited \ D) = Cardinality(Waited) - Cardinality(D)
        /\ Cardinality(Waited) \in Nat
    BY CountLemma, WaitedLemma DEF Parts, RoutesInv
  <2>3. Release(Cardinality(D)) = inFlight - Cardinality(D)
    BY <2>1, <2>2, ReleaseLemma DEF Parts, RoutesInv
  <2>4. QED BY <2>1, <2>2, <2>3
<1>2. Sentinels'
  <2> SUFFICES ASSUME NEW r \in pend' \cap Streaming, outcome'[r] = "waiting"
               PROVE  Attached(r)'
    BY DEF Sentinels
  <2>1. r \in Waited' /\ r \in pend
    BY DEF Waited
  <2>2. outcome[r] = "waiting"
    BY <2>1
  <2>3. Attached(r)
    BY <2>1, <2>2 DEF Parts, RoutesInv, Sentinels
  <2>4. QED BY <2>2, <2>3
<1>3. Closing'
  BY DEF Parts, RoutesInv, Closing
<1>4. GraceIsIdle'
  <2> SUFFICES ASSUME grace'
               PROVE  clients' = <<>> /\ \A r \in pend' \cap Streaming : outcome'[r] = "streaming"
    BY DEF GraceIsIdle
  <2>1. clients' = <<>>
    OBVIOUS
  <2>2. ASSUME NEW r \in pend' \cap Streaming
        PROVE  outcome'[r] = "streaming"
    <3>1. r \in Waited' /\ r \in Waited /\ r \in Stream
      BY DEF Waited, Stream
    <3>2. outcome'[r] \in {"waiting", "streaming"}
      BY <3>1 DEF Parts, FramesInv, Outcomes
    <3>3. ~Attached(r)'
      BY <2>1, EmptySeq DEF Attached
    <3>4. QED BY <1>2, <2>2, <3>2, <3>3 DEF Sentinels
  <2>3. QED BY <2>1, <2>2
<1>5. GoneIsEmpty'
  BY DEF GoneIsEmpty
<1>6. QED BY <1>1, <1>2, <1>3, <1>4, <1>5 DEF RoutesInv

\* Tell leaves every outcome well typed.
LEMMA TellLemma ==
  ASSUME TypeRoutes, NEW D, NEW E, NEW how \in {"idle", "waiting", "streaming", "ok", "over"},
         Tell(D, how, E)
  PROVE  /\ outcome' \in [Stream -> {"idle", "waiting", "streaming", "ok", "over"}]
         /\ \A r \in Stream : outcome'[r] = IF r \in D THEN how
                                            ELSE IF r \in E THEN "over" ELSE outcome[r]
BY DEF TypeRoutes, Tell

\* A pending response is settled.
LEMMA SettleRoutes ==
  ASSUME Parts, NEW s \in pend, NEW how \in {"ok", "over"}, Settle(s, how),
         sess' = sess, tear' = tear, pipe' = pipe
  PROVE  RoutesInv' /\ Ended(s, how)
<1> DEFINE D == {s} \cup Orphans(s)
<1>0. TypeRoutes /\ Closing /\ GraceIsIdle /\ GoneIsEmpty /\ Outcomes
  BY DEF Parts, RoutesInv, FramesInv
<1>1. /\ pend' = pend \ {s}
      /\ inFlight' = Release(1 + Cardinality(Orphans(s)))
      /\ Tell({s}, how, Orphans(s)) /\ Leave(s)
  BY DEF Settle
<1>2. /\ clients' \in Seq(Client \cup Streaming)
      /\ grace' \in BOOLEAN
      /\ via' \in [Socket -> Client \cup Streaming \cup {None}]
      /\ Entry' = Entry \ Orphans(s)
      /\ Orphans(s) \subseteq Entry
      /\ \A r \in Direct \cup Streaming \cup Entry' : Reaches(r)' => Reaches(r)
      /\ \A d : d # s /\ Attached(d) => Attached(d)'
      /\ sess # "active" => ~grace'
      /\ grace' /\ ~grace => clients' = <<>>
      /\ grace /\ clients = <<>> => clients' = <<>>
  BY <1>0, <1>1, LeaveLemma
<1>3. /\ Waited \subseteq Stream /\ pend \cap Entry = {} /\ Entry \subseteq Socket
      /\ IsFiniteSet(Waited)
  BY <1>0, WaitedLemma
<1>4. /\ outcome' \in [Stream -> {"idle", "waiting", "streaming", "ok", "over"}]
      /\ \A r \in Stream : outcome'[r] = IF r \in {s} THEN how
                             ELSE IF r \in Orphans(s) THEN "over" ELSE outcome[r]
  BY <1>0, <1>1, TellLemma
<1>5. Waited' = Waited \ D /\ D \subseteq Waited /\ s \in Waited
  BY <1>1, <1>2, <1>3 DEF Waited
<1>6. Cardinality(D) = 1 + Cardinality(Orphans(s)) /\ Cardinality(D) \in Nat
  <2>1. IsFiniteSet(Orphans(s)) /\ s \notin Orphans(s)
    BY <1>2, <1>3, <1>5, FS_Subset
  <2>2. Cardinality(Orphans(s)) \in Nat /\ Cardinality(D) = Cardinality(Orphans(s)) + 1
    <3>1. D = Orphans(s) \cup {s}
      OBVIOUS
    <3>2. QED BY <2>1, <3>1, FS_AddElement, FS_CardinalityType
  <2>3. QED BY <2>2
<1>7. TypeRoutes'
  <2>1. inFlight' \in 0 .. MaxConcurrent
    BY <1>0, <1>1, <1>6, ReleaseLemma
  <2>2. pend' \subseteq Direct \cup Streaming
    BY <1>0, <1>1 DEF TypeRoutes
  <2>3. QED BY <1>2, <1>4, <2>1, <2>2 DEF TypeRoutes
<1>8. \A r \in Waited' : outcome'[r] = outcome[r]
  BY <1>3, <1>4, <1>5
<1>9. RoutesInv'
  <2>1. sess # "gone"
    BY <1>0, <1>5 DEF GoneIsEmpty
  <2>2. inFlight' = Release(Cardinality(D))
    BY <1>1, <1>6
  <2>3. pend' \subseteq pend /\ \A r \in pend' : Attached(r) => Attached(r)'
    BY <1>1, <1>2
  <2>4. grace' => clients' = <<>>
    BY <1>0, <1>2 DEF GraceIsIdle
  <2> HIDE DEF D
  <2>5. QED BY <1>2, <1>5, <1>7, <1>8, <2>1, <2>2, <2>3, <2>4, EndingRoutes
<1>10. Ended(s, how)
  <2>1. Reaches(s)
    BY <1>0, StreamAssumption DEF TypeRoutes, Reaches
  <2>2. \A r \in Waited' : Reaches(r)' => Reaches(r)
    BY <1>2, <1>7 DEF TypeRoutes, Waited
  <2>3. QED BY <1>3, <1>4, <1>5, <1>8, <2>1, <2>2 DEF Ended
<1>11. QED BY <1>9, <1>10

\* A client's response has been passed on, or dropped.
LEMMA EntryRoutes ==
  ASSUME Parts, NEW s \in Entry, NEW how \in {"ok", "over"}, SettleEntry(s, how),
         sess' = sess, tear' = tear, pipe' = pipe
  PROVE  RoutesInv' /\ Ended(s, IF Reaches(s) THEN how ELSE "over")
<1> DEFINE D == {s}
           h == IF Reaches(s) THEN how ELSE "over"
<1>0. TypeRoutes /\ Closing /\ GraceIsIdle /\ GoneIsEmpty /\ Outcomes
  BY DEF Parts, RoutesInv, FramesInv
<1>1. /\ Forget(D) /\ inFlight' = Release(1) /\ Tell(D, h, {})
      /\ pend' = pend /\ clients' = clients /\ grace' = grace
  BY DEF SettleEntry
<1>h. h \in {"ok", "over"} /\ (h = "ok" => Reaches(s))
  OBVIOUS
<1> HIDE DEF h
<1>2. /\ via' \in [Socket -> Client \cup Streaming \cup {None}]
      /\ Entry' = Entry \ D
      /\ \A r \in Direct \cup Streaming \cup Entry' : Reaches(r)' => Reaches(r)
  BY <1>0, <1>1, ForgetLemma
<1>3. Waited \subseteq Stream /\ pend \cap Entry = {} /\ Entry \subseteq Socket
  BY <1>0, WaitedLemma
<1>4. /\ outcome' \in [Stream -> {"idle", "waiting", "streaming", "ok", "over"}]
      /\ \A r \in Stream : outcome'[r] = IF r \in D THEN h
                             ELSE IF r \in {} THEN "over" ELSE outcome[r]
  BY <1>0, <1>1, <1>h, TellLemma
<1>5. Waited' = Waited \ D /\ D \subseteq Waited /\ s \in Waited
  BY <1>1, <1>2, <1>3 DEF Waited
<1>6. Cardinality(D) = 1
  BY FS_Singleton
<1>7. TypeRoutes'
  <2>1. inFlight' \in 0 .. MaxConcurrent
    BY <1>0, <1>1, ReleaseLemma
  <2>2. QED BY <1>0, <1>1, <1>2, <1>4, <2>1 DEF TypeRoutes
<1>8. \A r \in Waited' : outcome'[r] = outcome[r]
  BY <1>3, <1>4, <1>5
<1>9. RoutesInv'
  <2>1. sess # "gone"
    BY <1>0, <1>5 DEF GoneIsEmpty
  <2>2. inFlight' = Release(Cardinality(D))
    BY <1>1, <1>6
  <2>3. pend' \subseteq pend /\ \A r \in pend' : Attached(r) => Attached(r)'
    BY <1>1 DEF Attached
  <2>4. (grace' => clients' = <<>>) /\ (sess # "active" => ~grace')
    BY <1>0, <1>1 DEF GraceIsIdle, Closing
  <2> HIDE DEF D
  <2>5. QED BY <1>5, <1>7, <1>8, <2>1, <2>2, <2>3, <2>4, EndingRoutes
<1>10. Ended(s, h)
  <2>1. \A r \in Waited' : Reaches(r)' => Reaches(r)
    BY <1>2, <1>7 DEF TypeRoutes, Waited
  <2>2. QED BY <1>3, <1>4, <1>5, <1>8, <1>h, <2>1 DEF Ended
<1>11. QED BY <1>9, <1>10 DEF h

\* A client leaves, and the requests whose answers it was to get end.
LEMMA LeaveRoutes ==
  ASSUME Parts, NEW c, Detach(c), sess # "gone",
         \A r \in pend : outcome[r] = "waiting" => r # c
  PROVE  RoutesInv' /\ Ended(None, "over")
<1> DEFINE D == Orphans(c)
<1>0. TypeRoutes /\ Closing /\ GraceIsIdle /\ GoneIsEmpty /\ Outcomes
  BY DEF Parts, RoutesInv, FramesInv
<1>1. /\ Leave(c) /\ inFlight' = Release(Cardinality(D)) /\ Tell({}, "over", D)
      /\ pend' = pend /\ sess' = sess /\ tear' = tear /\ pipe' = pipe
  BY DEF Detach, session
<1>2. /\ clients' \in Seq(Client \cup Streaming)
      /\ grace' \in BOOLEAN
      /\ via' \in [Socket -> Client \cup Streaming \cup {None}]
      /\ Entry' = Entry \ D
      /\ D \subseteq Entry
      /\ \A r \in Direct \cup Streaming \cup Entry' : Reaches(r)' => Reaches(r)
      /\ \A d : d # c /\ Attached(d) => Attached(d)'
      /\ sess # "active" => ~grace'
      /\ grace' /\ ~grace => clients' = <<>>
      /\ grace /\ clients = <<>> => clients' = <<>>
  BY <1>0, <1>1, LeaveLemma
<1> HIDE DEF D
<1>3. Waited \subseteq Stream /\ pend \cap Entry = {} /\ Entry \subseteq Socket
  BY <1>0, WaitedLemma
<1>4. /\ outcome' \in [Stream -> {"idle", "waiting", "streaming", "ok", "over"}]
      /\ \A r \in Stream : outcome'[r] = IF r \in {} THEN "over"
                             ELSE IF r \in D THEN "over" ELSE outcome[r]
  BY <1>0, <1>1, TellLemma
<1>5. Waited' = Waited \ D /\ D \subseteq Waited
  BY <1>1, <1>2, <1>3 DEF Waited
<1>6. Cardinality(D) \in Nat
  BY <1>0, <1>5, CountLemma
<1>7. TypeRoutes'
  <2>1. inFlight' \in 0 .. MaxConcurrent
    BY <1>0, <1>1, <1>6, ReleaseLemma
  <2>2. QED BY <1>0, <1>1, <1>2, <1>4, <2>1 DEF TypeRoutes
<1>8. \A r \in Waited' : outcome'[r] = outcome[r]
  BY <1>3, <1>4, <1>5
<1>9. RoutesInv'
  <2>1. pend' \subseteq pend
        /\ \A r \in pend' : outcome[r] = "waiting" /\ Attached(r) => Attached(r)'
    BY <1>1, <1>2
  <2>2. grace' => clients' = <<>>
    BY <1>0, <1>2 DEF GraceIsIdle
  <2>3. QED BY <1>1, <1>2, <1>5, <1>7, <1>8, <2>1, <2>2, EndingRoutes
<1>10. Ended(None, "over")
  <2>1. None \notin Stream
    BY StreamAssumption
  <2>2. \A r \in Waited' : Reaches(r)' => Reaches(r)
    BY <1>2, <1>7 DEF TypeRoutes, Waited
  <2>3. QED BY <1>3, <1>4, <1>5, <1>8, <2>1, <2>2 DEF Ended
<1>11. QED BY <1>9, <1>10

-----------------------------------------------------------------------------
(* Requests that end: which frames are under way. *)

\* A binary frame or a stream_close can only set off the request whose body the
\* agent waits for.
LEMMA ReadOtherLemma ==
  ASSUME Parts, ReadOther \/ UNCHANGED remote
  PROVE  AgentReads
<1>0. TypeFrames /\ Outcomes
  BY DEF Parts, FramesInv
<1>1. CASE expect # None /\ agent' = [agent EXCEPT ![expect] = "run"] /\ expect' = None
  <2>1. expect \in Stream /\ agent[expect] = "none"
    BY <1>0, <1>1 DEF TypeFrames, Outcomes
  <2>2. agent' \in [Stream -> {"none", "run", "body", "done"}]
    BY <1>0, <1>1, <2>1 DEF TypeFrames
  <2>3. \A r \in Stream : agent'[r] = IF r = expect THEN "run" ELSE agent[r]
    BY <1>0, <1>1, <2>1 DEF TypeFrames
  <2>4. QED BY <1>1, <2>1, <2>2, <2>3 DEF AgentReads
<1>2. CASE UNCHANGED remote
  BY <1>0, <1>2 DEF AgentReads, TypeFrames, remote
<1>3. QED BY <1>1, <1>2 DEF ReadOther

\* A request's text frame sets off the request, or the one whose body the agent
\* waits for, or makes the agent wait for its own body.
LEMMA ReadRequestLemma ==
  ASSUME Parts, NEW s \in Stream, agent[s] = "none",
         ReadRequest(s) \/ UNCHANGED remote
  PROVE  /\ expect' \in Stream \cup {None}
         /\ agent' \in [Stream -> {"none", "run", "body", "done"}]
         /\ \A r \in Stream : /\ r # s => expect' \in {expect, None} \/ expect' # r
                              /\ expect' = r => agent'[r] = "none"
                              /\ agent'[r] # agent[r] =>
                                   agent[r] = "none" /\ (r = s \/ expect = r)
<1>0. TypeFrames /\ Outcomes
  BY DEF Parts, FramesInv
<1>1. CASE expect # None /\ agent' = [agent EXCEPT ![expect] = "run"] /\ expect' = None
  <2>1. expect \in Stream /\ agent[expect] = "none"
    BY <1>0, <1>1 DEF TypeFrames, Outcomes
  <2>2. agent' \in [Stream -> {"none", "run", "body", "done"}]
    BY <1>0, <1>1, <2>1 DEF TypeFrames
  <2>3. \A r \in Stream : agent'[r] = IF r = expect THEN "run" ELSE agent[r]
    BY <1>0, <1>1, <2>1 DEF TypeFrames
  <2>4. None \notin Stream
    BY StreamAssumption
  <2>5. QED BY <1>1, <2>1, <2>2, <2>3, <2>4
<1>2. CASE expect' = s /\ agent' = agent
  BY <1>0, <1>2 DEF TypeFrames
<1>3. CASE expect = None /\ agent' = [agent EXCEPT ![s] = "run"] /\ expect' = expect
  <2>1. agent' \in [Stream -> {"none", "run", "body", "done"}]
    BY <1>0, <1>3 DEF TypeFrames
  <2>2. \A r \in Stream : agent'[r] = IF r = s THEN "run" ELSE agent[r]
    BY <1>0, <1>3 DEF TypeFrames
  <2>3. None \notin Stream
    BY StreamAssumption
  <2>4. QED BY <1>3, <2>1, <2>2, <2>3
<1>4. CASE UNCHANGED remote
  BY <1>0, <1>4 DEF TypeFrames, Outcomes, remote
<1>5. QED BY <1>1, <1>2, <1>3, <1>4 DEF ReadRequest

\* The frame under way is delivered, if at all; it misses only a caller who has
\* gone or is out of reach, and goes elsewhere only if its own caller has gone.
Delivered ==
  /\ binary' \in {binary, None}
  /\ missed' \in [Stream -> BOOLEAN]
  /\ foreign' \in [Stream -> SUBSET Stream]
  /\ \A r \in Stream : missed'[r] =>
       missed[r] \/ (r = binary /\ (r \notin Waited \/ ~Reaches(r)))
  /\ \A q \in Stream : \A r \in foreign'[q] :
       r \in foreign[q] \/ (r = binary /\ r \notin Waited)

\* The agent is through with request s.
AgentEnds(s) ==
  /\ s \in Waited /\ binary = None
  /\ agent[s] \in {"run", "body"}
  /\ agent' = [agent EXCEPT ![s] = "done"]
  /\ expect' = expect

\* Requests end, as successes only when the agent is through with them.
LEMMA EndingFrames ==
  ASSUME Parts, TypeRoutes', NEW s, NEW how \in {"ok", "over"}, Ended(s, how),
         sending' \in [Stream -> BOOLEAN], next' \in Stream \cup {None},
         binary' # None /\ Waited' # {} => next' = next, Delivered,
         (AgentReads /\ how = "over") \/ AgentEnds(s)
  PROVE  FramesInv'
<1>0. /\ TypeFrames /\ Outcomes /\ Frames /\ ResponseComplete /\ StrayIsAbandoned
      /\ TypeRoutes
  BY DEF Parts, FramesInv, RoutesInv
<1>1. None \notin Stream /\ Waited \subseteq Stream /\ Waited' \subseteq Waited
  BY <1>0, StreamAssumption, WaitedLemma DEF Ended
<1>2. /\ expect' \in {expect, None}
      /\ agent' \in [Stream -> {"none", "run", "body", "done"}]
      /\ \A r \in Stream : agent'[r] # agent[r] =>
           \/ expect = r /\ expect' = None /\ agent[r] = "none" /\ how = "over"
           \/ r = s /\ s \in Waited /\ binary = None /\ agent'[s] = "done" /\ expect # s
  <2>1. CASE AgentReads /\ how = "over"
    BY <2>1 DEF AgentReads
  <2>2. CASE AgentEnds(s)
    <3>1. s \in Stream /\ expect # s
      BY <1>0, <1>1, <2>2 DEF AgentEnds, Outcomes
    <3>2. agent' \in [Stream -> {"none", "run", "body", "done"}]
      BY <1>0, <2>2, <3>1 DEF AgentEnds, TypeFrames
    <3>3. \A r \in Stream : agent'[r] = IF r = s THEN "done" ELSE agent[r]
      BY <1>0, <2>2, <3>1 DEF AgentEnds, TypeFrames
    <3>4. QED BY <2>2, <3>1, <3>2, <3>3 DEF AgentEnds
  <2>3. QED BY <2>1, <2>2
<1>3. ASSUME NEW r \in Stream
      PROVE  /\ r \in Waited' => outcome'[r] = outcome[r] /\ r # s
             /\ r \notin Waited /\ r # s => outcome'[r] = outcome[r]
             /\ r \in Waited /\ r \notin Waited' /\ r # s => outcome'[r] = "over"
             /\ r = s => outcome'[r] = how
  BY <1>3 DEF Ended
<1>4. binary \in Stream /\ binary \notin Waited => outcome[binary] = "over"
  <2> SUFFICES ASSUME binary \in Stream, binary \notin Waited
               PROVE  outcome[binary] = "over"
    OBVIOUS
  <2>1. agent[binary] = "body"
    BY <1>0 DEF Frames
  <2>2. outcome[binary] \notin {"idle", "ok", "waiting", "streaming"}
    BY <1>0, <2>1 DEF Frames, Outcomes
  <2>3. QED BY <1>0, <2>2 DEF TypeRoutes
<1>5. TypeFrames'
  BY <1>0, <1>2 DEF TypeFrames, Delivered
<1>6. Outcomes'
  <2> SUFFICES ASSUME NEW r \in Stream
               PROVE  /\ r \in Waited' <=> outcome'[r] \in {"waiting", "streaming"}
                      /\ outcome'[r] = "idle" => agent'[r] = "none" /\ expect' # r /\ ~missed'[r]
                      /\ expect' = r => agent'[r] = "none"
    BY DEF Outcomes
  <2>1. /\ r \in Waited <=> outcome[r] \in {"waiting", "streaming"}
        /\ outcome[r] = "idle" => agent[r] = "none" /\ expect # r /\ ~missed[r]
        /\ expect = r => agent[r] = "none"
    BY <1>0 DEF Outcomes
  <2>2. r \in Waited' <=> outcome'[r] \in {"waiting", "streaming"}
    BY <1>1, <1>3, <2>1
  <2>3. expect' = r => agent'[r] = "none"
    BY <1>1, <1>2, <2>1
  <2>4. ASSUME outcome'[r] = "idle"
        PROVE  agent'[r] = "none" /\ expect' # r /\ ~missed'[r]
    <3>1. outcome[r] = "idle" /\ r # s
      BY <1>1, <1>3, <2>1, <2>4
    <3>2. r # binary
      BY <1>0, <2>1, <3>1 DEF Frames
    <3>3. QED BY <1>1, <1>2, <2>1, <3>1, <3>2 DEF Delivered
  <2>5. QED BY <2>2, <2>3, <2>4
<1>7. Frames'
  <2> SUFFICES ASSUME NEW r \in Stream
               PROVE  /\ binary' = r => agent'[r] = "body" /\ (r \in Waited' => next' = r)
                      /\ r \in Waited' /\ Reaches(r)' => ~missed'[r]
                      /\ outcome'[r] = "ok" => agent'[r] = "done"
    BY DEF Frames
  <2>1. /\ binary = r => agent[r] = "body" /\ (r \in Waited => next = r)
        /\ r \in Waited /\ Reaches(r) => ~missed[r]
        /\ outcome[r] = "ok" => agent[r] = "done"
        /\ expect = r => agent[r] = "none"
    BY <1>0 DEF Frames, Outcomes
  <2>2. binary' = r => agent'[r] = "body" /\ (r \in Waited' => next' = r)
    BY <1>1, <1>2, <2>1 DEF Delivered
  <2>3. r \in Waited' /\ Reaches(r)' => ~missed'[r]
    <3>1. r \in Waited' => (Reaches(r)' => Reaches(r))
      BY DEF Ended
    <3>2. QED BY <1>1, <2>1, <3>1 DEF Delivered
  <2>4. ASSUME outcome'[r] = "ok"
        PROVE  agent'[r] = "done"
    <3>1. CASE r = s
      <4>1. how = "ok"
        BY <1>3, <2>4, <3>1
      <4>2. AgentEnds(s)
        BY <4>1
      <4>3. QED BY <1>0, <3>1, <4>2 DEF AgentEnds, TypeFrames
    <3>2. CASE r # s
      <4>1. outcome[r] = "ok"
        BY <1>3, <2>4, <3>2
      <4>2. QED BY <1>2, <2>1, <3>2, <4>1
    <3>3. QED BY <3>1, <3>2
  <2>5. QED BY <2>2, <2>3, <2>4
<1>8. ResponseComplete'
  <2> SUFFICES ASSUME NEW r \in Stream, outcome'[r] = "ok"
               PROVE  ~missed'[r]
    BY DEF ResponseComplete
  <2>1. CASE r = s
    <3>1. r \in Waited /\ binary = None /\ Reaches(r)
      BY <1>3, <2>1 DEF AgentEnds, Ended
    <3>2. QED BY <1>0, <1>1, <3>1 DEF Frames, Delivered
  <2>2. CASE r # s
    <3>1. outcome[r] = "ok"
      BY <1>3, <2>2
    <3>2. ~missed[r] /\ r # binary
      BY <1>0, <3>1 DEF ResponseComplete, Frames
    <3>3. QED BY <3>2 DEF Delivered
  <2>3. QED BY <2>1, <2>2
<1>9. StrayIsAbandoned'
  <2> SUFFICES ASSUME NEW q \in Stream, NEW r \in foreign'[q]
               PROVE  outcome'[r] = "over"
    BY DEF StrayIsAbandoned
  <2>1. r \in Stream /\ outcome[r] = "over"
    <3>1. r \in Stream
      BY DEF Delivered
    <3>2. CASE r \in foreign[q]
      BY <1>0, <3>1, <3>2 DEF StrayIsAbandoned
    <3>3. CASE r = binary /\ r \notin Waited
      BY <1>4, <3>1, <3>3
    <3>4. QED BY <3>2, <3>3, <3>1 DEF Delivered
  <2>2. r \notin Waited
    BY <1>0, <2>1 DEF Outcomes
  <2>3. r = s => how = "over"
    BY <2>2 DEF AgentEnds
  <2>4. QED BY <1>3, <2>1, <2>2, <2>3
<1>10. QED BY <1>5, <1>6, <1>7, <1>8, <1>9 DEF FramesInv

\* Nothing is delivered.
LEMMA NoneDelivered ==
  ASSUME Parts, binary' = binary, missed' = missed, foreign' = foreign
  PROVE  Delivered
BY DEF Parts, FramesInv, TypeFrames, Delivered

\* The agent makes progress with a request, and nothing ends.
LEMMA MovingFrames ==
  ASSUME Parts, TypeRoutes', NEW s \in Stream, NEW x \in {"body", "done"},
         Waited' = Waited, via' = via, binary = None, agent[s] \in {"run", "body"},
         agent' = [agent EXCEPT ![s] = x], expect' = expect,
         \A r \in Stream : \/ outcome'[r] = outcome[r]
                           \/ outcome[r] = "waiting" /\ outcome'[r] = "streaming",
         sending' = sending, next' \in Stream \cup {None},
         binary' = binary, missed' = missed, foreign' = foreign
  PROVE  FramesInv'
<1>0. TypeFrames /\ Outcomes /\ Frames /\ ResponseComplete /\ StrayIsAbandoned
  BY DEF Parts, FramesInv
<1>1. None \notin Stream
  BY StreamAssumption
<1>2. \A r \in Stream : agent'[r] = IF r = s THEN x ELSE agent[r]
  BY <1>0 DEF TypeFrames
<1>3. agent' \in [Stream -> {"none", "run", "body", "done"}]
  BY <1>0 DEF TypeFrames
<1>4. TypeFrames'
  BY <1>0, <1>3 DEF TypeFrames
<1>5. Outcomes'
  BY <1>0, <1>2 DEF Outcomes
<1>6. Frames'
  BY <1>0, <1>1, <1>2 DEF Frames, Reaches
<1>7. ResponseComplete'
  BY <1>0 DEF ResponseComplete
<1>8. StrayIsAbandoned'
  <2> SUFFICES ASSUME NEW q \in Stream, NEW r \in foreign[q]
               PROVE  outcome'[r] = "over"
    BY DEF StrayIsAbandoned
  <2>1. r \in Stream /\ outcome[r] = "over"
    BY <1>0 DEF TypeFrames, StrayIsAbandoned
  <2>2. QED BY <2>1
<1>9. QED BY <1>4, <1>5, <1>6, <1>7, <1>8 DEF FramesInv

\* Nobody comes or goes.
LEMMA StillRoutes ==
  ASSUME Parts, sess' = sess, tear' = tear, UNCHANGED routes,
         pipe' = "open" => pipe = "open",
         sess = "gone" => next' = next
  PROVE  RoutesInv' /\ Waited' = Waited /\ Ended(None, "over")
<1>0. /\ TypeRoutes /\ SlotsExact /\ Sentinels /\ Closing /\ GraceIsIdle /\ GoneIsEmpty
  BY DEF Parts, RoutesInv
<1>1. clients' = clients /\ grace' = grace /\ inFlight' = inFlight /\ pend' = pend
      /\ via' = via /\ outcome' = outcome
  BY DEF routes
<1>2. Waited' = Waited
  BY <1>1 DEF Waited, Entry
<1>3. TypeRoutes'
  BY <1>0, <1>1 DEF TypeRoutes
<1>4. SlotsExact'
  BY <1>0, <1>1, <1>2 DEF SlotsExact
<1>5. Sentinels'
  BY <1>0, <1>1 DEF Sentinels, Attached
<1>6. Closing'
  BY <1>0, <1>1 DEF Closing
<1>7. GraceIsIdle'
  BY <1>0, <1>1 DEF GraceIsIdle
<1>8. GoneIsEmpty'
  BY <1>0, <1>1, <1>2 DEF GoneIsEmpty
<1>9. Ended(None, "over")
  <2>1. None \notin Stream /\ Waited \subseteq Stream
    BY <1>0, StreamAssumption, WaitedLemma
  <2>2. QED BY <1>1, <1>2, <2>1 DEF Ended, Reaches
<1>10. QED BY <1>2, <1>3, <1>4, <1>5, <1>6, <1>7, <1>8, <1>9 DEF RoutesInv

-----------------------------------------------------------------------------
(* Requests. *)

\* A request without a slot is refused.
LEMMA RefuseKeeps ==
  ASSUME Parts, NEW s \in Stream, Refuse(s)
  PROVE  Parts'
<1>0. /\ TypeRoutes /\ SlotsExact /\ Sentinels /\ Closing /\ GraceIsIdle /\ GoneIsEmpty
      /\ Outcomes /\ TypeSession /\ TypeFrames
  BY DEF Parts, RoutesInv, FramesInv
<1>1. /\ outcome[s] = "idle" /\ Tell({s}, "over", {})
      /\ sess' = sess /\ tear' = tear /\ pipe' = pipe /\ heartbeat' = heartbeat
      /\ clients' = clients /\ inFlight' = inFlight /\ pend' = pend /\ via' = via
      /\ sending' = sending /\ next' = next /\ UNCHANGED remote
      /\ binary' = binary /\ missed' = missed /\ foreign' = foreign
      /\ grace' = (IF s \in Streaming
                     THEN sess = "active" /\ Ephemeral /\ clients = <<>> ELSE grace)
  BY DEF Refuse, session, bodies
<1>2. Waited' = Waited /\ Waited \subseteq Stream /\ s \notin Waited
  BY <1>0, <1>1, WaitedLemma DEF Waited, Entry, Outcomes
<1>3. /\ outcome' \in [Stream -> {"idle", "waiting", "streaming", "ok", "over"}]
      /\ \A r \in Stream : outcome'[r] = IF r \in {s} THEN "over"
                             ELSE IF r \in {} THEN "over" ELSE outcome[r]
  BY <1>0, <1>1, TellLemma
<1>4. grace' \in BOOLEAN /\ (sess # "active" => ~grace') /\ (grace' => clients' = <<>>)
  BY <1>0, <1>1 DEF TypeRoutes, Closing, GraceIsIdle
<1>5. TypeSession'
  BY <1>0, <1>1 DEF TypeSession
<1>6. TypeRoutes'
  BY <1>0, <1>1, <1>3, <1>4 DEF TypeRoutes
<1>7. SlotsExact'
  BY <1>0, <1>1, <1>2 DEF SlotsExact
<1>8. Sentinels'
  BY <1>0, <1>1, <1>3 DEF Sentinels, Attached, Stream
<1>9. Closing'
  BY <1>0, <1>1, <1>4 DEF Closing
<1>10. GraceIsIdle'
  <2> SUFFICES ASSUME grace', NEW r \in pend \cap Streaming
               PROVE  outcome'[r] = "streaming"
    BY <1>1, <1>4 DEF GraceIsIdle
  <2>1. r \in Waited /\ r \in Stream /\ outcome'[r] = outcome[r]
    BY <1>2, <1>3 DEF Waited
  <2>2. outcome[r] \in {"waiting", "streaming"}
    BY <1>0, <2>1 DEF Outcomes
  <2>3. ~Attached(r)
    BY <1>1, <1>4, EmptySeq DEF Attached
  <2>4. QED BY <1>0, <2>1, <2>2, <2>3 DEF Sentinels
<1>11. GoneIsEmpty'
  BY <1>0, <1>1, <1>2, <1>3, <1>4 DEF GoneIsEmpty
<1>12. RoutesInv'
  BY <1>6, <1>7, <1>8, <1>9, <1>10, <1>11 DEF RoutesInv
<1>13. FramesInv'
  <2>1. Ended(s, "over")
    BY <1>1, <1>2, <1>3 DEF Ended, Reaches
  <2>2. AgentReads /\ Delivered
    BY <1>1, ReadOtherLemma, NoneDelivered
  <2>3. sending' \in [Stream -> BOOLEAN] /\ next' \in Stream \cup {None}
    BY <1>0, <1>1 DEF TypeFrames
  <2>4. QED BY <1>1, <1>6, <2>1, <2>2, <2>3, EndingFrames
<1>14. QED BY <1>5, <1>12, <1>13 DEF Parts

\* A request takes its slot and its text frame is written: what every kind of
\* request has in common.
LEMMA SendKeeps ==
  ASSUME Parts, NEW s \in Stream, Send(s),
         clients' \in Seq(Client \cup Streaming), grace' \in BOOLEAN,
         pend' \subseteq Direct \cup Streaming,
         via' \in [Socket -> Client \cup Streaming \cup {None}],
         Waited' = Waited \cup {s}, pend' \subseteq pend \cup {s},
         \A r \in Waited : Reaches(r)' => Reaches(r),
         \A c : Attached(c) => Attached(c)',
         s \in pend' \cap Streaming => Attached(s)',
         grace' => grace /\ clients' = clients /\ s \notin Streaming
  PROVE  Parts'
<1>0. /\ TypeRoutes /\ SlotsExact /\ Sentinels /\ Closing /\ GraceIsIdle /\ GoneIsEmpty
      /\ TypeFrames /\ Outcomes /\ Frames /\ ResponseComplete /\ StrayIsAbandoned
      /\ TypeSession
  BY DEF Parts, RoutesInv, FramesInv
<1>1. /\ outcome[s] = "idle" /\ CanAcquire /\ inFlight' = inFlight + 1
      /\ Tell({s}, "waiting", {})
      /\ sending' = [sending EXCEPT ![s] = pipe # "open" \/ s \in HasBody]
      /\ ReadRequest(s) \/ UNCHANGED remote
      /\ sess' = sess /\ tear' = tear /\ pipe' = pipe /\ heartbeat' = heartbeat
      /\ next' = next /\ binary' = binary /\ missed' = missed /\ foreign' = foreign
  BY DEF Send, session, bodies
<1>2. /\ agent[s] = "none" /\ expect # s /\ ~missed[s] /\ s \notin Waited
      /\ Waited \subseteq Stream /\ IsFiniteSet(Waited) /\ None \notin Stream
      /\ Cardinality(Waited) \in Nat
  BY <1>0, <1>1, WaitedLemma, StreamAssumption DEF Outcomes
<1>3. /\ outcome' \in [Stream -> {"idle", "waiting", "streaming", "ok", "over"}]
      /\ \A r \in Stream : outcome'[r] = IF r \in {s} THEN "waiting"
                             ELSE IF r \in {} THEN "over" ELSE outcome[r]
  BY <1>0, <1>1, TellLemma
<1>4. /\ expect' \in Stream \cup {None}
      /\ agent' \in [Stream -> {"none", "run", "body", "done"}]
      /\ \A r \in Stream : /\ r # s => expect' \in {expect, None} \/ expect' # r
                           /\ expect' = r => agent'[r] = "none"
                           /\ agent'[r] # agent[r] =>
                                agent[r] = "none" /\ (r = s \/ expect = r)
  BY <1>1, <1>2, ReadRequestLemma
<1>5. sess # "gone" /\ inFlight < MaxConcurrent
  BY <1>1 DEF CanAcquire
<1>6. TypeSession'
  BY <1>0, <1>1 DEF TypeSession
<1>7. TypeRoutes'
  <2>1. inFlight' \in 0 .. MaxConcurrent
    BY <1>0, <1>1, <1>5, LimitAssumption DEF TypeRoutes
  <2>2. QED BY <1>3, <2>1 DEF TypeRoutes
<1>8. SlotsExact'
  <2>1. Cardinality(Waited') = Cardinality(Waited) + 1
    BY <1>2, FS_AddElement
  <2>2. QED BY <1>0, <1>1, <2>1 DEF SlotsExact
<1>9. Sentinels'
  <2> SUFFICES ASSUME NEW r \in pend' \cap Streaming, outcome'[r] = "waiting"
               PROVE  Attached(r)'
    BY DEF Sentinels
  <2>1. CASE r = s
    BY <2>1
  <2>2. CASE r # s
    <3>1. r \in pend /\ outcome[r] = "waiting"
      BY <1>3, <2>2 DEF Stream
    <3>2. QED BY <1>0, <3>1 DEF Sentinels
  <2>3. QED BY <2>1, <2>2
<1>10. Closing'
  BY <1>0, <1>1 DEF Closing
<1>11. GraceIsIdle'
  <2> SUFFICES ASSUME grace'
               PROVE  clients' = <<>> /\ \A r \in pend' \cap Streaming : outcome'[r] = "streaming"
    BY DEF GraceIsIdle
  <2>1. clients' = <<>>
    BY <1>0 DEF GraceIsIdle
  <2>2. ASSUME NEW r \in pend' \cap Streaming
        PROVE  outcome'[r] = "streaming"
    <3>1. r \in pend /\ r # s /\ outcome'[r] = outcome[r]
      BY <1>3 DEF Stream
    <3>2. QED BY <1>0, <3>1 DEF GraceIsIdle
  <2>3. QED BY <2>1, <2>2
<1>12. GoneIsEmpty'
  BY <1>1, <1>5 DEF GoneIsEmpty
<1>13. RoutesInv'
  BY <1>7, <1>8, <1>9, <1>10, <1>11, <1>12 DEF RoutesInv
<1>14. TypeFrames'
  <2>1. sending' \in [Stream -> BOOLEAN]
    BY <1>0, <1>1 DEF TypeFrames
  <2>2. QED BY <1>0, <1>1, <1>4, <2>1 DEF TypeFrames
<1>15. Outcomes'
  <2> SUFFICES ASSUME NEW r \in Stream
               PROVE  /\ r \in Waited' <=> outcome'[r] \in {"waiting", "streaming"}
                      /\ outcome'[r] = "idle" => agent'[r] = "none" /\ expect' # r /\ ~missed'[r]
                      /\ expect' = r => agent'[r] = "none"
    BY DEF Outcomes
  <2>1. /\ r \in Waited <=> outcome[r] \in {"waiting", "streaming"}
        /\ outcome[r] = "idle" => agent[r] = "none" /\ expect # r /\ ~missed[r]
    BY <1>0 DEF Outcomes
  <2>2. QED BY <1>1, <1>2, <1>3, <1>4, <2>1
<1>16. Frames'
  <2> SUFFICES ASSUME NEW r \in Stream
               PROVE  /\ binary' = r => agent'[r] = "body" /\ (r \in Waited' => next' = r)
                      /\ r \in Waited' /\ Reaches(r)' => ~missed'[r]
                      /\ outcome'[r] = "ok" => agent'[r] = "done"
    BY DEF Frames
  <2>1. /\ binary = r => agent[r] = "body" /\ (r \in Waited => next = r)
        /\ r \in Waited /\ Reaches(r) => ~missed[r]
        /\ outcome[r] = "ok" => agent[r] = "done"
    BY <1>0 DEF Frames
  <2>2. QED BY <1>1, <1>2, <1>3, <1>4, <2>1
<1>17. ResponseComplete'
  BY <1>0, <1>1, <1>3 DEF ResponseComplete
<1>18. StrayIsAbandoned'
  <2> SUFFICES ASSUME NEW q \in Stream, NEW r \in foreign[q]
               PROVE  outcome'[r] = "over"
    BY <1>1 DEF StrayIsAbandoned
  <2>1. r \in Stream /\ outcome[r] = "over"
    BY <1>0 DEF TypeFrames, StrayIsAbandoned
  <2>2. QED BY <1>1, <1>3, <2>1
<1>19. FramesInv'
  BY <1>14, <1>15, <1>16, <1>17, <1>18 DEF FramesInv
<1>20. QED BY <1>6, <1>13, <1>19 DEF Parts

\* A request of tunnel traffic.
LEMMA ProxyDirectKeeps ==
  ASSUME Parts, NEW s \in Stream, ProxyDirect(s)
  PROVE  Parts'
<1>0. TypeRoutes
  BY DEF Parts, RoutesInv
<1>1. /\ s \in Direct /\ Send(s) /\ pend' = pend \cup {s}
      /\ clients' = clients /\ grace' = grace /\ via' = via
  BY DEF ProxyDirect
<1>2. s \notin Streaming
  BY <1>1, StreamAssumption
<1>3. Waited' = Waited \cup {s}
  BY <1>1 DEF Waited, Entry
<1>4. /\ clients' \in Seq(Client \cup Streaming) /\ grace' \in BOOLEAN
      /\ pend' \subseteq Direct \cup Streaming
      /\ via' \in [Socket -> Client \cup Streaming \cup {None}]
  BY <1>0, <1>1 DEF TypeRoutes
<1>5. \A c : Attached(c) => Attached(c)'
  BY <1>1 DEF Attached
<1>6. \A r : Reaches(r)' => Reaches(r)
  BY <1>1 DEF Reaches
<1>7. QED BY <1>1, <1>2, <1>3, <1>4, <1>5, <1>6, SendKeeps

\* Attaching puts a client at the end of the others.
LEMMA AppendLemma ==
  ASSUME TypeRoutes, NEW c \in Client \cup Streaming, clients' = Append(clients, c)
  PROVE  /\ clients' \in Seq(Client \cup Streaming)
         /\ Attached(c)' /\ \A d : Attached(d) => Attached(d)'
<1>1. clients \in Seq(Client \cup Streaming) /\ Len(clients) \in Nat
  BY LenProperties DEF TypeRoutes
<1>2. /\ clients' \in Seq(Client \cup Streaming)
      /\ Len(clients') = Len(clients) + 1
      /\ \A i \in 1 .. Len(clients) : clients'[i] = clients[i]
      /\ clients'[Len(clients) + 1] = c
  BY <1>1, AppendProperties
<1>3. Attached(c)'
  <2>1. Len(clients) + 1 \in 1 .. Len(clients')
    BY <1>1, <1>2
  <2>2. QED BY <1>2, <2>1 DEF Attached
<1>4. ASSUME NEW d, Attached(d) PROVE Attached(d)'
  <2>1. PICK i \in 1 .. Len(clients) : clients[i] = d
    BY <1>4 DEF Attached
  <2>2. i \in 1 .. Len(clients') /\ clients'[i] = d
    BY <1>1, <1>2, <2>1
  <2>3. QED BY <2>2 DEF Attached
<1>5. QED BY <1>2, <1>3, <1>4

\* A request of the session proxy.
LEMMA ProxyStreamingKeeps ==
  ASSUME Parts, NEW s \in Stream, ProxyStreaming(s)
  PROVE  Parts'
<1>0. TypeRoutes
  BY DEF Parts, RoutesInv
<1>1. /\ s \in Streaming /\ Send(s) /\ pend' = pend \cup {s}
      /\ clients' = Append(clients, s) /\ grace' = FALSE /\ via' = via
  BY DEF ProxyStreaming
<1>2. Waited' = Waited \cup {s}
  BY <1>1 DEF Waited, Entry
<1>3. /\ clients' \in Seq(Client \cup Streaming)
      /\ Attached(s)' /\ \A d : Attached(d) => Attached(d)'
  BY <1>0, <1>1, AppendLemma
<1>4. /\ grace' \in BOOLEAN
      /\ pend' \subseteq Direct \cup Streaming
      /\ via' \in [Socket -> Client \cup Streaming \cup {None}]
  BY <1>0, <1>1 DEF TypeRoutes
<1>5. \A r : Reaches(r)' => Reaches(r)
  BY <1>1 DEF Reaches
<1>6. QED BY <1>1, <1>2, <1>3, <1>4, <1>5, SendKeeps

\* A request of a client.
LEMMA ProxyRequestKeeps ==
  ASSUME Parts, NEW s \in Stream, ProxyRequest(s)
  PROVE  Parts'
<1>0. TypeRoutes
  BY DEF Parts, RoutesInv
<1> DEFINE c == clients[Len(clients)]
<1>1. /\ s \in Socket /\ clients # <<>> /\ Send(s) /\ via' = [via EXCEPT ![s] = c]
      /\ clients' = clients /\ grace' = grace /\ pend' = pend
  BY DEF ProxyRequest
<1>2. c \in Client \cup Streaming /\ c # None
  <2>1. clients \in Seq(Client \cup Streaming)
    BY <1>0 DEF TypeRoutes
  <2>2. Len(clients) \in 1 .. Len(clients)
    <3>1. Len(clients) \in Nat
      BY <2>1, LenProperties
    <3>2. Len(clients) # 0
      BY <1>1, <2>1, EmptySeq
    <3>3. QED BY <3>1, <3>2
  <2>3. c \in Client \cup Streaming
    BY <2>1, <2>2, ElementOfSeq
  <2>4. QED BY <2>3, StreamAssumption DEF Stream
<1> HIDE DEF c
<1>3. \A r \in Socket : via'[r] = IF r = s THEN c ELSE via[r]
  BY <1>0, <1>1 DEF TypeRoutes
<1>4. Waited' = Waited \cup {s}
  BY <1>1, <1>2, <1>3 DEF Waited, Entry
<1>5. /\ clients' \in Seq(Client \cup Streaming) /\ grace' \in BOOLEAN
      /\ pend' \subseteq Direct \cup Streaming
  BY <1>0, <1>1 DEF TypeRoutes
<1>6. via' \in [Socket -> Client \cup Streaming \cup {None}]
  BY <1>0, <1>1, <1>2 DEF TypeRoutes
<1>7. \A d : Attached(d) => Attached(d)'
  BY <1>1 DEF Attached
<1>8. s \notin Streaming
  BY <1>1, StreamAssumption
<1>9. \A r \in Waited : Reaches(r)' => Reaches(r)
  <2>1. s \notin Waited
    BY <1>1 DEF Send, Parts, FramesInv, Outcomes
  <2>2. QED BY <1>3, <2>1 DEF Reaches
<1>10. QED BY <1>1, <1>4, <1>5, <1>6, <1>7, <1>8, <1>9, SendKeeps

\* The body of a request is written.
LEMMA SendBodyKeeps ==
  ASSUME Parts, NEW s \in Stream, SendBody(s)
  PROVE  Parts'
<1>0. TypeSession /\ TypeFrames
  BY DEF Parts, FramesInv
<1>1. /\ sending' = [sending EXCEPT ![s] = FALSE] /\ ReadOther
      /\ sess' = sess /\ tear' = tear /\ pipe' = pipe /\ heartbeat' = heartbeat
      /\ UNCHANGED routes /\ next' = next
      /\ binary' = binary /\ missed' = missed /\ foreign' = foreign
  BY DEF SendBody, session, bodies
<1>2. RoutesInv' /\ Ended(None, "over") /\ TypeRoutes'
  BY <1>1, StillRoutes DEF RoutesInv
<1>3. sending' \in [Stream -> BOOLEAN] /\ next' \in Stream \cup {None}
  BY <1>0, <1>1 DEF TypeFrames
<1>4. FramesInv'
  BY <1>1, <1>2, <1>3, ReadOtherLemma, NoneDelivered, EndingFrames
<1>5. TypeSession'
  BY <1>0, <1>1 DEF TypeSession
<1>6. QED BY <1>2, <1>4, <1>5 DEF Parts

\* A write fails.
LEMMA WriteFailsKeeps ==
  ASSUME Parts, NEW s \in Stream, WriteFails(s)
  PROVE  Parts'
<1>0. /\ TypeSession /\ TypeFrames /\ TypeRoutes /\ Sentinels /\ Closing /\ GraceIsIdle
      /\ GoneIsEmpty
  BY DEF Parts, FramesInv, RoutesInv
<1>1. /\ sending' = [sending EXCEPT ![s] = FALSE] /\ UNCHANGED remote /\ pipe # "open"
      /\ sess' = sess /\ tear' = tear /\ pipe' = pipe /\ heartbeat' = heartbeat
      /\ next' = next /\ binary' = binary /\ missed' = missed /\ foreign' = foreign
  BY DEF WriteFails, session, bodies
<1>2. sending' \in [Stream -> BOOLEAN] /\ next' \in Stream \cup {None}
  BY <1>0, <1>1 DEF TypeFrames
<1>3. AgentReads /\ Delivered
  BY <1>1, ReadOtherLemma, NoneDelivered
<1>4. RoutesInv' /\ \E r : Ended(r, "over")
  <2>1. CASE s \in pend /\ Settle(s, "over")
    BY <1>1, <2>1, SettleRoutes
  <2>2. CASE /\ s \in Direct /\ s \notin pend
             /\ inFlight' = Release(1)
             /\ UNCHANGED <<clients, grace, pend, via, outcome>>
    <3>1. /\ clients' = clients /\ grace' = grace /\ pend' = pend /\ via' = via
          /\ outcome' = outcome /\ inFlight' = Release(1)
      BY <2>2
    <3>2. Waited' = Waited /\ Waited \subseteq Stream /\ None \notin Stream
      BY <1>0, <3>1, WaitedLemma, StreamAssumption DEF Waited, Entry
    <3>3. inFlight' \in 0 .. MaxConcurrent
      BY <1>0, <3>1, ReleaseLemma
    <3>4. TypeRoutes'
      BY <1>0, <3>1, <3>3 DEF TypeRoutes
    <3>5. SlotsExact'
      BY <1>1 DEF SlotsExact
    <3>6. Sentinels' /\ Closing' /\ GraceIsIdle'
      BY <1>0, <1>1, <3>1 DEF Sentinels, Closing, GraceIsIdle, Attached
    <3>7. GoneIsEmpty'
      <4>1. inFlight = 0 => inFlight' = 0
        BY <3>1 DEF Release
      <4>2. QED BY <1>0, <1>1, <3>1, <3>2, <4>1 DEF GoneIsEmpty
    <3>8. Ended(None, "over")
      BY <3>1, <3>2 DEF Ended, Reaches
    <3>9. QED BY <3>4, <3>5, <3>6, <3>7, <3>8 DEF RoutesInv
  <2>3. CASE UNCHANGED routes
    BY <1>1, <2>3, StillRoutes
  <2>4. QED BY <2>1, <2>2, <2>3 DEF WriteFails
<1>5. FramesInv'
  <2>1. PICK r : Ended(r, "over")
    BY <1>4
  <2>2. TypeRoutes'
    BY <1>4 DEF RoutesInv
  <2>3. QED BY <1>1, <1>2, <1>3, <2>1, <2>2, EndingFrames
<1>6. TypeSession'
  BY <1>0, <1>1 DEF TypeSession
<1>7. QED BY <1>4, <1>5, <1>6 DEF Parts

\* A pending response ends without the agent: by its timer or its consumer.
LEMMA AbandonedKeeps ==
  ASSUME Parts, NEW s \in pend, Settle(s, "over"), ReadOther \/ UNCHANGED remote,
         UNCHANGED <<session, sending, next, bodies>>
  PROVE  Parts'
<1>0. TypeSession /\ TypeFrames
  BY DEF Parts, FramesInv
<1>1. /\ sess' = sess /\ tear' = tear /\ pipe' = pipe /\ heartbeat' = heartbeat
      /\ sending' = sending /\ next' = next
      /\ binary' = binary /\ missed' = missed /\ foreign' = foreign
  BY DEF session, bodies
<1>2. RoutesInv' /\ Ended(s, "over") /\ TypeRoutes'
  BY <1>1, SettleRoutes DEF RoutesInv
<1>3. sending' \in [Stream -> BOOLEAN] /\ next' \in Stream \cup {None}
  BY <1>0, <1>1 DEF TypeFrames
<1>4. FramesInv'
  BY <1>1, <1>2, <1>3, ReadOtherLemma, NoneDelivered, EndingFrames
<1>5. TypeSession'
  BY <1>0, <1>1 DEF TypeSession
<1>6. QED BY <1>2, <1>4, <1>5 DEF Parts

\* The timer of a pending response fires.
LEMMA TimeoutKeeps ==
  ASSUME Parts, NEW s \in Stream, Timeout(s)
  PROVE  Parts'
BY AbandonedKeeps DEF Timeout

\* The consumer of a streaming response goes away.
LEMMA CancelKeeps ==
  ASSUME Parts, NEW s \in Stream, Cancel(s)
  PROVE  Parts'
BY AbandonedKeeps DEF Cancel

\* A client or a sentinel leaves.
LEMMA DetachKeeps ==
  ASSUME Parts, NEW c, Detach(c), sess # "gone",
         \A r \in pend : outcome[r] = "waiting" => r # c
  PROVE  Parts'
<1>0. TypeSession /\ TypeFrames
  BY DEF Parts, FramesInv
<1>1. /\ sess' = sess /\ tear' = tear /\ pipe' = pipe /\ heartbeat' = heartbeat
      /\ sending' = sending /\ next' = next /\ UNCHANGED remote
      /\ binary' = binary /\ missed' = missed /\ foreign' = foreign
  BY DEF Detach, session, bodies
<1>2. RoutesInv' /\ Ended(None, "over") /\ TypeRoutes'
  BY LeaveRoutes DEF RoutesInv
<1>3. sending' \in [Stream -> BOOLEAN] /\ next' \in Stream \cup {None}
  BY <1>0, <1>1 DEF TypeFrames
<1>4. FramesInv'
  BY <1>1, <1>2, <1>3, ReadOtherLemma, NoneDelivered, EndingFrames
<1>5. TypeSession'
  BY <1>0, <1>1 DEF TypeSession
<1>6. QED BY <1>2, <1>4, <1>5 DEF Parts

\* The consumer of a streaming response aborts.
LEMMA AbortKeeps ==
  ASSUME Parts, NEW s \in Stream, Abort(s)
  PROVE  Parts'
<1>1. s \in pend /\ outcome[s] = "streaming" /\ Detach(s)
  BY DEF Abort
<1>2. sess # "gone"
  BY <1>1 DEF Parts, RoutesInv, GoneIsEmpty, Waited
<1>3. QED BY <1>1, <1>2, DetachKeeps

\* A WebSocket client closes.
LEMMA ClientDetachKeeps ==
  ASSUME Parts, NEW c \in Client, sess # "gone", Detach(c)
  PROVE  Parts'
<1>1. c \notin pend
  BY StreamAssumption DEF Parts, RoutesInv, TypeRoutes, Stream
<1>2. QED BY <1>1, DetachKeeps

\* A client attaches.
LEMMA AttachKeeps ==
  ASSUME Parts, NEW c \in Client, Attach(c)
  PROVE  Parts'
<1>0. /\ TypeRoutes /\ SlotsExact /\ Sentinels /\ Closing /\ TypeFrames /\ TypeSession
  BY DEF Parts, RoutesInv, FramesInv
<1>1. /\ sess # "gone" /\ clients' = Append(clients, c) /\ grace' = FALSE
      /\ sess' = sess /\ tear' = tear /\ pipe' = pipe /\ heartbeat' = heartbeat
      /\ inFlight' = inFlight /\ pend' = pend /\ via' = via /\ outcome' = outcome
      /\ sending' = sending /\ next' = next /\ UNCHANGED remote
      /\ binary' = binary /\ missed' = missed /\ foreign' = foreign
  BY DEF Attach, session, bodies
<1>2. /\ clients' \in Seq(Client \cup Streaming)
      /\ \A d : Attached(d) => Attached(d)'
  BY <1>0, <1>1, AppendLemma
<1>3. Waited' = Waited /\ Waited \subseteq Stream /\ None \notin Stream
  BY <1>0, <1>1, WaitedLemma, StreamAssumption DEF Waited, Entry
<1>4. TypeRoutes'
  BY <1>0, <1>1, <1>2 DEF TypeRoutes
<1>5. SlotsExact' /\ Sentinels' /\ Closing' /\ GraceIsIdle' /\ GoneIsEmpty'
  BY <1>0, <1>1, <1>2, <1>3 DEF SlotsExact, Sentinels, Closing, GraceIsIdle, GoneIsEmpty
<1>6. Ended(None, "over")
  BY <1>1, <1>3 DEF Ended, Reaches
<1>7. sending' \in [Stream -> BOOLEAN] /\ next' \in Stream \cup {None}
  BY <1>0, <1>1 DEF TypeFrames
<1>8. FramesInv'
  BY <1>1, <1>4, <1>6, <1>7, ReadOtherLemma, NoneDelivered, EndingFrames
<1>9. TypeSession'
  BY <1>0, <1>1 DEF TypeSession
<1>10. QED BY <1>4, <1>5, <1>8, <1>9 DEF Parts, RoutesInv

-----------------------------------------------------------------------------
(* Frames of the agent. *)

\* A response begins, or is all there is.
LEMMA RespondKeeps ==
  ASSUME Parts, NEW s \in Stream, NEW follows \in BOOLEAN, Respond(s, follows)
  PROVE  Parts'
<1>0. /\ TypeRoutes /\ SlotsExact /\ Sentinels /\ Closing /\ GraceIsIdle /\ GoneIsEmpty
      /\ Outcomes /\ TypeSession /\ TypeFrames
  BY DEF Parts, RoutesInv, FramesInv
<1>1. /\ sess # "gone" /\ binary = None /\ agent[s] = "run"
      /\ agent' = [agent EXCEPT ![s] = IF follows THEN "body" ELSE "done"]
      /\ sess' = sess /\ tear' = tear /\ pipe' = pipe /\ heartbeat' = heartbeat
      /\ sending' = sending /\ expect' = expect
      /\ binary' = binary /\ missed' = missed /\ foreign' = foreign
  BY DEF Respond, Heard, session, bodies
<1>2. Waited \subseteq Stream /\ pend \subseteq Waited /\ Entry \subseteq Waited
  BY <1>0, WaitedLemma DEF Waited
<1>3. TypeSession'
  BY <1>0, <1>1 DEF TypeSession
<1>4. sending' \in [Stream -> BOOLEAN] /\ next \in Stream \cup {None}
  BY <1>0, <1>1 DEF TypeFrames
<1>5. CASE /\ s \in pend /\ follows
           /\ next' = s
           /\ Tell({s} \cap Streaming, "streaming", {})
           /\ UNCHANGED <<clients, grace, inFlight, pend, via>>
  <2>1. /\ next' = s /\ clients' = clients /\ grace' = grace /\ inFlight' = inFlight
        /\ pend' = pend /\ via' = via
    BY <1>5
  <2>2. /\ outcome' \in [Stream -> {"idle", "waiting", "streaming", "ok", "over"}]
        /\ \A r \in Stream : outcome'[r] = IF r \in {s} \cap Streaming THEN "streaming"
                               ELSE IF r \in {} THEN "over" ELSE outcome[r]
    BY <1>0, <1>5, TellLemma
  <2>3. Waited' = Waited
    BY <2>1 DEF Waited, Entry
  <2>4. outcome[s] \in {"waiting", "streaming"}
    BY <1>0, <1>2, <1>5 DEF Outcomes
  <2>5. \A r \in Stream : \/ outcome'[r] = outcome[r]
                          \/ outcome[r] = "waiting" /\ outcome'[r] = "streaming"
    BY <2>2, <2>4
  <2>6. TypeRoutes'
    BY <1>0, <2>1, <2>2 DEF TypeRoutes
  <2>7. SlotsExact' /\ Closing' /\ GoneIsEmpty'
    BY <1>0, <1>1, <2>1, <2>3 DEF SlotsExact, Closing, GoneIsEmpty
  <2>8. Sentinels' /\ GraceIsIdle'
    BY <1>0, <2>1, <2>5 DEF Sentinels, GraceIsIdle, Attached, Stream
  <2>9. agent' = [agent EXCEPT ![s] = "body"]
    BY <1>1, <1>5
  <2>10. FramesInv'
    BY <1>1, <2>1, <2>3, <2>5, <2>6, <2>9, MovingFrames
  <2>11. QED BY <1>3, <2>6, <2>7, <2>8, <2>10 DEF Parts, RoutesInv
<1>6. CASE s \in pend /\ ~follows /\ Settle(s, "ok") /\ UNCHANGED next
  <2>1. RoutesInv' /\ Ended(s, "ok") /\ TypeRoutes'
    BY <1>1, <1>6, SettleRoutes DEF RoutesInv
  <2>2. AgentEnds(s)
    BY <1>1, <1>2, <1>6 DEF AgentEnds
  <2>3. FramesInv'
    BY <1>1, <1>4, <1>6, <2>1, <2>2, NoneDelivered, EndingFrames
  <2>4. QED BY <1>3, <2>1, <2>3 DEF Parts
<1>7. CASE s \in Entry /\ ~follows /\ SettleEntry(s, "ok") /\ UNCHANGED next
  <2>1. RoutesInv' /\ TypeRoutes' /\ \E h \in {"ok", "over"} : Ended(s, h)
    BY <1>1, <1>7, EntryRoutes DEF RoutesInv
  <2>2. AgentEnds(s)
    BY <1>1, <1>2, <1>7 DEF AgentEnds
  <2>3. FramesInv'
    BY <1>1, <1>4, <1>7, <2>1, <2>2, NoneDelivered, EndingFrames
  <2>4. QED BY <1>3, <2>1, <2>3 DEF Parts
<1>8. CASE UNCHANGED <<routes, next>>
  <2>1. RoutesInv' /\ Waited' = Waited /\ TypeRoutes'
    BY <1>1, <1>8, StillRoutes DEF RoutesInv
  <2>2. outcome' = outcome /\ via' = via /\ next' = next
    BY <1>8 DEF routes
  <2>3. PICK x \in {"body", "done"} : agent' = [agent EXCEPT ![s] = x]
    BY <1>1
  <2>4. FramesInv'
    BY <1>1, <1>4, <2>1, <2>2, <2>3, MovingFrames
  <2>5. QED BY <1>3, <2>1, <2>4 DEF Parts
<1>9. QED BY <1>5, <1>6, <1>7, <1>8 DEF Respond

\* A response is over.
LEMMA FinishKeeps ==
  ASSUME Parts, NEW s \in Stream, Finish(s)
  PROVE  Parts'
<1> DEFINE how == IF agent[s] = "body" THEN "ok" ELSE "over"
<1>0. TypeRoutes /\ TypeSession /\ TypeFrames
  BY DEF Parts, RoutesInv, FramesInv
<1>1. /\ sess # "gone" /\ binary = None /\ agent[s] \in {"run", "body"}
      /\ agent' = [agent EXCEPT ![s] = "done"]
      /\ sess' = sess /\ tear' = tear /\ pipe' = pipe /\ heartbeat' = heartbeat
      /\ sending' = sending /\ expect' = expect /\ next' = next
      /\ binary' = binary /\ missed' = missed /\ foreign' = foreign
      /\ \/ s \in pend /\ Settle(s, how)
         \/ s \in Entry /\ SettleEntry(s, how)
         \/ UNCHANGED routes
  BY DEF Finish, Heard, session, bodies
<1>2. Waited \subseteq Stream /\ pend \subseteq Waited /\ Entry \subseteq Waited
  BY <1>0, WaitedLemma DEF Waited
<1>3. TypeSession'
  BY <1>0, <1>1 DEF TypeSession
<1>4. sending' \in [Stream -> BOOLEAN] /\ next \in Stream \cup {None}
  BY <1>0, <1>1 DEF TypeFrames
<1>5. how \in {"ok", "over"}
  OBVIOUS
<1> HIDE DEF how
<1>6. CASE (s \in pend /\ Settle(s, how)) \/ (s \in Entry /\ SettleEntry(s, how))
  <2>1. RoutesInv' /\ TypeRoutes' /\ \E h \in {"ok", "over"} : Ended(s, h)
    BY <1>1, <1>5, <1>6, SettleRoutes, EntryRoutes DEF RoutesInv
  <2>2. AgentEnds(s)
    BY <1>1, <1>2, <1>6 DEF AgentEnds
  <2>3. FramesInv'
    BY <1>1, <1>4, <1>5, <2>1, <2>2, NoneDelivered, EndingFrames
  <2>4. QED BY <1>3, <2>1, <2>3 DEF Parts
<1>7. CASE UNCHANGED routes
  <2>1. RoutesInv' /\ Waited' = Waited /\ TypeRoutes'
    BY <1>1, <1>7, StillRoutes DEF RoutesInv
  <2>2. outcome' = outcome /\ via' = via
    BY <1>7 DEF routes
  <2>3. FramesInv'
    BY <1>1, <1>4, <2>1, <2>2, MovingFrames
  <2>4. QED BY <1>3, <2>1, <2>3 DEF Parts
<1>8. QED BY <1>1, <1>6, <1>7

\* The text frame of a chunk.
LEMMA ChunkKeeps ==
  ASSUME Parts, NEW s \in Stream, Chunk(s)
  PROVE  Parts'
<1>0. /\ TypeSession /\ TypeFrames /\ Outcomes /\ Frames /\ ResponseComplete
      /\ StrayIsAbandoned
  BY DEF Parts, FramesInv
<1>1. /\ sess # "gone" /\ agent[s] = "body" /\ binary' = s
      /\ next' = (IF s \in Waited THEN s ELSE next)
      /\ sess' = sess /\ tear' = tear /\ pipe' = pipe /\ heartbeat' = heartbeat
      /\ UNCHANGED routes /\ sending' = sending /\ expect' = expect /\ agent' = agent
      /\ missed' = missed /\ foreign' = foreign
  BY DEF Chunk, Heard, session, remote
<1>2. RoutesInv' /\ Waited' = Waited /\ outcome' = outcome /\ via' = via
  BY <1>1, StillRoutes DEF routes
<1>3. TypeSession'
  BY <1>0, <1>1 DEF TypeSession
<1>4. TypeFrames'
  BY <1>0, <1>1 DEF TypeFrames
<1>5. Outcomes'
  BY <1>0, <1>1, <1>2 DEF Outcomes
<1>6. Frames'
  BY <1>0, <1>1, <1>2 DEF Frames, Reaches
<1>7. ResponseComplete' /\ StrayIsAbandoned'
  BY <1>0, <1>1, <1>2 DEF ResponseComplete, StrayIsAbandoned
<1>8. QED BY <1>2, <1>3, <1>4, <1>5, <1>6, <1>7 DEF Parts, FramesInv

\* The binary frame of a chunk.
LEMMA BinaryKeeps ==
  ASSUME Parts, Binary
  PROVE  Parts'
<1> DEFINE n == IF next \in Waited THEN next ELSE None
<1>0. /\ TypeSession /\ TypeRoutes /\ TypeFrames /\ Frames
  BY DEF Parts, FramesInv, RoutesInv
<1>1. /\ sess # "gone" /\ binary # None /\ binary' = None /\ next' = None
      /\ Route(binary, n)
      /\ \/ UNCHANGED <<routes, remote>>
         \/ next \in pend /\ Settle(next, "over") /\ ReadOther
      /\ sess' = sess /\ tear' = tear /\ pipe' = pipe /\ heartbeat' = heartbeat
      /\ sending' = sending
  BY DEF Binary, session
<1>2. binary \in Stream /\ None \notin Stream /\ (binary \in Waited => n = binary)
  BY <1>0, <1>1, StreamAssumption DEF TypeFrames, Frames
<1> HIDE DEF n
<1>3. Delivered
  <2>1. /\ missed' = [missed EXCEPT ![binary] = missed[binary] \/ binary # n
                                                          \/ ~Reaches(binary)]
        /\ foreign' = [r \in Stream |-> foreign[r] \cup
                         (IF r = n /\ Reaches(r) THEN {binary} \ {r} ELSE {})]
    BY <1>1 DEF Route
  <2>2. missed' \in [Stream -> BOOLEAN]
    BY <1>0, <1>2, <2>1 DEF TypeFrames
  <2>3. foreign' \in [Stream -> SUBSET Stream]
    BY <1>0, <1>2, <2>1 DEF TypeFrames
  <2>4. ASSUME NEW r \in Stream, missed'[r]
        PROVE  missed[r] \/ (r = binary /\ (r \notin Waited \/ ~Reaches(r)))
    <3>1. CASE r = binary
      <4>1. missed'[r] = (missed[r] \/ r # n \/ ~Reaches(r))
        BY <1>0, <1>2, <2>1, <3>1 DEF TypeFrames
      <4>2. QED BY <1>2, <2>4, <3>1, <4>1
    <3>2. CASE r # binary
      BY <1>0, <1>2, <2>1, <2>4, <3>2 DEF TypeFrames
    <3>3. QED BY <3>1, <3>2
  <2>5. ASSUME NEW q \in Stream, NEW r \in foreign'[q]
        PROVE  r \in foreign[q] \/ (r = binary /\ r \notin Waited)
    <3>1. r \in foreign[q] \/ (q = n /\ r = binary /\ r # q)
      BY <2>1, <2>5
    <3>2. QED BY <1>2, <3>1
  <2>6. QED BY <1>1, <2>2, <2>3, <2>4, <2>5 DEF Delivered
<1>4. /\ RoutesInv' /\ AgentReads /\ \E r : Ended(r, "over")
  <2>1. CASE UNCHANGED <<routes, remote>>
    BY <1>1, <2>1, StillRoutes, ReadOtherLemma
  <2>2. CASE next \in pend /\ Settle(next, "over") /\ ReadOther
    BY <1>1, <2>2, SettleRoutes, ReadOtherLemma
  <2>3. QED BY <1>1, <2>1, <2>2
<1>5. FramesInv'
  <2>1. PICK r : Ended(r, "over")
    BY <1>4
  <2>2. TypeRoutes' /\ sending' \in [Stream -> BOOLEAN] /\ next' \in Stream \cup {None}
    BY <1>0, <1>1, <1>4 DEF RoutesInv, TypeFrames
  <2>3. QED BY <1>1, <1>3, <1>4, <2>1, <2>2, EndingFrames
<1>6. TypeSession'
  BY <1>0, <1>1 DEF TypeSession
<1>7. QED BY <1>4, <1>5, <1>6 DEF Parts

\* A heartbeat, the end of the agent, or an error of the exec stream: none
\* touches a request.
LEMMA PulseKeeps ==
  ASSUME Parts, Heartbeat \/ AgentDies \/ ExecError
  PROVE  Parts'
<1>0. TypeSession /\ TypeFrames
  BY DEF Parts, FramesInv
<1>1. /\ sess' = sess /\ tear' = tear /\ pipe' \in {pipe, "broken", "closed"}
      /\ (heartbeat' = heartbeat \/ heartbeat' = TRUE)
      /\ UNCHANGED routes /\ sending' = sending /\ next' = next /\ UNCHANGED remote
      /\ binary' = binary /\ missed' = missed /\ foreign' = foreign
  BY DEF Heartbeat, AgentDies, ExecError, bodies
<1>2. RoutesInv' /\ Ended(None, "over") /\ TypeRoutes'
  BY <1>1, StillRoutes DEF RoutesInv
<1>3. sending' \in [Stream -> BOOLEAN] /\ next' \in Stream \cup {None}
  BY <1>0, <1>1 DEF TypeFrames
<1>4. FramesInv'
  BY <1>1, <1>2, <1>3, ReadOtherLemma, NoneDelivered, EndingFrames
<1>5. heartbeat' \in BOOLEAN
  BY <1>0, <1>1 DEF TypeSession
<1>6. pipe' \in {"open", "ended", "broken", "closed"}
  BY <1>0, <1>1 DEF TypeSession
<1>7. TypeSession'
  BY <1>0, <1>1, <1>5, <1>6 DEF TypeSession
<1>8. QED BY <1>2, <1>4, <1>7 DEF Parts

-----------------------------------------------------------------------------
(* The end of the session. *)

\* The session begins to close, or goes on as it was without the grace timer.
LEMMA ClosingKeeps ==
  ASSUME Parts, sess' \in {"active", "closing", "gone"},
         tear' \in [Teardown -> {"idle", "begun", "cleared", "done"}],
         pipe' \in {"open", "ended", "broken", "closed"}, heartbeat' \in BOOLEAN,
         sess' = sess \/ sess' = "closing", sess = "gone" => sess' = "gone",
         pipe' = "open" => pipe = "open",
         \A t \in Teardown : tear'[t] # "idle" => sess' # "active",
         grace' = grace \/ grace' = FALSE,
         sess' # "active" => ~grace',
         UNCHANGED <<clients, inFlight, pend, via, outcome, sending, next, remote, bodies>>
  PROVE  Parts'
<1>0. /\ TypeRoutes /\ SlotsExact /\ Sentinels /\ GraceIsIdle /\ GoneIsEmpty /\ TypeFrames
  BY DEF Parts, RoutesInv, FramesInv
<1>1. /\ clients' = clients /\ inFlight' = inFlight /\ pend' = pend /\ via' = via
      /\ outcome' = outcome /\ sending' = sending /\ next' = next /\ UNCHANGED remote
      /\ binary' = binary /\ missed' = missed /\ foreign' = foreign
  BY DEF bodies
<1>2. Waited' = Waited /\ Waited \subseteq Stream /\ None \notin Stream
  BY <1>0, <1>1, WaitedLemma, StreamAssumption DEF Waited, Entry
<1>3. TypeSession'
  BY DEF TypeSession
<1>4. TypeRoutes'
  <2>1. grace' \in BOOLEAN
    BY <1>0 DEF TypeRoutes
  <2>2. QED BY <1>0, <1>1, <2>1 DEF TypeRoutes
<1>5. SlotsExact'
  BY <1>0, <1>1, <1>2 DEF SlotsExact
<1>6. Sentinels'
  BY <1>0, <1>1 DEF Sentinels, Attached
<1>7. Closing'
  BY DEF Closing
<1>8. GraceIsIdle'
  BY <1>0, <1>1 DEF GraceIsIdle
<1>9. GoneIsEmpty'
  BY <1>0, <1>1, <1>2 DEF GoneIsEmpty
<1>10. Ended(None, "over")
  BY <1>1, <1>2 DEF Ended, Reaches
<1>11. sending' \in [Stream -> BOOLEAN] /\ next' \in Stream \cup {None}
  BY <1>0, <1>1 DEF TypeFrames
<1>12. FramesInv'
  BY <1>1, <1>4, <1>10, <1>11, ReadOtherLemma, NoneDelivered, EndingFrames
<1>13. QED BY <1>3, <1>4, <1>5, <1>6, <1>7, <1>8, <1>9, <1>12 DEF Parts, RoutesInv

\* What the first part of teardown does to the session.
LEMMA BeginLemma ==
  ASSUME Parts, NEW t \in Teardown, Begin(t)
  PROVE  /\ sess' \in {"active", "closing", "gone"} /\ sess' # "active"
         /\ sess' = sess \/ sess' = "closing"
         /\ sess = "gone" => sess' = "gone"
         /\ tear' \in [Teardown -> {"idle", "begun", "cleared", "done"}]
         /\ grace' = FALSE
BY DEF Parts, TypeSession, Begin

\* Each of the steps that begin a teardown, or find nothing to tear down.
LEMMA TeardownBeginsKeeps ==
  ASSUME Parts, NEW t \in Teardown,
         DeleteSession(t) \/ HeartbeatTimeout(t) \/ ExecEnd(t) \/ GraceExpires(t)
  PROVE  Parts'
<1>0. TypeSession /\ TypeRoutes /\ Closing
  BY DEF Parts, RoutesInv
<1>1. UNCHANGED <<clients, inFlight, pend, via, outcome, sending, next, remote, bodies>>
  BY DEF DeleteSession, HeartbeatTimeout, ExecEnd, GraceExpires
<1>2. heartbeat' = heartbeat \/ heartbeat' = FALSE
  BY DEF DeleteSession, HeartbeatTimeout, ExecEnd, GraceExpires
<1>3. pipe' = pipe \/ pipe' = "closed"
  BY DEF DeleteSession, HeartbeatTimeout, ExecEnd, GraceExpires
<1>4. Begin(t) \/ (sess' = sess /\ tear' = tear /\ (grace' = grace \/ grace' = FALSE))
  BY DEF DeleteSession, HeartbeatTimeout, ExecEnd, GraceExpires
<1>5. heartbeat' \in BOOLEAN
  BY <1>0, <1>2 DEF TypeSession
<1>6. pipe' \in {"open", "ended", "broken", "closed"} /\ (pipe' = "open" => pipe = "open")
  BY <1>0, <1>3 DEF TypeSession
<1>7. CASE Begin(t)
  <2>1. /\ sess' \in {"active", "closing", "gone"} /\ sess' # "active"
        /\ sess' = sess \/ sess' = "closing"
        /\ sess = "gone" => sess' = "gone"
        /\ tear' \in [Teardown -> {"idle", "begun", "cleared", "done"}]
        /\ grace' = FALSE
    BY <1>7, BeginLemma
  <2>2. QED BY <1>1, <1>5, <1>6, <2>1, ClosingKeeps
<1>8. CASE sess' = sess /\ tear' = tear /\ (grace' = grace \/ grace' = FALSE)
  <2>1. /\ sess' \in {"active", "closing", "gone"}
        /\ tear' \in [Teardown -> {"idle", "begun", "cleared", "done"}]
    BY <1>0, <1>8 DEF TypeSession
  <2>2. /\ \A u \in Teardown : tear'[u] # "idle" => sess' # "active"
        /\ sess' # "active" => ~grace'
    BY <1>0, <1>8 DEF Closing
  <2>3. QED BY <1>1, <1>5, <1>6, <1>8, <2>1, <2>2, ClosingKeeps
<1>9. QED BY <1>4, <1>7, <1>8

\* The stream map is cleared and the exec stream ended.
LEMMA TeardownClearKeeps ==
  ASSUME Parts, NEW t \in Teardown, TeardownClear(t)
  PROVE  Parts'
<1>0. /\ TypeSession /\ TypeRoutes /\ Sentinels /\ Closing /\ GraceIsIdle /\ GoneIsEmpty
      /\ TypeFrames /\ Outcomes
  BY DEF Parts, RoutesInv, FramesInv
<1>1. /\ tear[t] = "begun" /\ tear' = [tear EXCEPT ![t] = "cleared"]
      /\ pipe' = (IF pipe = "open" THEN "ended" ELSE pipe)
      /\ ReadOther \/ UNCHANGED remote
      /\ Forget(Entry) /\ Tell({}, "over", Entry)
      /\ sess' = sess /\ heartbeat' = heartbeat
      /\ clients' = clients /\ grace' = grace /\ inFlight' = inFlight /\ pend' = pend
      /\ sending' = sending /\ next' = next
      /\ binary' = binary /\ missed' = missed /\ foreign' = foreign
  BY DEF TeardownClear, bodies
<1>2. /\ via' \in [Socket -> Client \cup Streaming \cup {None}]
      /\ Entry' = Entry \ Entry
      /\ \A r \in Direct \cup Streaming \cup Entry' : Reaches(r)' => Reaches(r)
  BY <1>0, <1>1, ForgetLemma
<1>3. /\ outcome' \in [Stream -> {"idle", "waiting", "streaming", "ok", "over"}]
      /\ \A r \in Stream : outcome'[r] = IF r \in {} THEN "over"
                             ELSE IF r \in Entry THEN "over" ELSE outcome[r]
  BY <1>0, <1>1, TellLemma
<1>4. /\ Waited \subseteq Stream /\ pend \cap Entry = {} /\ None \notin Stream
      /\ Waited' = pend /\ Waited = pend \cup Entry
  BY <1>0, <1>1, <1>2, WaitedLemma, StreamAssumption DEF Waited
<1>5. sess # "active" /\ ~grace
  BY <1>0, <1>1 DEF Closing
<1>6. TypeSession'
  BY <1>0, <1>1 DEF TypeSession
<1>7. TypeRoutes'
  BY <1>0, <1>1, <1>2, <1>3 DEF TypeRoutes
<1>8. SlotsExact' /\ GraceIsIdle'
  BY <1>1, <1>5 DEF SlotsExact, GraceIsIdle
<1>9. Sentinels'
  <2>1. \A r \in pend : r \in Stream /\ outcome'[r] = outcome[r]
    BY <1>3, <1>4
  <2>2. QED BY <1>0, <1>1, <2>1 DEF Sentinels, Attached
<1>10. Closing'
  BY <1>1, <1>5 DEF Closing
<1>11. GoneIsEmpty'
  <2> SUFFICES ASSUME sess = "gone" PROVE GoneIsEmpty'
    BY <1>1 DEF GoneIsEmpty
  <2>1. /\ Waited = {} /\ next = None /\ inFlight = 0
        /\ \A r \in Stream : outcome[r] \notin {"waiting", "streaming"}
    BY <1>0 DEF GoneIsEmpty
  <2>2. QED BY <1>1, <1>3, <1>4, <1>5, <2>1 DEF GoneIsEmpty
<1>12. Ended(None, "over")
  <2>1. \A r \in Waited' : Reaches(r)' => Reaches(r)
    BY <1>0, <1>2, <1>4 DEF TypeRoutes
  <2>2. QED BY <1>3, <1>4, <2>1 DEF Ended
<1>13. sending' \in [Stream -> BOOLEAN] /\ next' \in Stream \cup {None}
  BY <1>0, <1>1 DEF TypeFrames
<1>14. FramesInv'
  BY <1>1, <1>7, <1>12, <1>13, ReadOtherLemma, NoneDelivered, EndingFrames
<1>15. QED BY <1>6, <1>7, <1>8, <1>9, <1>10, <1>11, <1>14 DEF Parts, RoutesInv

\* The session leaves the manager.
LEMMA TeardownFinishKeeps ==
  ASSUME Parts, NEW t \in Teardown, TeardownFinish(t)
  PROVE  Parts'
<1>0. TypeSession /\ TypeRoutes /\ Closing /\ TypeFrames /\ Outcomes
  BY DEF Parts, RoutesInv, FramesInv
<1>1. /\ tear[t] = "cleared" /\ tear' = [tear EXCEPT ![t] = "done"]
      /\ sess' = "gone" /\ heartbeat' = FALSE /\ pend' = {}
      /\ Forget(Entry) /\ Tell({}, "over", Waited)
      /\ next' = None /\ clients' = <<>> /\ inFlight' = 0
      /\ pipe' = pipe /\ grace' = grace /\ sending' = sending /\ UNCHANGED remote
      /\ binary' = binary /\ missed' = missed /\ foreign' = foreign
  BY DEF TeardownFinish, bodies
<1>2. /\ via' \in [Socket -> Client \cup Streaming \cup {None}]
      /\ Entry' = Entry \ Entry
      /\ \A r \in Direct \cup Streaming \cup Entry' : Reaches(r)' => Reaches(r)
  BY <1>0, <1>1, ForgetLemma
<1>3. /\ outcome' \in [Stream -> {"idle", "waiting", "streaming", "ok", "over"}]
      /\ \A r \in Stream : outcome'[r] = IF r \in {} THEN "over"
                             ELSE IF r \in Waited THEN "over" ELSE outcome[r]
  BY <1>0, <1>1, TellLemma
<1>4. Waited \subseteq Stream /\ None \notin Stream /\ Waited' = {}
  BY <1>0, <1>1, <1>2, WaitedLemma, StreamAssumption DEF Waited
<1>5. ~grace'
  BY <1>0, <1>1 DEF Closing
<1>6. TypeSession'
  BY <1>0, <1>1 DEF TypeSession
<1>7. TypeRoutes'
  <2>1. 0 \in 0 .. MaxConcurrent
    BY LimitAssumption
  <2>2. <<>> \in Seq(Client \cup Streaming)
    BY EmptySeq
  <2>3. QED BY <1>0, <1>1, <1>2, <1>3, <2>1, <2>2 DEF TypeRoutes
<1>8. SlotsExact' /\ Sentinels' /\ Closing' /\ GraceIsIdle'
  BY <1>1, <1>5 DEF SlotsExact, Sentinels, Closing, GraceIsIdle
<1>9. GoneIsEmpty'
  BY <1>0, <1>1, <1>3, <1>4, <1>5 DEF GoneIsEmpty, Outcomes
<1>10. Ended(None, "over")
  BY <1>3, <1>4 DEF Ended
<1>11. sending' \in [Stream -> BOOLEAN] /\ next' \in Stream \cup {None}
  BY <1>0, <1>1 DEF TypeFrames
<1>12. FramesInv'
  BY <1>1, <1>4, <1>7, <1>10, <1>11, ReadOtherLemma, NoneDelivered, EndingFrames
<1>13. QED BY <1>6, <1>7, <1>8, <1>9, <1>12 DEF Parts, RoutesInv

-----------------------------------------------------------------------------
(* The theorems. *)

\* A session that has just become active.
LEMMA InitParts ==
  ASSUME Init
  PROVE  Parts
<1>1. None \notin Stream /\ 0 \in 0 .. MaxConcurrent
  BY StreamAssumption, LimitAssumption
<1>2. TypeSession
  BY DEF Init, TypeSession
<1>3. TypeRoutes
  BY <1>1, EmptySeq DEF Init, TypeRoutes
<1>4. TypeFrames
  BY DEF Init, TypeFrames
<1>5. Waited = {}
  BY DEF Init, Waited, Entry
<1>6. SlotsExact
  BY <1>5, FS_EmptySet DEF Init, SlotsExact
<1>7. Sentinels /\ Closing /\ GraceIsIdle /\ GoneIsEmpty
  BY DEF Init, Sentinels, Closing, GraceIsIdle, GoneIsEmpty
<1>8. Outcomes /\ Frames
  BY <1>1, <1>5 DEF Init, Outcomes, Frames
<1>9. ResponseComplete /\ StrayIsAbandoned
  BY DEF Init, ResponseComplete, StrayIsAbandoned
<1>10. QED BY <1>2, <1>3, <1>4, <1>6, <1>7, <1>8, <1>9 DEF Parts, RoutesInv, FramesInv

\* The two halves are the invariant.
LEMMA PartsIsIInv == Parts <=> IInv
BY DEF Parts, RoutesInv, FramesInv, IInv, TypeOK, TypeSession, TypeRoutes, TypeFrames

\* Every step keeps the invariant.
LEMMA NextKeeps ==
  ASSUME Parts, [Next]_vars
  PROVE  Parts'
<1>1. ASSUME NEW s \in Stream,
             \/ Refuse(s) \/ ProxyDirect(s) \/ ProxyStreaming(s) \/ ProxyRequest(s)
             \/ SendBody(s) \/ WriteFails(s) \/ Timeout(s) \/ Cancel(s) \/ Abort(s)
             \/ \E follows \in BOOLEAN : Respond(s, follows)
             \/ Chunk(s) \/ Finish(s)
      PROVE  Parts'
  BY <1>1, RefuseKeeps, ProxyDirectKeeps, ProxyStreamingKeeps, ProxyRequestKeeps,
     SendBodyKeeps, WriteFailsKeeps, TimeoutKeeps, CancelKeeps, AbortKeeps, RespondKeeps,
     ChunkKeeps, FinishKeeps
<1>2. CASE Binary \/ Heartbeat \/ AgentDies \/ ExecError
  BY <1>2, BinaryKeeps, PulseKeeps
<1>3. ASSUME NEW c \in Client, Attach(c) \/ (sess # "gone" /\ Detach(c))
      PROVE  Parts'
  BY <1>3, AttachKeeps, ClientDetachKeeps
<1>4. ASSUME NEW t \in Teardown,
             \/ DeleteSession(t) \/ HeartbeatTimeout(t) \/ ExecEnd(t) \/ GraceExpires(t)
             \/ TeardownClear(t) \/ TeardownFinish(t)
      PROVE  Parts'
  BY <1>4, TeardownBeginsKeeps, TeardownClearKeeps, TeardownFinishKeeps
<1>5. CASE UNCHANGED vars
  <2>1. UNCHANGED <<session, routes, sending, next, remote, bodies>>
    BY <1>5 DEF vars, session, routes, remote, bodies
  <2>2. TypeSession'
    BY <2>1 DEF Parts, TypeSession, session
  <2>3. RoutesInv' /\ Ended(None, "over") /\ TypeRoutes'
    BY <2>1, StillRoutes DEF session, RoutesInv
  <2>4. sending' \in [Stream -> BOOLEAN] /\ next' \in Stream \cup {None}
    BY <2>1 DEF Parts, FramesInv, TypeFrames
  <2>5. FramesInv'
    BY <2>1, <2>3, <2>4, ReadOtherLemma, NoneDelivered, EndingFrames DEF bodies
  <2>6. QED BY <2>2, <2>3, <2>5 DEF Parts
<1>6. QED BY <1>1, <1>2, <1>3, <1>4, <1>5 DEF Next

\* The inductive invariant holds in every reachable state of a session, for any
\* number of requests, clients, slots and calls of teardown.
THEOREM SpecIInv == Spec => []IInv
<1>1. Init => Parts
  BY InitParts
<1>2. Parts /\ [Next]_vars => Parts'
  BY NextKeeps
<1>3. QED BY <1>1, <1>2, PartsIsIInv, PTL DEF Spec

\* The limiter's count is the number of requests under way, on every path by
\* which proxyHTTPDirect, proxyHTTPStreaming and proxyHTTPRequest end.
THEOREM SlotsAreExact == Spec => []SlotsExact
<1>1. IInv => SlotsExact
  BY DEF IInv
<1>2. QED BY <1>1, SpecIInv, PTL

\* A response reported as complete by handleBodyEnd or http_response has every
\* chunk that the agent wrote.
THEOREM CompleteMeansComplete == Spec => []ResponseComplete
<1>1. IInv => ResponseComplete
  BY DEF IInv
<1>2. QED BY <1>1, SpecIInv, PTL

\* handleAgentBinary gives no chunk of a request under way to another one.
THEOREM NoMixUp == Spec => []StrayIsAbandoned
<1>1. IInv => StrayIsAbandoned
  BY DEF IInv
<1>2. QED BY <1>1, SpecIInv, PTL

\* teardown leaves nothing behind, whatever arrives between its awaits and
\* however many calls of it overlap.
THEOREM NothingLeftBehind == Spec => []GoneIsEmpty
<1>1. IInv => GoneIsEmpty
  BY DEF IInv
<1>2. QED BY <1>1, SpecIInv, PTL

\* The grace timer of an ephemeral session never runs while a client is attached
\* or a streaming request waits for its headers.
THEOREM GraceOnlyWhenIdle == Spec => []GraceIsIdle
<1>1. IInv => GraceIsIdle
  BY DEF IInv
<1>2. QED BY <1>1, SpecIInv, PTL

-----------------------------------------------------------------------------
(* The session implements TunnelService. *)

\* A step of TunnelService, or none.
ServiceStep == [Service!ServiceNext]_Service!serviceVars

\* The requests under way are the ones of the maps, and none is under way when
\* the session is gone.
LEMMA UnderWayLemma ==
  ASSUME Parts
  PROVE  /\ Service!UnderWay = Waited
         /\ Waited \subseteq Stream /\ None \notin Stream
         /\ Waited # {} => sess # "gone"
         /\ outcome \in [Stream -> {"idle", "waiting", "streaming", "ok", "over"}]
<1>0. TypeRoutes /\ Outcomes /\ GoneIsEmpty
  BY DEF Parts, RoutesInv, FramesInv
<1>1. Waited \subseteq Stream
  BY <1>0, WaitedLemma
<1>2. Service!UnderWay = Waited
  BY <1>0, <1>1 DEF Outcomes, Service!UnderWay
<1>3. QED BY <1>0, <1>1, <1>2, StreamAssumption DEF TypeRoutes, GoneIsEmpty

\* A step that tells no caller anything is none for them, but that the session
\* may stop working.
LEMMA SilentStep ==
  ASSUME outcome' = outcome,
         sess' = "gone" <=> sess = "gone",
         sess' = "active" => sess = "active", pipe' = "open" => pipe = "open"
  PROVE  ServiceStep
<1>1. CASE sess # "gone" /\ sess = "active" /\ pipe = "open"
           /\ ~(sess' = "active" /\ pipe' = "open")
  <2>1. Service!Fail
    BY <1>1 DEF Service!Fail
  <2>2. QED BY <2>1 DEF ServiceStep, Service!ServiceNext
<1>2. CASE ~(sess # "gone" /\ sess = "active" /\ pipe = "open"
             /\ ~(sess' = "active" /\ pipe' = "open"))
  BY <1>2 DEF ServiceStep, Service!serviceVars
<1>3. QED BY <1>1, <1>2

\* Requests that end in a session that goes on, whoever ends them.
LEMMA EndedStep ==
  ASSUME Parts, TypeRoutes', NEW s \in Waited \cup {None}, NEW how \in {"ok", "over"},
         Ended(s, how), sess' = sess,
         (sess = "active" /\ pipe = "open") <=> (sess = "active" /\ pipe' = "open")
  PROVE  ServiceStep
<1> DEFINE D == Waited \ Waited'
<1>0. /\ Service!UnderWay = Waited
      /\ Waited \subseteq Stream /\ None \notin Stream
      /\ Waited # {} => sess # "gone"
      /\ outcome \in [Stream -> {"idle", "waiting", "streaming", "ok", "over"}]
      /\ outcome' \in [Stream -> {"idle", "waiting", "streaming", "ok", "over"}]
  BY UnderWayLemma DEF TypeRoutes
<1>1. ASSUME NEW r \in Waited, NEW x \in {"ok", "over"}, r = s => x = how,
             s = None => x = "over" /\ r \in D, s # None => r = s
      PROVE  ServiceStep
  <2>1. \A q \in Stream :
          outcome'[q] = IF q = r THEN x ELSE IF q \in D THEN "over" ELSE outcome[q]
    BY <1>0, <1>1 DEF Ended
  <2>2. outcome' = [q \in Stream |->
          IF q = r THEN x ELSE IF q \in D THEN "over" ELSE outcome[q]]
    BY <1>0, <2>1
  <2>3. sess # "gone"
    BY <1>0, <1>1
  <2>4. Service!End(r, x, D)
    BY <2>2, <2>3 DEF Service!End
  <2>5. D \in SUBSET Service!UnderWay
    BY <1>0
  <2>6. QED BY <1>0, <1>1, <2>4, <2>5 DEF ServiceStep, Service!ServiceNext
<1>2. CASE s # None
  BY <1>1, <1>2
<1>3. CASE s = None /\ D # {}
  <2>1. PICK r \in D : TRUE
    BY <1>3
  <2>2. r \in Waited /\ r # s
    BY <1>0, <1>3, <2>1
  <2>3. QED BY <1>1, <1>3, <2>1, <2>2
<1>4. CASE s = None /\ D = {}
  <2>1. \A q \in Stream : outcome'[q] = outcome[q]
    BY <1>0, <1>4 DEF Ended
  <2>2. outcome' = outcome
    BY <1>0, <2>1
  <2>3. QED BY <2>2 DEF ServiceStep, Service!serviceVars
<1>5. QED BY <1>2, <1>3, <1>4

\* A pending response or a client's one is settled.
LEMMA SettleStep ==
  ASSUME Parts, NEW s, NEW how \in {"ok", "over"},
         (s \in pend /\ Settle(s, how)) \/ (s \in Entry /\ SettleEntry(s, how)),
         UNCHANGED session
  PROVE  ServiceStep
<1>1. sess' = sess /\ tear' = tear /\ pipe' = pipe
  BY DEF session
<1>2. RoutesInv' /\ \E h \in {"ok", "over"} : Ended(s, h)
  BY <1>1, SettleRoutes, EntryRoutes
<1>3. s \in Waited
  BY DEF Waited
<1>4. QED BY <1>1, <1>2, <1>3, EndedStep DEF RoutesInv

\* A client or a sentinel leaves.
LEMMA DetachStep ==
  ASSUME Parts, NEW c, Detach(c), sess # "gone",
         \A r \in pend : outcome[r] = "waiting" => r # c
  PROVE  ServiceStep
<1>1. RoutesInv' /\ Ended(None, "over")
  BY LeaveRoutes
<1>2. sess' = sess /\ pipe' = pipe
  BY DEF Detach, session
<1>3. QED BY <1>1, <1>2, EndedStep DEF RoutesInv

\* A request is refused only at the limit, while the session works.
LEMMA RefuseStep ==
  ASSUME Parts, NEW s \in Stream, Refuse(s)
  PROVE  ServiceStep
<1>0. TypeRoutes /\ SlotsExact
  BY DEF Parts, RoutesInv
<1>1. /\ outcome[s] = "idle" /\ Tell({s}, "over", {}) /\ ~CanAcquire
      /\ sess' = sess /\ pipe' = pipe
  BY DEF Refuse, session
<1>2. outcome' = [outcome EXCEPT ![s] = "over"]
  BY <1>0, <1>1 DEF Tell, TypeRoutes
<1>3. sess # "gone" /\ sess = "active" /\ pipe = "open"
        => Cardinality(Service!UnderWay) >= MaxConcurrent
  <2>1. Service!UnderWay = Waited /\ Cardinality(Waited) \in Nat
    BY <1>0, UnderWayLemma, WaitedLemma
  <2>2. QED BY <1>0, <1>1, <2>1, LimitAssumption DEF CanAcquire, SlotsExact, TypeRoutes
<1>4. Service!Refuse(s)
  BY <1>1, <1>2, <1>3 DEF Service!Refuse, Service!Cardinality, Cardinality
<1>5. QED BY <1>4 DEF ServiceStep, Service!ServiceNext

\* A request is taken only below the limit, while the session works.
LEMMA SendStep ==
  ASSUME Parts, NEW s \in Stream, Send(s)
  PROVE  ServiceStep
<1>0. TypeRoutes /\ SlotsExact
  BY DEF Parts, RoutesInv
<1>1. /\ outcome[s] = "idle" /\ Tell({s}, "waiting", {}) /\ CanAcquire
      /\ sess' = sess /\ pipe' = pipe
  BY DEF Send, session
<1>2. outcome' = [outcome EXCEPT ![s] = "waiting"]
  BY <1>0, <1>1 DEF Tell, TypeRoutes
<1>3. sess # "gone"
      /\ (sess = "active" /\ pipe = "open" => Cardinality(Service!UnderWay) < MaxConcurrent)
  <2>1. Service!UnderWay = Waited
    BY UnderWayLemma
  <2>2. QED BY <1>0, <1>1, <2>1 DEF CanAcquire, SlotsExact
<1>4. Service!Admit(s)
  BY <1>1, <1>2, <1>3 DEF Service!Admit, Service!Cardinality, Cardinality
<1>5. QED BY <1>4 DEF ServiceStep, Service!ServiceNext

\* A response begins, or is all there is.
LEMMA RespondStep ==
  ASSUME Parts, NEW s \in Stream, NEW follows \in BOOLEAN, Respond(s, follows)
  PROVE  ServiceStep
<1>0. TypeRoutes /\ Outcomes
  BY DEF Parts, RoutesInv, FramesInv
<1>1. UNCHANGED session /\ sess' = sess /\ pipe' = pipe /\ sess # "gone"
  BY DEF Respond, session, Heard
<1>2. CASE s \in pend /\ follows /\ Tell({s} \cap Streaming, "streaming", {})
  <2>1. outcome[s] \in {"waiting", "streaming"}
    BY <1>0, <1>2 DEF Outcomes, Waited
  <2>2. CASE s \in Streaming /\ outcome[s] = "waiting"
    <3>1. outcome' = [outcome EXCEPT ![s] = "streaming"]
      BY <1>0, <1>2, <2>2 DEF Tell, TypeRoutes
    <3>2. Service!Headers(s)
      BY <1>1, <2>2, <3>1 DEF Service!Headers
    <3>3. QED BY <3>2 DEF ServiceStep, Service!ServiceNext
  <2>3. CASE ~(s \in Streaming /\ outcome[s] = "waiting")
    <3>1. outcome' = outcome
      BY <1>0, <1>2, <2>1, <2>3 DEF Tell, TypeRoutes
    <3>2. QED BY <1>1, <3>1, SilentStep
  <2>4. QED BY <2>2, <2>3
<1>3. CASE (s \in pend /\ Settle(s, "ok")) \/ (s \in Entry /\ SettleEntry(s, "ok"))
  BY <1>1, <1>3, SettleStep
<1>4. CASE UNCHANGED routes
  BY <1>1, <1>4, SilentStep DEF routes
<1>5. QED BY <1>2, <1>3, <1>4 DEF Respond

\* The stream map is cleared while the session closes.
LEMMA TeardownClearStep ==
  ASSUME Parts, Parts', NEW t \in Teardown, TeardownClear(t)
  PROVE  ServiceStep
<1>0. TypeRoutes /\ TypeRoutes' /\ Closing
  BY DEF Parts, RoutesInv
<1>1. /\ Forget(Entry) /\ Tell({}, "over", Entry) /\ pend' = pend /\ sess' = sess
      /\ sess # "active"
  BY <1>0 DEF TeardownClear, Closing
<1>2. /\ Entry' = Entry \ Entry
      /\ \A r \in Direct \cup Streaming \cup Entry' : Reaches(r)' => Reaches(r)
  BY <1>0, <1>1, ForgetLemma
<1>3. \A r \in Stream : outcome'[r] = IF r \in Entry THEN "over" ELSE outcome[r]
  BY <1>1 DEF Tell
<1>4. /\ Waited \subseteq Stream /\ None \notin Stream /\ pend \cap Entry = {}
      /\ Waited' = pend /\ Waited = pend \cup Entry
  BY <1>0, <1>1, <1>2, WaitedLemma, StreamAssumption DEF Waited
<1>5. Ended(None, "over")
  <2>1. \A r \in Waited' : Reaches(r)' => Reaches(r)
    BY <1>0, <1>2, <1>4 DEF TypeRoutes
  <2>2. QED BY <1>3, <1>4, <2>1 DEF Ended
<1>6. QED BY <1>0, <1>1, <1>5, EndedStep

\* The session is gone, and all who still waited are told.
LEMMA TeardownFinishStep ==
  ASSUME Parts, NEW t \in Teardown, TeardownFinish(t)
  PROVE  ServiceStep
<1>0. TypeRoutes /\ Closing /\ TypeSession /\ GoneIsEmpty
  BY DEF Parts, RoutesInv
<1>1. /\ sess' = "gone" /\ sess # "active" /\ pipe' = pipe
      /\ outcome' = [q \in Stream |-> IF q \in Waited THEN "over" ELSE outcome[q]]
  BY <1>0 DEF TeardownFinish, Closing, Tell
<1>2. CASE sess = "gone"
  <2>1. outcome' = outcome
    BY <1>0, <1>1, <1>2 DEF GoneIsEmpty, TypeRoutes
  <2>2. QED BY <1>1, <1>2, <2>1, SilentStep
<1>3. CASE sess # "gone"
  <2>1. Service!UnderWay = Waited
    BY UnderWayLemma
  <2>2. Service!Close
    BY <1>1, <1>3, <2>1 DEF Service!Close
  <2>3. QED BY <2>2 DEF ServiceStep, Service!ServiceNext
<1>4. QED BY <1>2, <1>3

\* Every step of the session is one of TunnelService, or none.
LEMMA NextIsServiceStep ==
  ASSUME Parts, Parts', [Next]_vars
  PROVE  ServiceStep
<1>1. ASSUME NEW s \in Stream,
             \/ Refuse(s) \/ ProxyDirect(s) \/ ProxyStreaming(s) \/ ProxyRequest(s)
      PROVE  ServiceStep
  BY <1>1, RefuseStep, SendStep DEF ProxyDirect, ProxyStreaming, ProxyRequest
<1>2. ASSUME NEW s \in Stream, SendBody(s) \/ Chunk(s)
      PROVE  ServiceStep
  BY <1>2, SilentStep DEF SendBody, Chunk, session, routes
<1>3. ASSUME NEW s \in Stream, WriteFails(s)
      PROVE  ServiceStep
  <2>1. CASE s \in pend /\ Settle(s, "over")
    BY <1>3, <2>1, SettleStep DEF WriteFails
  <2>2. CASE outcome' = outcome
    BY <1>3, <2>2, SilentStep DEF WriteFails, session
  <2>3. QED BY <1>3, <2>1, <2>2 DEF WriteFails, routes
<1>4. ASSUME NEW s \in Stream, Timeout(s) \/ Cancel(s)
      PROVE  ServiceStep
  BY <1>4, SettleStep DEF Timeout, Cancel
<1>5. ASSUME NEW s \in Stream, Abort(s)
      PROVE  ServiceStep
  <2>1. s \in pend /\ outcome[s] = "streaming" /\ Detach(s)
    BY <1>5 DEF Abort
  <2>2. sess # "gone"
    BY <2>1 DEF Parts, RoutesInv, GoneIsEmpty, Waited
  <2>3. QED BY <2>1, <2>2, DetachStep
<1>6. ASSUME NEW s \in Stream, Finish(s)
      PROVE  ServiceStep
  <2> DEFINE how == IF agent[s] = "body" THEN "ok" ELSE "over"
  <2>1. CASE (s \in pend /\ Settle(s, how)) \/ (s \in Entry /\ SettleEntry(s, how))
    BY <1>6, <2>1, SettleStep DEF Finish
  <2>2. CASE UNCHANGED routes
    BY <1>6, <2>2, SilentStep DEF Finish, session, routes
  <2>3. QED BY <1>6, <2>1, <2>2 DEF Finish
<1>7. CASE Binary
  <2>1. CASE next \in pend /\ Settle(next, "over")
    BY <1>7, <2>1, SettleStep DEF Binary
  <2>2. CASE UNCHANGED routes
    BY <1>7, <2>2, SilentStep DEF Binary, session, routes
  <2>3. QED BY <1>7, <2>1, <2>2 DEF Binary
<1>8. CASE Heartbeat \/ AgentDies \/ ExecError
  BY <1>8, SilentStep DEF Heartbeat, AgentDies, ExecError, routes
<1>9. ASSUME NEW c \in Client, Attach(c) \/ (sess # "gone" /\ Detach(c))
      PROVE  ServiceStep
  <2>1. c \notin pend
    BY StreamAssumption DEF Parts, RoutesInv, TypeRoutes, Stream
  <2>2. CASE Attach(c)
    BY <2>2, SilentStep DEF Attach, session
  <2>3. QED BY <1>9, <2>1, <2>2, DetachStep
<1>10. ASSUME NEW t \in Teardown,
             DeleteSession(t) \/ HeartbeatTimeout(t) \/ ExecEnd(t) \/ GraceExpires(t)
      PROVE  ServiceStep
  <2>1. outcome' = outcome /\ (pipe' = pipe \/ pipe' = "closed")
        /\ (Begin(t) \/ sess' = sess)
    BY <1>10 DEF DeleteSession, HeartbeatTimeout, ExecEnd, GraceExpires
  <2>2. QED BY <2>1, SilentStep DEF Begin
<1>11. ASSUME NEW t \in Teardown, TeardownClear(t) \/ TeardownFinish(t)
      PROVE  ServiceStep
  BY <1>11, TeardownClearStep, TeardownFinishStep
<1>12. CASE UNCHANGED vars
  BY <1>12, SilentStep DEF vars
<1>13. QED
  BY <1>1, <1>2, <1>3, <1>4, <1>5, <1>6, <1>7, <1>8, <1>9, <1>10, <1>11, <1>12,
     RespondStep
  DEF Next

\* A framed session keeps what TunnelService promises, for any number of
\* requests, clients and calls of teardown and any limit: while it works it
\* refuses no request below the limit and takes none above it, it tells every
\* caller once, and it leaves none waiting.
THEOREM SessionImplementsService == Spec => ImplementsService
<1>1. Init => Service!ServiceInit
  BY DEF Init, Service!ServiceInit
<1>2. Parts /\ Parts' /\ [Next]_vars => [Service!ServiceNext]_Service!serviceVars
  BY NextIsServiceStep DEF ServiceStep
<1>3. QED
  BY <1>1, <1>2, SpecIInv, PartsIsIInv, PTL
  DEF Spec, ImplementsService, Service!ServiceSpec

=============================================================================
