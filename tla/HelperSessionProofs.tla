------------------------- MODULE HelperSessionProofs -------------------------
(***************************************************************************)
(* Proofs about HelperSession, for every set of helper paths and any       *)
(* number of sessions.  The inductive invariant has four parts: the types, *)
(* what the host owns at each pc value (Holdings), when there is a helper  *)
(* to reap (Custody), and where each request is (Ledger).  A fifth,        *)
(* Undisturbed, follows a session in which nothing goes wrong.             *)
(***************************************************************************)
EXTENDS HelperSession, SequenceTheorems, TLAPS

AfterExchange == {"inspect", "reap", "pause", "kill", "killwait"}  \* the exchange is over
Serving == {"header", "payload"}                            \* the helper owes data

\* TypeOK with unbounded counters; the Ledger bounds them.
Types ==
  /\ path \in Paths /\ session \in 0..MaxSessions
  /\ host \in HostStates /\ mode \in Modes
  /\ sent \in Nat /\ served \in Nat /\ beat \in Nat
  /\ ok \in BOOLEAN /\ hello \in BOOLEAN /\ sharedOk \in BOOLEAN
  /\ held \in SUBSET Resources
  /\ clock \in {"unset", "running", "expired"}
  /\ verdict \in {"none", "PASS", "FAIL", "SKIP"}
  /\ child \in Alive \cup {"none", "zombie"}
  /\ req \in Ids \cup {WrongId}
  /\ status \in {"none", "clean", "other", "lost"}
  /\ toHelper \in Seq(Ids) /\ toHost \in Seq(Replies)
  /\ fault \in BOOLEAN

\* What the host owns at each place of helper_roundtrip.
Holdings ==
  /\ host \in Ended \cup Gone \cup {"socketpair"} => held = {}
  /\ host = "mkstemp" => held = {"sock0", "sock1"}
  /\ host \in {"ftruncate", "mmap"} => held = {"sock0", "sock1", "shmfd"}
  /\ host = "spawn" => held = Resources
  /\ host \in Exchange \cup {"inspect"} => held = {"sock0", "shmfd", "map"}
  /\ host \in AfterExchange \ {"inspect"} => held = {}

\* When there is a child to reap, that only somebody else's wait takes it away
\* before, and that the kill of one that is there waits for the deadline.
Custody ==
  /\ host \in Ended \cup Setup => child = "none"
  /\ host \in Setup => status = "none"
  /\ child = "zombie" => status \in {"clean", "other"}
  /\ host \in Exchange \cup AfterExchange => child # "none" \/ status = "lost"
  /\ host = "kill" => child = "none" \/ clock = "expired"

\* Where each request is: before a write everything sent is answered; while an
\* answer is awaited, the one request is in exactly one place.
Ledger ==
  /\ host \in Setup \cup {"idle"} =>
       /\ sent = 0 /\ served = 0 /\ toHelper = <<>> /\ toHost = <<>>
       /\ ok /\ ~sharedOk
  /\ host \in Exchange => sent \in 1..quota /\ ok /\ ~sharedOk
  /\ sent <= quota /\ beat <= served
  /\ served + Len(toHelper) <= sent
  /\ host \in {"pollout", "write"} =>
       /\ served = sent - 1 /\ toHelper = <<>> /\ toHost = <<>>
       /\ child \notin Serving
  /\ host = "readheader" =>
       /\ served + Len(toHelper) = sent /\ Len(toHelper) <= 1
       /\ toHelper # <<>> => toHost = <<>> /\ child \notin Serving
       /\ child = "header" => toHost = <<>>
       /\ child = "payload" => Len(toHost) = 1 /\ toHost[1].size = "hello"
       /\ toHost # <<>> /\ toHost[1].size = "none" => Len(toHost) = 1
       /\ Len(toHost) <= 2
  /\ host = "readpayload" =>
       /\ served = sent /\ toHelper = <<>> /\ Len(toHost) <= 1
       /\ child # "header"
       /\ child = "payload" => toHost = <<>>
  /\ host \in AfterExchange /\ ok => sent = quota /\ served = quota
  /\ sharedOk => beat = quota
  /\ verdict = "PASS" => /\ host = "done" /\ served = quota /\ status = "clean"
                         /\ mode # "spawn" => beat = quota

\* The inductive invariant.
IInv == Types /\ Holdings /\ Custody /\ Ledger

\* Every mode of helper_roundtrip sends between two and five requests.
LEMMA RequestsType ==
  ASSUME NEW m \in Modes
  PROVE  /\ Len(Requests(m)) \in 2..5
         /\ \A k \in 1..Len(Requests(m)) : Requests(m)[k] \in Ids
  BY DEF Modes, Requests, Ids

\* So does the mode of the session in progress.
LEMMA QuotaType ==
  ASSUME mode \in Modes
  PROVE  /\ quota \in 2..5
         /\ \A k \in 1..quota : Requests(mode)[k] \in Ids
  BY RequestsType DEF quota

\* A message put into an empty direction of the socket is its only one.
LEMMA AppendToEmpty ==
  ASSUME NEW S, NEW e \in S
  PROVE  LET q == Append(<<>>, e) IN q # <<>> /\ Len(q) = 1 /\ q[1] = e
  BY AppendProperties, EmptySeq

\* A payload put behind a header leaves the header in front.
LEMMA AppendToOne ==
  ASSUME NEW S, NEW q \in Seq(S), Len(q) = 1, NEW e \in S
  PROVE  Len(Append(q, e)) = 2 /\ Append(q, e)[1] = q[1]
<1>1. Len(Append(q, e)) = Len(q) + 1
  OBVIOUS
<1>2. \A i \in 1 .. Len(q) : Append(q, e)[i] = q[i]
  OBVIOUS
<1> QED
  BY <1>1, <1>2

\* Reading the only message of a direction empties it.
LEMMA TailOfOne ==
  ASSUME NEW S, NEW q \in Seq(S), Len(q) = 1
  PROVE  Tail(q) = <<>>
<1>1. q # <<>>
  BY EmptySeq
<1>2. Tail(q) \in Seq(S) /\ Len(Tail(q)) = 0
  BY <1>1, HeadTailProperties
<1> QED
  BY <1>2, EmptySeq

\* What the helper writes as a header is a reply.
LEMMA HeaderType ==
  ASSUME NEW id \in Ids \cup {WrongId}, NEW size \in Sizes, NEW valid \in BOOLEAN
  PROVE  Header(id, size, valid) \in Replies
  BY DEF Header, Replies

\* So is what it writes as a payload.
LEMMA PayloadType ==
  ASSUME NEW valid \in BOOLEAN
  PROVE  Payload(valid) \in Replies
  BY DEF Payload, Replies, Sizes

\* The invariant holds before the first session.
LEMMA InitIInv == Init => IInv
<1> SUFFICES ASSUME Init PROVE IInv
  OBVIOUS
<1> USE DEF Init, HostStates, Ended, Setup, Exchange, AfterExchange, Gone
<1>1. mode \in Modes /\ quota \in 2..5
  BY QuotaType DEF Modes
<1>2. Types
  <2>1. toHelper \in Seq(Ids) /\ toHost \in Seq(Replies)
    OBVIOUS
  <2>2. session \in 0..MaxSessions
    BY MaxSessionsAssumption
  <2> QED
    BY <1>1, <2>1, <2>2 DEF Types, Ids, WrongId
<1>3. Holdings /\ Custody
  BY DEF Holdings, Custody
<1>4. Ledger
  BY <1>1 DEF Ledger
<1> QED
  BY <1>2, <1>3, <1>4 DEF IInv

\* Every step of the three actors keeps what the host owns in line with its place
\* in helper_roundtrip: each early return gives up all that was gained before it.
LEMMA HoldingsStep ==
  ASSUME IInv, [Next]_vars
  PROVE  Holdings'
<1> USE DEF IInv, Holdings, vars, callVars, localVars, helperVars, netVars, Setup, Exchange,
            Ended, Gone, Alive, AfterExchange, HostStates, Resources
<1>1. ASSUME NEW m \in Modes, Begin(m)
      PROVE  Holdings'
  BY <1>1 DEF Begin
<1>2. ASSUME NEW s \in Setup \ {"spawn"}, Acquire(s)
      PROVE  Holdings'
  BY <1>2 DEF Acquire, Gains, After
<1>3. ASSUME NEW s \in Setup, SetupFails(s)
      PROVE  Holdings'
  BY <1>3 DEF SetupFails, ClosedOnFailure
<1>4. ASSUME NEW z \in Sizes, ForeignReplies(z)
      PROVE  Holdings'
  BY <1>4 DEF ForeignReplies
<1>5. ASSUME NEW s \in {"clean", "other"}, ForeignExits(s)
      PROVE  Holdings'
  BY <1>5 DEF ForeignExits, Leave
<1>6. CASE PollOut
  BY <1>6 DEF PollOut
<1>7. CASE Write
  BY <1>7 DEF Write
<1>8. CASE ReadHeader
  BY <1>8 DEF ReadHeader, Break, Advance
<1>9. CASE ReadPayload
  BY <1>9 DEF ReadPayload, Advance
<1>10. CASE ExchangeTimesOut
  BY <1>10 DEF ExchangeTimesOut, Break, Polling
<1>11. CASE PeerGone
  BY <1>11 DEF PeerGone, Break, Polling
<1>12. CASE PollInterrupted
  BY <1>12 DEF PollInterrupted, Break, Polling
<1>13. CASE Inspect
  BY <1>13 DEF Inspect
<1>14. CASE Reap
  BY <1>14 DEF Reap
<1>15. CASE NotYet
  BY <1>15 DEF NotYet
<1>16. CASE Resume
  BY <1>16 DEF Resume
<1>17. CASE Kill
  BY <1>17 DEF Kill
<1>18. CASE ReapKilled
  BY <1>18 DEF ReapKilled
<1>19. CASE HelperStart
  BY <1>19 DEF HelperStart
<1>20. CASE HelperMapFails
  BY <1>20 DEF HelperMapFails, Leave
<1>21. CASE HelperHandles
  BY <1>21 DEF HelperHandles
<1>22. CASE HelperEof
  BY <1>22 DEF HelperEof, Leave
<1>23. CASE HelperRepliesHeader
  BY <1>23 DEF HelperRepliesHeader, AfterHeader
<1>24. CASE HelperRepliesPayload
  BY <1>24 DEF HelperRepliesPayload
<1>25. CASE HelperReplyFails
  BY <1>25 DEF HelperReplyFails, Leave
<1>26. CASE HelperExits
  BY <1>26 DEF HelperExits, Leave
<1>27. CASE DeadlinePasses
  BY <1>27 DEF DeadlinePasses
<1>28. CASE HelperCrashes
  BY <1>28 DEF HelperCrashes, Leave
<1>29. CASE SigkillDelivered
  BY <1>29 DEF SigkillDelivered, Leave
<1>30. CASE HostKilled
  BY <1>30 DEF HostKilled
<1>31. CASE Spawn
  BY <1>31 DEF Spawn
<1>32. CASE UNCHANGED vars
  BY <1>32
<1>33. CASE WaitFails
  BY <1>33 DEF WaitFails
<1>34. CASE HelperTaken
  BY <1>34 DEF HelperTaken
<1> QED
  BY <1>1, <1>2, <1>3, <1>4, <1>5, <1>6, <1>7, <1>8, <1>9, <1>10, <1>11, <1>12, <1>13,
     <1>14, <1>15, <1>16, <1>17, <1>18, <1>19, <1>20, <1>21, <1>22, <1>23, <1>24, <1>25, <1>26,
     <1>27, <1>28, <1>29, <1>30, <1>31, <1>32, <1>33, <1>34
     DEF Next, HostStep, HelperStep, KernelStep

\* Every step keeps the child in the host's custody from the spawn to the waitpid.
LEMMA CustodyStep ==
  ASSUME IInv, [Next]_vars
  PROVE  Custody'
<1> USE DEF IInv, Custody, vars, callVars, localVars, helperVars, netVars, Setup, Exchange,
            Ended, Gone, Alive, AfterExchange, HostStates, childAlive
<1>1. ASSUME NEW m \in Modes, Begin(m)
      PROVE  Custody'
  BY <1>1 DEF Begin
<1>2. ASSUME NEW s \in Setup \ {"spawn"}, Acquire(s)
      PROVE  Custody'
  BY <1>2 DEF Acquire, Gains, After
<1>3. ASSUME NEW s \in Setup, SetupFails(s)
      PROVE  Custody'
  BY <1>3 DEF SetupFails, ClosedOnFailure
<1>4. ASSUME NEW z \in Sizes, ForeignReplies(z)
      PROVE  Custody'
  BY <1>4 DEF ForeignReplies
<1>5. ASSUME NEW s \in {"clean", "other"}, ForeignExits(s)
      PROVE  Custody'
  BY <1>5 DEF ForeignExits, Leave
<1>6. CASE PollOut
  BY <1>6 DEF PollOut
<1>7. CASE Write
  BY <1>7 DEF Write
<1>8. CASE ReadHeader
  BY <1>8 DEF ReadHeader, Break, Advance
<1>9. CASE ReadPayload
  BY <1>9 DEF ReadPayload, Advance
<1>10. CASE ExchangeTimesOut
  BY <1>10 DEF ExchangeTimesOut, Break, Polling
<1>11. CASE PeerGone
  BY <1>11 DEF PeerGone, Break, Polling
<1>12. CASE PollInterrupted
  BY <1>12 DEF PollInterrupted, Break, Polling
<1>13. CASE Inspect
  BY <1>13 DEF Inspect
<1>14. CASE Reap
  BY <1>14 DEF Reap
<1>15. CASE NotYet
  BY <1>15 DEF NotYet
<1>16. CASE Resume
  BY <1>16 DEF Resume
<1>17. CASE Kill
  BY <1>17 DEF Kill
<1>18. CASE ReapKilled
  BY <1>18 DEF ReapKilled
<1>19. CASE HelperStart
  BY <1>19 DEF HelperStart
<1>20. CASE HelperMapFails
  BY <1>20 DEF HelperMapFails, Leave
<1>21. CASE HelperHandles
  BY <1>21 DEF HelperHandles
<1>22. CASE HelperEof
  BY <1>22 DEF HelperEof, Leave
<1>23. CASE HelperRepliesHeader
  BY <1>23 DEF HelperRepliesHeader, AfterHeader
<1>24. CASE HelperRepliesPayload
  BY <1>24 DEF HelperRepliesPayload
<1>25. CASE HelperReplyFails
  BY <1>25 DEF HelperReplyFails, Leave
<1>26. CASE HelperExits
  BY <1>26 DEF HelperExits, Leave
<1>27. CASE DeadlinePasses
  BY <1>27 DEF DeadlinePasses
<1>28. CASE HelperCrashes
  BY <1>28 DEF HelperCrashes, Leave
<1>29. CASE SigkillDelivered
  BY <1>29 DEF SigkillDelivered, Leave
<1>30. CASE HostKilled
  BY <1>30 DEF HostKilled
<1>31. CASE Spawn
  BY <1>31 DEF Spawn
<1>32. CASE UNCHANGED vars
  BY <1>32
<1>33. CASE WaitFails
  BY <1>33 DEF WaitFails
<1>34. CASE HelperTaken
  BY <1>34 DEF HelperTaken
<1> QED
  BY <1>1, <1>2, <1>3, <1>4, <1>5, <1>6, <1>7, <1>8, <1>9, <1>10, <1>11, <1>12, <1>13,
     <1>14, <1>15, <1>16, <1>17, <1>18, <1>19, <1>20, <1>21, <1>22, <1>23, <1>24, <1>25, <1>26,
     <1>27, <1>28, <1>29, <1>30, <1>31, <1>32, <1>33, <1>34
     DEF Next, HostStep, HelperStep, KernelStep

\* Every step keeps the types.
LEMMA TypesStep ==
  ASSUME Types, Ledger, [Next]_vars
  PROVE  Types'
<1> USE DEF Types, vars, callVars, localVars, helperVars, netVars
<1>1. ASSUME NEW m \in Modes, Begin(m)
      PROVE  Types'
  <2>1. session' \in 0..MaxSessions
    BY <1>1, MaxSessionsAssumption DEF Begin
  <2>2. toHelper' \in Seq(Ids) /\ toHost' \in Seq(Replies)
    BY <1>1 DEF Begin
  <2> QED
    BY <1>1, <2>1, <2>2 DEF Begin, HostStates, Setup, Exchange, Ended, Gone, Modes, Ids,
       WrongId
<1>2. ASSUME NEW s \in Setup \ {"spawn"}, Acquire(s)
      PROVE  Types'
  BY <1>2 DEF Acquire, Gains, After, HostStates, Setup, Exchange, Ended, Gone, Resources
<1>3. ASSUME NEW s \in Setup, SetupFails(s)
      PROVE  Types'
  BY <1>3 DEF SetupFails, ClosedOnFailure, HostStates, Setup, Exchange, Ended, Gone,
     Resources
<1>4. ASSUME NEW z \in Sizes, ForeignReplies(z)
      PROVE  Types'
  <2>1. PICK id \in {Head(toHelper), WrongId}, valid \in BOOLEAN :
          toHost' = Append(toHost, Header(id, z, valid))
    BY <1>4 DEF ForeignReplies
  <2>2. Head(toHelper) \in Ids
    BY <1>4 DEF ForeignReplies
  <2>3. Header(id, z, valid) \in Replies
    BY <2>1, <2>2, HeaderType
  <2>4. toHost' \in Seq(Replies)
    BY <2>1, <2>3
  <2> QED
    BY <1>4, <2>4 DEF ForeignReplies, Alive
<1>5. ASSUME NEW s \in {"clean", "other"}, ForeignExits(s)
      PROVE  Types'
  BY <1>5 DEF ForeignExits, Leave
<1>6. CASE PollOut
  BY <1>6 DEF PollOut, HostStates, Setup, Exchange, Ended, Gone
<1>7. CASE Write
  <2>1. mode \in Modes /\ sent \in 1..quota
    BY <1>7 DEF Write, Ledger
  <2>2. request \in Ids
    BY <2>1, QuotaType DEF request
  <2>3. toHelper \in Seq(Ids)
    OBVIOUS
  <2>4. toHelper' \in {toHelper, Append(toHelper, request)}
    BY <1>7 DEF Write
  <2>5. toHelper' \in Seq(Ids)
    BY ONLY <2>2, <2>3, <2>4
  <2> QED
    BY <1>7, <2>5 DEF Write, HostStates, Setup, Exchange, Ended, Gone
<1>8. CASE ReadHeader
  <2>1. toHost \in Seq(Replies) /\ toHost # <<>> /\ toHost' = Tail(toHost)
    BY <1>8 DEF ReadHeader
  <2>2. toHost' \in Seq(Replies)
    BY ONLY <2>1
  <2>3. \/ ok' = FALSE /\ sent' = sent
        \/ ok' = ok /\ sent' \in {sent, sent + 1}
    BY <1>8 DEF ReadHeader, Break, Advance
  <2>4. host' \in {"inspect", "pollout", "readpayload"}
    BY <1>8 DEF ReadHeader, Break, Advance
  <2>5. sent' \in Nat
    BY <2>3
  <2>8. ok' \in BOOLEAN
    BY <2>3
  <2>6. UNCHANGED <<path, session, mode, hello, sharedOk, held, verdict,
                    child, req, beat, served, clock, status, toHelper, fault>>
    BY <1>8 DEF ReadHeader
  <2>7. host' \in HostStates
    BY <2>4 DEF HostStates, Exchange
  <2> QED
    BY ONLY Types, <2>2, <2>5, <2>6, <2>7, <2>8 DEF Types
<1>9. CASE ReadPayload
  <2>1. Head(toHost) \in Replies /\ toHost # <<>>
    BY <1>9 DEF ReadPayload
  <2>2. hello' \in BOOLEAN
    BY <1>9, <2>1 DEF ReadPayload, Replies
  <2>3. toHost' \in Seq(Replies)
    BY <1>9, <2>1 DEF ReadPayload
  <2> QED
    BY <1>9, <2>2, <2>3 DEF ReadPayload, Advance, HostStates, Setup, Exchange, Ended,
                            Gone
<1>10. CASE ExchangeTimesOut
  <2>1. ok' = FALSE /\ host' = "inspect" /\ fault' \in BOOLEAN
    BY <1>10 DEF ExchangeTimesOut, Break
  <2>2. UNCHANGED <<callVars, sent, hello, sharedOk, verdict, held, clock, helperVars,
                    netVars>>
    BY <1>10 DEF ExchangeTimesOut, Break
  <2>3. host' \in HostStates
    BY <2>1 DEF HostStates
  <2> QED
    BY <2>1, <2>2, <2>3, Zenon
<1>11. CASE PeerGone
  <2>1. ok' = FALSE /\ host' = "inspect" /\ fault' \in BOOLEAN
    BY <1>11 DEF PeerGone, Break
  <2>2. UNCHANGED <<callVars, sent, hello, sharedOk, verdict, held, clock, helperVars,
                    netVars>>
    BY <1>11 DEF PeerGone, Break
  <2>3. host' \in HostStates
    BY <2>1 DEF HostStates
  <2> QED
    BY <2>1, <2>2, <2>3, Zenon
<1>12. CASE PollInterrupted
  <2>1. ok' = FALSE /\ host' = "inspect" /\ fault' = TRUE
    BY <1>12 DEF PollInterrupted, Break
  <2>2. UNCHANGED <<callVars, sent, hello, sharedOk, verdict, held, clock, helperVars,
                    netVars>>
    BY <1>12 DEF PollInterrupted, Break
  <2>3. host' \in HostStates
    BY <2>1 DEF HostStates
  <2> QED
    BY <2>1, <2>2, <2>3
<1>13. CASE Inspect
  BY <1>13 DEF Inspect, Marked, HostStates, Setup, Exchange, Ended, Gone
<1>14. CASE Reap
  BY <1>14 DEF Reap, Judge, ExitedOk, HostStates, Setup, Exchange, Ended, Gone
<1>15. CASE NotYet
  BY <1>15 DEF NotYet, HostStates, Setup, Exchange, Ended, Gone
<1>16. CASE Resume
  BY <1>16 DEF Resume, HostStates, Setup, Exchange, Ended, Gone
<1>17. CASE Kill
  BY <1>17 DEF Kill, HostStates, Setup, Exchange, Ended, Gone, Alive
<1>18. CASE ReapKilled
  BY <1>18 DEF ReapKilled, Judge, ExitedOk, HostStates, Setup, Exchange, Ended, Gone
<1>19. CASE HelperStart
  BY <1>19 DEF HelperStart, Alive
<1>20. CASE HelperMapFails
  BY <1>20 DEF HelperMapFails, Leave, Alive
<1>21. CASE HelperHandles
  BY <1>21 DEF HelperHandles, Alive
<1>22. CASE HelperEof
  BY <1>22 DEF HelperEof, Leave
<1>23. CASE HelperRepliesHeader
  <2>1. Header(req, IF req = 1 THEN "hello" ELSE "none", TRUE) \in Replies
    BY HeaderType DEF Sizes
  <2>2. PICK h \in Replies : toHost' = Append(toHost, h)
    BY <1>23, <2>1 DEF HelperRepliesHeader
  <2>3. toHost' \in Seq(Replies)
    BY <2>2
  <2>4. child' \in Alive
    BY <1>23 DEF HelperRepliesHeader, AfterHeader, Alive
  <2>5. UNCHANGED <<callVars, host, sent, localVars, held, clock, req, beat, served,
                    status, toHelper, fault>>
    BY <1>23 DEF HelperRepliesHeader
  <2> QED
    BY <2>3, <2>4, <2>5
<1>24. CASE HelperRepliesPayload
  <2>1. PICK valid \in BOOLEAN : toHost' = Append(toHost, Payload(valid))
    BY <1>24 DEF HelperRepliesPayload
  <2>2. toHost' \in Seq(Replies)
    BY <2>1, PayloadType
  <2> QED
    BY <1>24, <2>2 DEF HelperRepliesPayload, Alive
<1>25. CASE HelperReplyFails
  BY <1>25 DEF HelperReplyFails, Leave
<1>26. CASE HelperExits
  BY <1>26 DEF HelperExits, Leave, Alive
<1>27. CASE DeadlinePasses
  BY <1>27 DEF DeadlinePasses
<1>28. CASE HelperCrashes
  BY <1>28 DEF HelperCrashes, Leave
<1>29. CASE SigkillDelivered
  BY <1>29 DEF SigkillDelivered, Leave
<1>30. CASE HostKilled
  BY <1>30 DEF HostKilled, HostStates, Setup, Exchange, Ended, Gone
<1>31. CASE Spawn
  BY <1>31 DEF Spawn, HostStates, Setup, Exchange, Ended, Gone, Alive
<1>32. CASE UNCHANGED vars
  BY <1>32, QuotaType
<1>33. CASE WaitFails
  BY <1>33 DEF WaitFails, HostStates
<1>34. CASE HelperTaken
  BY <1>34 DEF HelperTaken
<1> QED
  BY <1>1, <1>2, <1>3, <1>4, <1>5, <1>6, <1>7, <1>8, <1>9, <1>10, <1>11, <1>12, <1>13,
     <1>14, <1>15, <1>16, <1>17, <1>18, <1>19, <1>20, <1>21, <1>22, <1>23, <1>24, <1>25, <1>26,
     <1>27, <1>28, <1>29, <1>30, <1>31, <1>32, <1>33, <1>34
     DEF Next, HostStep, HelperStep, KernelStep

\* Every step keeps the requests accounted for: unsent, in the socket, in the
\* helper's hands, or answered.
LEMMA LedgerStep ==
  ASSUME IInv, [Next]_vars
  PROVE  Ledger'
<1>q. mode' = mode => quota' = quota
  BY DEF quota
<1>r. quota \in 2..5
  BY QuotaType DEF IInv, Types
<1> USE DEF IInv, Types, Custody, Ledger, vars, callVars, localVars, helperVars, netVars,
            Setup, Exchange, Ended, Gone, Alive, AfterExchange, Serving
<1>1. ASSUME NEW m \in Modes, Begin(m)
      PROVE  Ledger'
  <2>1. quota' \in 2..5
    BY <1>1, RequestsType DEF Begin, quota
  <2>2. host' \in {"done", "socketpair"} /\ verdict' # "PASS"
    BY <1>1 DEF Begin
  <2>3. /\ sent' = 0 /\ served' = 0 /\ beat' = 0 /\ ok' /\ ~sharedOk'
        /\ toHelper' = <<>> /\ toHost' = <<>>
    BY <1>1 DEF Begin
  <2> QED
    BY <2>1, <2>2, <2>3
<1>2. ASSUME NEW s \in Setup \ {"spawn"}, Acquire(s)
      PROVE  Ledger'
  BY <1>2, <1>q, <1>r DEF Acquire, Gains, After
<1>3. ASSUME NEW s \in Setup, SetupFails(s)
      PROVE  Ledger'
  BY <1>3, <1>q, <1>r DEF SetupFails, ClosedOnFailure
<1>4. ASSUME NEW z \in Sizes, ForeignReplies(z)
      PROVE  Ledger'
  <2>1. PICK id \in {Head(toHelper), WrongId}, valid \in BOOLEAN :
          toHost' = Append(toHost, Header(id, z, valid))
    BY <1>4 DEF ForeignReplies
  <2>2. /\ toHelper # <<>> /\ toHelper' = Tail(toHelper)
        /\ child' = IF z = "hello" THEN "payload" ELSE "read"
        /\ served' = served + 1 /\ child \in {"start", "read"}
        /\ UNCHANGED <<host, mode, sent, ok, sharedOk, status, beat, verdict>>
    BY <1>4 DEF ForeignReplies
  <2>3. Len(toHelper') = Len(toHelper) - 1 /\ Len(toHelper) >= 1 /\ served < sent
    BY <2>2
  <2>4. host \notin {"idle", "done", "pollout", "write", "readpayload"} \cup Setup
    BY <2>2, <2>3
  <2>5. host \in AfterExchange => ~ok
    BY <2>3
  <2>6. ASSUME host = "readheader"
        PROVE  Len(toHost') = 1 /\ toHost'[1].size = z
    <3>1. Header(id, z, valid) \in Replies
      <4>1. Head(toHelper) \in Ids
        BY <2>2, HeadTailProperties
      <4> QED
        BY <2>1, <4>1, HeaderType
    <3>2. toHost' = Append(<<>>, Header(id, z, valid))
      BY <2>1, <2>2, <2>6
    <3>3. Header(id, z, valid).size = z
      BY DEF Header
    <3> QED
      BY ONLY <3>1, <3>2, <3>3, AppendToEmpty
  <2>7. ASSUME host = "readheader"
        PROVE  toHelper' = <<>>
    <3>1. Len(toHelper) = 1
      BY <2>3, <2>7
    <3> QED
      BY <3>1, <2>2, TailOfOne
  <2>8. /\ host' = host /\ quota' = quota /\ child' \in {"payload", "read"}
        /\ served \in Nat /\ sent \in Nat /\ Len(toHelper) \in Nat
    BY <2>2, <1>q, LenProperties
  <2>9. served' + Len(toHelper') <= sent' /\ sent' <= quota' /\ beat' <= served'
    <3>1. served + Len(toHelper) <= sent /\ sent <= quota /\ beat <= served
      OBVIOUS
    <3>2. beat \in Nat /\ UNCHANGED <<sent, beat>> /\ served' = served + 1
      BY <2>2
    <3> QED
      BY ONLY <3>1, <3>2, <2>3, <2>8
  <2>10. CASE host = "readheader"
    <3>1. served + Len(toHelper) = sent /\ Len(toHelper) <= 1
      BY <2>10
    <3>2. served' + Len(toHelper') = sent' /\ Len(toHelper') <= 1
      <4>1. served' = served + 1 /\ sent' = sent
        BY <2>2
      <4> QED
        BY ONLY <3>1, <4>1, <2>3, <2>8
    <3>3. child' = "payload" => toHost'[1].size = "hello"
      BY ONLY <2>2, <2>6, <2>10
    <3>4. host \notin Setup \cup Ended \cup AfterExchange \cup {"pollout", "write", "readpayload"}
      BY <2>10
    <3>5. host \in Exchange => sent' \in 1..quota' /\ ok' /\ ~sharedOk'
      BY <2>2, <2>8
    <3>6. host = "readheader" /\ ~sharedOk' /\ verdict' # "PASS"
      BY <2>2, <2>10
    <3> QED
      <4>1. /\ host' \in Setup \cup {"idle"} => FALSE
            /\ host' \in {"pollout", "write"} => FALSE
            /\ host' = "readpayload" => FALSE
            /\ host' \in AfterExchange => FALSE
            /\ verdict' = "PASS" => FALSE
            /\ sharedOk' => FALSE
        BY ONLY <2>8, <3>4, <3>6 DEF Ended
      <4>2. host' \in Exchange => sent' \in 1..quota' /\ ok' /\ ~sharedOk'
        BY ONLY <2>8, <3>5
      <4>3. /\ toHelper' # <<>> => toHost' = <<>> /\ child' \notin Serving
            /\ child' = "header" => toHost' = <<>>
        BY ONLY <2>7, <2>8, <2>10
      <4>4. child' = "payload" => Len(toHost') = 1 /\ toHost'[1].size = "hello"
        BY ONLY <2>6, <2>10, <3>3
      <4>5. /\ toHost' # <<>> /\ toHost'[1].size = "none" => Len(toHost') = 1
            /\ Len(toHost') <= 2
        <5>1. Len(toHost') = 1
          BY ONLY <2>6, <2>10
        <5> QED
          BY ONLY <5>1
      <4> QED
        BY ONLY <2>9, <3>2, <4>1, <4>2, <4>3, <4>4, <4>5 DEF Ledger
  <2>11. CASE host # "readheader"
    <3>1. sharedOk' => beat' = quota'
      BY <2>2, <2>8
    <3>2. host' \notin Setup \cup Ended \cup Exchange
      BY <2>4, <2>8, <2>11
    <3>3. verdict' # "PASS"
      BY <2>2, <2>4
    <3>4. host' \in AfterExchange => ~ok'
      BY <2>2, <2>5, <2>8
    <3> QED
      BY <2>9, <3>1, <3>2, <3>3, <3>4 DEF Ledger
  <2> QED
    BY <2>10, <2>11
<1>5. ASSUME NEW s \in {"clean", "other"}, ForeignExits(s)
      PROVE  Ledger'
  BY <1>5, <1>q, <1>r DEF ForeignExits, Leave, childAlive
<1>6. CASE PollOut
  BY <1>6, <1>q, <1>r DEF PollOut
<1>7. CASE Write
  <2>1. CASE childEndOpen
    <3>1. /\ toHelper' = Append(toHelper, request) /\ host' = "readheader"
          /\ UNCHANGED <<mode, sent, served, ok, sharedOk, beat, child, status,
                         toHost, verdict>>
      BY <1>7, <2>1 DEF Write
    <3>2. toHelper = <<>> /\ toHost = <<>> /\ served = sent - 1
          /\ child \notin {"header", "payload"}
      BY <1>7 DEF Write
    <3>3. Len(toHelper') = 1 /\ toHelper' # <<>>
      BY <3>1, <3>2
    <3> QED
      BY <1>7, <3>1, <3>2, <3>3, <1>q, <1>r DEF Write
  <2>2. CASE ~childEndOpen
    BY <1>7, <2>2, <1>q, <1>r DEF Write
  <2> QED
    BY <2>1, <2>2
<1>8. CASE ReadHeader
  <2> DEFINE h == Head(toHost)
  <2>1. /\ toHost # <<>> /\ h = toHost[1] /\ toHost' = Tail(toHost)
        /\ host = "readheader" /\ mode' = mode
        /\ UNCHANGED <<sharedOk, served, beat, child, status, toHelper, verdict>>
    BY <1>8 DEF ReadHeader
  <2>2. toHelper = <<>> /\ served = sent /\ child # "header"
    BY <2>1
  <2>3. CASE ~AcceptsHeader(h)
    <3>1. ok' = FALSE /\ host' = "inspect" /\ sent' = sent
      BY <1>8, <2>3 DEF ReadHeader, Break
    <3> QED
      BY <2>1, <2>2, <3>1, <1>q, <1>r
  <2>4. CASE AcceptsHeader(h) /\ AnnouncesPayload(h)
    <3>1. host' = "readpayload" /\ sent' = sent /\ ok' = ok
      BY <1>8, <2>4 DEF ReadHeader
    <3>2. Len(toHost') = Len(toHost) - 1
      BY <2>1
    <3>3. child = "payload" => toHost' = <<>>
      BY <2>1
    <3> QED
      BY <2>1, <2>2, <3>1, <3>2, <3>3, <1>q, <1>r
  <2>5. CASE AcceptsHeader(h) /\ ~AnnouncesPayload(h)
    <3>1. Advance /\ ok' = ok
      BY <1>8, <2>5 DEF ReadHeader
    <3>2. h.size = "none"
      BY <2>5 DEF AnnouncesPayload
    <3>3. Len(toHost) = 1 /\ child # "payload"
      BY <2>1, <3>2
    <3>4. toHost' = <<>>
      BY <2>1, <3>3
    <3> QED
      BY <2>1, <2>2, <3>1, <3>3, <3>4, <1>q, <1>r DEF Advance
  <2> QED
    BY <2>3, <2>4, <2>5
<1>9. CASE ReadPayload
  BY <1>9, <1>q, <1>r DEF ReadPayload, Advance
<1>10. CASE ExchangeTimesOut
  BY <1>10, <1>q, <1>r DEF ExchangeTimesOut, Break, Polling
<1>11. CASE PeerGone
  BY <1>11, <1>q, <1>r DEF PeerGone, Break, Polling
<1>12. CASE PollInterrupted
  BY <1>12, <1>q, <1>r DEF PollInterrupted, Break, Polling
<1>13. CASE Inspect
  BY <1>13, <1>q, <1>r DEF Inspect, Marked
<1>14. CASE Reap
  BY <1>14, <1>q, <1>r DEF Reap, Judge, ExitedOk
<1>15. CASE NotYet
  BY <1>15, <1>q, <1>r DEF NotYet
<1>16. CASE Resume
  BY <1>16, <1>q, <1>r DEF Resume
<1>17. CASE Kill
  BY <1>17, <1>q, <1>r DEF Kill, childAlive
<1>18. CASE ReapKilled
  BY <1>18, <1>q, <1>r DEF ReapKilled, Judge, ExitedOk
<1>19. CASE HelperStart
  BY <1>19, <1>q, <1>r DEF HelperStart
<1>20. CASE HelperMapFails
  BY <1>20, <1>q, <1>r DEF HelperMapFails, Leave
<1>21. CASE HelperHandles
  <2>1. /\ toHelper # <<>> /\ toHelper' = Tail(toHelper) /\ child' = "header"
        /\ served' = served + 1 /\ beat' = beat + 1 /\ child = "read"
        /\ UNCHANGED <<host, mode, sent, ok, sharedOk, status, toHost, verdict>>
    BY <1>21 DEF HelperHandles
  <2>2. Len(toHelper') = Len(toHelper) - 1 /\ Len(toHelper) >= 1
    BY <2>1
  <2>3. served < sent
    BY <2>2
  <2>4. host \notin {"idle", "done", "pollout", "write", "readpayload"} \cup Setup
    BY <2>1, <2>2
  <2>5. host \in AfterExchange => ~ok
    BY <2>2
  <2>6. sharedOk => beat = quota /\ served = quota /\ served < sent /\ sent <= quota
    BY <2>3, <1>r
  <2>7. host = "readheader" => Len(toHelper) = 1 /\ toHost = <<>>
    BY <2>1, <2>2
  <2>8. host = "readheader" => toHelper' = <<>> /\ Len(toHost) = 0
    BY <2>1, <2>7, TailOfOne
  <2> QED
    BY <2>1, <2>2, <2>3, <2>4, <2>5, <2>6, <2>7, <2>8, <1>q, <1>r
<1>22. CASE HelperEof
  BY <1>22, <1>q, <1>r DEF HelperEof, Leave
<1>23. CASE HelperRepliesHeader
  <2> DEFINE h == Header(req, IF req = 1 THEN "hello" ELSE "none", TRUE)
  <2>1. /\ child = "header" /\ toHost' = Append(toHost, h)
        /\ UNCHANGED <<host, mode, sent, ok, sharedOk, status, toHelper, verdict,
                       served, beat>>
    BY <1>23 DEF HelperRepliesHeader
  <2>2. /\ child' \in {"payload", "exit", "read"}
        /\ child' = "payload" <=> h.size = "hello"
    BY <1>23 DEF HelperRepliesHeader, AfterHeader, Header
  <2>3. host \notin {"pollout", "write", "readpayload", "idle", "done"} \cup Setup
    BY <2>1
  <2>4. ASSUME host = "readheader"
        PROVE  toHost' # <<>> /\ Len(toHost') = 1 /\ toHost'[1] = h
    <3>1. h \in Replies
      BY HeaderType DEF Sizes
    <3>2. toHost' = Append(<<>>, h)
      BY <2>1, <2>4
    <3> HIDE DEF h
    <3> QED
      BY ONLY <3>1, <3>2, AppendToEmpty
  <2>5. host = "readheader" => toHelper = <<>>
    BY <2>1
  <2> HIDE DEF h
  <2> QED
    BY <2>1, <2>2, <2>3, <2>4, <2>5, <1>q, <1>r
<1>24. CASE HelperRepliesPayload
  <2>0. PICK valid \in BOOLEAN : toHost' = Append(toHost, Payload(valid))
    BY <1>24 DEF HelperRepliesPayload
  <2>1. /\ child = "payload" /\ child' = "read"
        /\ UNCHANGED <<host, mode, sent, ok, sharedOk, status, toHelper, verdict,
                       served, beat>>
    BY <1>24 DEF HelperRepliesPayload
  <2>2. host \notin {"pollout", "write", "idle", "done"} \cup Setup
    BY <2>1
  <2>3. host = "readheader" =>
          /\ Len(toHost') = 2 /\ toHost'[1].size = "hello" /\ toHelper = <<>>
    BY <2>0, <2>1, AppendToOne, PayloadType
  <2>4. host = "readpayload" => Len(toHost') = 1
    BY <2>0, <2>1, PayloadType
  <2>5. /\ host = "readheader" => served + Len(toHelper) = sent
        /\ child' \notin Serving /\ Len(toHost') \in Nat
    BY <2>0, <2>1, PayloadType
  <2>6. quota' = quota
    BY <2>1, <1>q
  <2>7. CASE host = "readheader"
    BY <2>0, <2>1, <2>3, <2>5, <2>6, <2>7, <1>r
  <2>8. CASE host = "readpayload"
    BY <2>0, <2>1, <2>4, <2>5, <2>6, <2>8, <1>r
  <2>9. CASE host \notin {"readheader", "readpayload"}
    BY <2>1, <2>2, <2>6, <2>9, <1>r
  <2> QED
    BY <2>7, <2>8, <2>9
<1>25. CASE HelperReplyFails
  BY <1>25, <1>q, <1>r DEF HelperReplyFails, Leave
<1>26. CASE HelperExits
  BY <1>26, <1>q, <1>r DEF HelperExits, Leave
<1>27. CASE DeadlinePasses
  BY <1>27, <1>q, <1>r DEF DeadlinePasses
<1>28. CASE HelperCrashes
  BY <1>28, <1>q, <1>r DEF HelperCrashes, Leave, childAlive
<1>29. CASE SigkillDelivered
  BY <1>29, <1>q, <1>r DEF SigkillDelivered, Leave
<1>30. CASE HostKilled
  BY <1>30, <1>q, <1>r DEF HostKilled
<1>31. CASE Spawn
  BY <1>31, <1>q, <1>r DEF Spawn
<1>32. CASE UNCHANGED vars
  BY <1>32, <1>q, <1>r
<1>33. CASE WaitFails
  BY <1>33, <1>q, <1>r DEF WaitFails
<1>34. CASE HelperTaken
  BY <1>34, <1>q, <1>r DEF HelperTaken
<1> QED
  BY <1>1, <1>2, <1>3, <1>4, <1>5, <1>6, <1>7, <1>8, <1>9, <1>10, <1>11, <1>12, <1>13,
     <1>14, <1>15, <1>16, <1>17, <1>18, <1>19, <1>20, <1>21, <1>22, <1>23, <1>24, <1>25, <1>26,
     <1>27, <1>28, <1>29, <1>30, <1>31, <1>32, <1>33, <1>34
     DEF Next, HostStep, HelperStep, KernelStep

-----------------------------------------------------------------------------
(* The theorems.                                                            *)

\* The inductive invariant holds throughout.
THEOREM Invariance == Spec => []IInv
<1>1. ASSUME IInv, [Next]_vars
      PROVE  IInv'
  <2>1. Types' /\ Holdings' /\ Custody' /\ Ledger'
    BY <1>1, TypesStep, HoldingsStep, CustodyStep, LedgerStep DEF IInv
  <2> QED
    BY <2>1 DEF IInv
<1> QED
  BY InitIInv, <1>1, PTL DEF Spec

\* Every variable of helper_roundtrip and of the helper keeps its type, and no
\* counter passes the number of requests the mode sends.
THEOREM TypeCorrect == Spec => []TypeOK
<1>1. IInv => TypeOK
  <2> SUFFICES ASSUME IInv PROVE TypeOK
    OBVIOUS
  <2>1. quota \in 2..5
    BY QuotaType DEF IInv, Types
  <2>2. sent \in 0..quota /\ served \in 0..quota /\ beat \in 0..quota
    <3>1. Len(toHelper) \in Nat
      BY LenProperties DEF IInv, Types
    <3> QED
      BY <2>1, <3>1 DEF IInv, Types, Ledger
  <2> QED
    BY <2>2 DEF IInv, Types, TypeOK
<1> QED
  BY <1>1, Invariance, PTL

\* A PASS of helper_roundtrip is earned by the helper that was launched.
THEOREM PassEarned == Spec => []PassIsEarned
<1>1. IInv => PassIsEarned
  BY DEF IInv, Ledger, PassIsEarned
<1> QED
  BY <1>1, Invariance, PTL

\* helper_roundtrip never returns with a descriptor, a mapping or a child left.
THEOREM NoLeak == Spec => []NothingLeftBehind
<1>1. IInv => NothingLeftBehind
  BY DEF IInv, Holdings, Custody, NothingLeftBehind
<1> QED
  BY <1>1, Invariance, PTL

\* SIGKILL meets a helper that is there only past the deadline, and misses it only
\* when somebody else has collected it.
THEOREM KillSafe == Spec => []KillHitsOwnChild
<1>1. IInv => KillHitsOwnChild
  BY DEF IInv, Custody, KillHitsOwnChild, AfterExchange
<1> QED
  BY <1>1, Invariance, PTL

\* Requests and replies of a session alternate, whatever executable answers.
THEOREM LockstepHolds == Spec => []Lockstep
<1>1. IInv => Lockstep
  BY DEF IInv, Ledger, Lockstep
<1> QED
  BY <1>1, Invariance, PTL

-----------------------------------------------------------------------------
(* The session implements HelperVerdict, as far as safety goes.             *)

\* A step that HelperVerdict does not see: the probe's phase, its helper's state, the
\* count of served requests and the verdict all stay.
LEMMA Hidden ==
  ASSUME mode' = mode, served' = served, verdict' = verdict, status' = status,
         \/ host' = host
         \/ host \notin Ended \cup Gone /\ host' \notin Ended \cup Gone,
         childAlive' = childAlive, child' = "zombie" <=> child = "zombie"
  PROVE  UNCHANGED Abs!avars
  BY DEF Abs!avars, quota, Ended, Gone

\* Every step of host, helper and kernel is a step of HelperVerdict or hidden by it.
LEMMA AbsStep ==
  ASSUME IInv, [Next]_vars
  PROVE  [Abs!Next]_(Abs!avars)
<1>q. mode' = mode => quota' = quota
  BY DEF quota
<1>r. quota \in 2..5
  BY QuotaType DEF IInv, Types
<1> USE DEF vars, callVars, localVars, helperVars, netVars, Setup, Exchange, Ended, Gone,
            Alive, childAlive, Abs!Next, Abs!Conclude
<1>1. ASSUME NEW m \in Modes, Begin(m)
      PROVE  [Abs!Next]_(Abs!avars)
  <2>1. quota' \in 1..5
    BY <1>1, RequestsType DEF Begin, quota
  <2>2. Abs!Begin(quota')
    BY <1>1 DEF Begin, Abs!Begin, IInv, Custody
  <2> QED
    BY <2>1, <2>2
<1>2. ASSUME NEW s \in Setup \ {"spawn"}, Acquire(s)
      PROVE  [Abs!Next]_(Abs!avars)
  BY <1>2, Hidden DEF Acquire, After
<1>3. ASSUME NEW s \in Setup, SetupFails(s)
      PROVE  [Abs!Next]_(Abs!avars)
  <2>1. Abs!Report("FAIL")
    BY <1>3, <1>q DEF SetupFails, Abs!Report, IInv, Custody
  <2> QED
    BY <2>1
<1>4. ASSUME NEW z \in Sizes, ForeignReplies(z)
      PROVE  [Abs!Next]_(Abs!avars)
  <2>1. toHelper # <<>> /\ served' = served + 1
    BY <1>4 DEF ForeignReplies
  <2>2. served < quota
    BY <2>1, <1>r, LenProperties, EmptySeq DEF IInv, Types, Ledger
  <2>3. Abs!Serve
    BY <1>4, <2>1, <2>2, <1>q DEF ForeignReplies, Abs!Serve
  <2> QED
    BY <2>3
<1>5. ASSUME NEW s \in {"clean", "other"}, ForeignExits(s)
      PROVE  [Abs!Next]_(Abs!avars)
  <2>1. Abs!Leave(s)
    BY <1>5, <1>q DEF ForeignExits, Leave, Abs!Leave
  <2> QED
    BY <2>1
<1>6. CASE PollOut
  BY <1>6, Hidden DEF PollOut
<1>7. CASE Write
  <2>1. CASE childEndOpen
    BY <1>7, <2>1, Hidden DEF Write
  <2>2. CASE ~childEndOpen
    <3>1. Abs!Die
      BY <1>7, <2>2, <1>q DEF Write, Abs!Die
    <3> QED
      BY <3>1
  <2> QED
    BY <2>1, <2>2
<1>8. CASE ReadHeader
  BY <1>8, Hidden DEF ReadHeader, Break, Advance
<1>9. CASE ReadPayload
  BY <1>9, Hidden DEF ReadPayload, Advance
<1>10. CASE ExchangeTimesOut
  BY <1>10, Hidden DEF ExchangeTimesOut, Break, Polling
<1>11. CASE PeerGone
  BY <1>11, Hidden DEF PeerGone, Break, Polling
<1>12. CASE PollInterrupted
  BY <1>12, Hidden DEF PollInterrupted, Break, Polling
<1>13. CASE Inspect
  BY <1>13, Hidden DEF Inspect
<1>14. CASE Reap
  <2>1. Judge(TRUE) = "PASS" => served = quota /\ status = "clean"
    BY <1>14 DEF Reap, Judge, ExitedOk, IInv, Ledger, AfterExchange
  <2>2. Judge(TRUE) \in {"PASS", "FAIL"}
    BY DEF Judge
  <2>3. Abs!Report(Judge(TRUE))
    BY <1>14, <2>1, <1>q DEF Reap, Abs!Report, IInv, Types
  <2> QED
    BY <2>2, <2>3
<1>15. CASE NotYet
  BY <1>15, Hidden DEF NotYet
<1>16. CASE Resume
  BY <1>16, Hidden DEF Resume
<1>17. CASE Kill
  BY <1>17, Hidden DEF Kill
<1>18. CASE ReapKilled
  <2>1. Judge(FALSE) = "FAIL"
    BY DEF Judge, ExitedOk
  <2>2. Abs!Report("FAIL")
    BY <1>18, <2>1, <1>q DEF ReapKilled, Abs!Report, IInv, Types
  <2> QED
    BY <2>2
<1>19. CASE HelperStart
  BY <1>19, Hidden DEF HelperStart
<1>20. CASE HelperMapFails
  <2>1. Abs!Leave("other")
    BY <1>20, <1>q DEF HelperMapFails, Leave, Abs!Leave
  <2> QED
    BY <2>1
<1>21. CASE HelperHandles
  <2>1. toHelper # <<>> /\ served' = served + 1
    BY <1>21 DEF HelperHandles
  <2>2. served < quota
    BY <2>1, <1>r, LenProperties, EmptySeq DEF IInv, Types, Ledger
  <2>3. Abs!Serve
    BY <1>21, <2>1, <2>2, <1>q DEF HelperHandles, Abs!Serve
  <2> QED
    BY <2>3
<1>22. CASE HelperEof
  <2>1. Abs!Leave("other")
    BY <1>22, <1>q DEF HelperEof, Leave, Abs!Leave
  <2> QED
    BY <2>1
<1>23. CASE HelperRepliesHeader
  BY <1>23, Hidden DEF HelperRepliesHeader, AfterHeader
<1>24. CASE HelperRepliesPayload
  BY <1>24, Hidden DEF HelperRepliesPayload
<1>25. CASE HelperReplyFails
  <2>1. Abs!Leave("other")
    BY <1>25, <1>q DEF HelperReplyFails, Leave, Abs!Leave
  <2> QED
    BY <2>1
<1>26. CASE HelperExits
  <2>1. Abs!Leave("clean")
    BY <1>26, <1>q DEF HelperExits, Leave, Abs!Leave
  <2> QED
    BY <2>1
<1>27. CASE DeadlinePasses
  BY <1>27, Hidden DEF DeadlinePasses
<1>28. CASE HelperCrashes
  <2>1. Abs!Leave("other")
    BY <1>28, <1>q DEF HelperCrashes, Leave, Abs!Leave
  <2> QED
    BY <2>1
<1>29. CASE SigkillDelivered
  <2>1. Abs!Leave("other")
    BY <1>29, <1>q DEF SigkillDelivered, Leave, Abs!Leave
  <2> QED
    BY <2>1
<1>30. CASE HostKilled
  <2>1. Abs!Die
    BY <1>30, <1>q DEF HostKilled, Abs!Die
  <2> QED
    BY <2>1
<1>31. CASE Spawn
  <2>1. Abs!Launch
    BY <1>31, <1>q DEF Spawn, Abs!Launch, IInv, Custody, Ledger
  <2> QED
    BY <2>1
<1>32. CASE UNCHANGED vars
  BY <1>32, Hidden DEF vars
<1>33. CASE WaitFails
  BY <1>33, Hidden DEF WaitFails
<1>34. CASE HelperTaken
  <2>1. CASE status = "clean"
    <3>1. Abs!Lose
      BY <1>34, <2>1, <1>q DEF HelperTaken, Abs!Lose
    <3> QED
      BY <3>1
  <2>2. CASE status = "other"
    <3>1. UNCHANGED Abs!avars
      BY <1>34, <2>2, <1>q DEF HelperTaken, Abs!avars
    <3> QED
      BY <3>1
  <2> QED
    BY <1>34, <2>1, <2>2 DEF HelperTaken, IInv, Custody
<1> QED
  BY <1>1, <1>2, <1>3, <1>4, <1>5, <1>6, <1>7, <1>8, <1>9, <1>10, <1>11, <1>12, <1>13,
     <1>14, <1>15, <1>16, <1>17, <1>18, <1>19, <1>20, <1>21, <1>22, <1>23, <1>24, <1>25, <1>26,
     <1>27, <1>28, <1>29, <1>30, <1>31, <1>32, <1>33, <1>34
     DEF Next, HostStep, HelperStep, KernelStep

\* What host, helper and kernel do is what HelperVerdict allows: one report per probe,
\* never before the helper is gone, and PASS only for a helper that served every
\* request and exited cleanly.
THEOREM KeepsThePromise == Spec => Abs!Safety
<1>1. Init => Abs!Init
  <2> SUFFICES ASSUME Init PROVE Abs!Init
    OBVIOUS
  <2>1. quota \in 0..5
    BY QuotaType DEF Init, Modes
  <2> QED
    BY <2>1 DEF Init, Abs!Init, childAlive, Alive
<1>2. ASSUME IInv, [Next]_vars
      PROVE  [Abs!Next]_(Abs!avars)
  BY <1>2, AbsStep
<1> QED
  BY <1>1, <1>2, Invariance, PTL DEF Spec, Abs!Safety

-----------------------------------------------------------------------------
(* An undisturbed session passes.                                           *)

\* What the bundled helper answers to the request in flight.
Answer == Header(request, IF request = 1 THEN "hello" ELSE "none", TRUE)

\* Where the request in flight is while helper_roundtrip waits for its header: in the
\* socket, with the helper, or answered, with the HELLO's payload behind it or not.
AwaitsHeader ==
  \/ toHelper = <<request>> /\ toHost = <<>> /\ child \in {"start", "read"}
  \/ toHelper = <<>> /\ toHost = <<>> /\ child = "header" /\ req = request
  \/ /\ toHelper = <<>> /\ toHost = <<Answer>>
     /\ child = AfterHeader(request) \/ (request = 5 /\ child = "zombie")
  \/ /\ toHelper = <<>> /\ toHost = <<Answer, Payload(TRUE)>>
     /\ request = 1 /\ child = "read"

\* The same while it waits for the payload of the HELLO.
AwaitsPayload ==
  /\ request = 1 /\ toHelper = <<>>
  /\ \/ toHost = <<>> /\ child = "payload"
     \/ toHost = <<Payload(TRUE)>> /\ child = "read"

\* As long as nothing outside the two programs has gone wrong, the exchange goes on
\* to its end, the helper leaves only after the SHUTDOWN, and cleanly.
Undisturbed ==
  ~fault =>
    /\ clock # "expired" /\ verdict # "FAIL" /\ beat = served
    /\ host \in Exchange \cup AfterExchange =>
         /\ child \in {"start", "read", "header", "payload", "exit", "zombie"}
         /\ child = "zombie" => status = "clean"
         /\ child # "start" => path = "graft"
         /\ sent > 1 => hello
    /\ host \in {"pollout", "write"} => child \in {"start", "read"}
    /\ host = "readheader" => AwaitsHeader
    /\ host = "readpayload" => AwaitsPayload
    /\ host \in AfterExchange =>
         /\ ok /\ child \in {"exit", "zombie"} /\ host \notin {"kill", "killwait"}
         /\ host # "inspect" => sharedOk


\* HELLO is the first request of every mode and SHUTDOWN the last.
LEMMA RequestOrder ==
  ASSUME mode \in Modes, sent \in 1..quota
  PROVE  request \in Ids /\ (request = 1 <=> sent = 1) /\ (request = 5 <=> sent = quota)
  BY DEF Modes, Requests, request, quota, Ids

\* Reading from a direction of the socket that holds one or two messages.
LEMMA ReadShort ==
  ASSUME NEW a, NEW b
  PROVE  /\ Head(<<a>>) = a /\ Tail(<<a>>) = <<>>
         /\ Head(<<a, b>>) = a /\ Tail(<<a, b>>) = <<b>>
  OBVIOUS

\* A payload put behind a header.
LEMMA SecondMessage ==
  ASSUME NEW S, NEW a \in S, NEW b \in S
  PROVE  Append(<<a>>, b) = <<a, b>>
<1> DEFINE q == Append(<<a>>, b)
<1>1. /\ <<a>> \in Seq(S) /\ Len(<<a>>) = 1 /\ <<a>>[1] = a
      /\ <<a, b>> \in Seq(S) /\ Len(<<a, b>>) = 2
      /\ <<a, b>>[1] = a /\ <<a, b>>[2] = b
  OBVIOUS
<1>2. q \in Seq(S) /\ Len(q) = 2 /\ q[1] = a /\ q[2] = b
  BY <1>1, AppendProperties
<1>3. \A i \in 1..2 : i = 1 \/ i = 2
  OBVIOUS
<1>4. \A i \in 1..Len(q) : q[i] = <<a, b>>[i]
  BY <1>1, <1>2, <1>3
<1> QED
  BY <1>1, <1>2, <1>4, SeqEqual

\* The header and the payload of the bundled helper are what the host wants to read.
LEMMA AnswerAccepted ==
  /\ Answer.valid /\ Answer.id = request /\ Answer.size # "odd"
  /\ Answer.size = "none" <=> request # 1
  /\ Payload(TRUE).valid = TRUE
  BY DEF Answer, Header, Payload

\* Every step of an undisturbed session keeps it on its way to PASS.
LEMMA UndisturbedStep ==
  ASSUME IInv, Undisturbed, [Next]_vars
  PROVE  Undisturbed'
<1> SUFFICES ASSUME ~fault' PROVE Undisturbed'
  BY DEF Undisturbed
<1>q. mode' = mode => quota' = quota
  BY DEF quota
<1>s. mode' = mode /\ sent' = sent => request' = request /\ Answer' = Answer
  BY DEF request, Answer
<1>r. quota \in 2..5 /\ mode \in Modes
  BY QuotaType DEF IInv, Types
<1>o. host \in Exchange =>
        /\ sent \in 1..quota /\ request \in Ids
        /\ (request = 1 <=> sent = 1) /\ (request = 5 <=> sent = quota)
  BY <1>r, RequestOrder DEF IInv, Ledger
<1>t. /\ toHelper \in Seq(Ids) /\ toHost \in Seq(Replies)
      /\ sent \in Nat /\ served \in Nat /\ beat \in Nat
  BY DEF IInv, Types
<1> USE DEF vars, callVars, localVars, helperVars, netVars, Setup, Exchange, Ended, Gone,
            Alive, AfterExchange
<1>1. ASSUME NEW m \in Modes, Begin(m)
      PROVE  Undisturbed'
  BY <1>1 DEF Begin, Undisturbed
<1>2. ASSUME NEW s \in Setup \ {"spawn"}, Acquire(s)
      PROVE  Undisturbed'
  BY <1>2 DEF Acquire, After, Undisturbed
<1>3. ASSUME NEW s \in Setup, SetupFails(s)
      PROVE  Undisturbed'
  BY <1>3 DEF SetupFails
<1>4. ASSUME NEW z \in Sizes, ForeignReplies(z)
      PROVE  Undisturbed'
  BY <1>4 DEF ForeignReplies
<1>5. ASSUME NEW s \in {"clean", "other"}, ForeignExits(s)
      PROVE  Undisturbed'
  BY <1>5 DEF ForeignExits
<1>6. CASE PollOut
  BY <1>6 DEF PollOut, Undisturbed
<1>7. CASE Write
  <2>1. CASE childEndOpen
    <3>1. toHelper = <<>> /\ toHost = <<>>
      BY <1>7 DEF Write, IInv, Ledger
    <3>2. /\ toHelper' = Append(toHelper, request) /\ host' = "readheader"
          /\ UNCHANGED <<callVars, sent, localVars, clock, helperVars, toHost, fault>>
      BY <1>7, <2>1 DEF Write
    <3>3. toHelper' = <<request>>
      BY <3>1, <3>2
    <3>4. child \in {"start", "read"}
      BY <1>7 DEF Write, Undisturbed
    <3>5. AwaitsHeader'
      BY <3>1, <3>2, <3>3, <3>4, <1>s DEF AwaitsHeader
    <3> QED
      BY <1>7, <3>2, <3>5 DEF Write, Undisturbed
  <2>2. CASE ~childEndOpen
    BY <1>7, <2>2 DEF Write, Undisturbed
  <2> QED
    BY <2>1, <2>2
<1>8. CASE ReadHeader
  <2>1. host = "readheader" /\ toHost # <<>> /\ toHost' = Tail(toHost) /\ AwaitsHeader
        /\ UNCHANGED <<callVars, hello, sharedOk, verdict, clock, helperVars, toHelper, fault>>
    BY <1>8 DEF ReadHeader, Undisturbed
  <2>b. /\ toHelper = <<>>
        /\ \/ /\ toHost = <<Answer>>
              /\ child = AfterHeader(request) \/ (request = 5 /\ child = "zombie")
           \/ toHost = <<Answer, Payload(TRUE)>> /\ request = 1 /\ child = "read"
    BY <2>1 DEF AwaitsHeader
  <2>2. /\ toHelper = <<>> /\ Head(toHost) = Answer
        /\ \/ /\ toHost' = <<>>
              /\ child = AfterHeader(request) \/ (request = 5 /\ child = "zombie")
           \/ toHost' = <<Payload(TRUE)>> /\ request = 1 /\ child = "read"
    <3>1. CASE /\ toHost = <<Answer>>
               /\ child = AfterHeader(request) \/ (request = 5 /\ child = "zombie")
      BY ONLY <2>1, <2>b, <3>1, ReadShort
    <3>2. CASE toHost = <<Answer, Payload(TRUE)>> /\ request = 1 /\ child = "read"
      BY ONLY <2>1, <2>b, <3>2, ReadShort
    <3> QED
      BY <2>b, <3>1, <3>2
  <2>3. AcceptsHeader(Head(toHost))
    BY <2>2, AnswerAccepted DEF AcceptsHeader
  <2>4. CASE request = 1
    <3>1. host' = "readpayload" /\ UNCHANGED <<sent, ok>>
      BY <1>8, <2>2, <2>3, <2>4, AnswerAccepted DEF ReadHeader, AnnouncesPayload
    <3>2. child' = child /\ toHelper' = <<>> /\ request' = 1
      BY <2>1, <2>2, <2>4, <3>1, <1>s
    <3>3. \/ toHost' = <<>> /\ child = "payload"
          \/ toHost' = <<Payload(TRUE)>> /\ child = "read"
      <4>1. AfterHeader(request) = "payload" /\ request # 5
        BY <2>4 DEF AfterHeader
      <4> QED
        BY ONLY <2>2, <4>1
    <3>4. Payload(TRUE)' = Payload(TRUE)
      BY DEF Payload
    <3>5. AwaitsPayload'
      BY ONLY <3>2, <3>3, <3>4 DEF AwaitsPayload
    <3> QED
      BY <2>1, <3>1, <3>5 DEF Undisturbed
  <2>5. CASE request # 1
    <3>1. Advance /\ UNCHANGED ok
      BY <1>8, <2>2, <2>3, <2>5, AnswerAccepted DEF ReadHeader, AnnouncesPayload
    <3>2. sent > 1 /\ hello
      BY <2>1, <2>5, <1>o DEF Undisturbed
    <3>3. CASE sent < quota
      <4>1. host' = "pollout" /\ sent' = sent + 1
        BY <3>1, <3>3 DEF Advance
      <4>2. request # 5
        BY <2>1, <3>3, <1>o, <1>r
      <4>3. child = "read"
        BY ONLY <2>2, <2>5, <4>2 DEF AfterHeader
      <4> QED
        BY <2>1, <3>2, <4>1, <4>3 DEF Undisturbed
    <3>4. CASE ~(sent < quota)
      <4>1. host' = "inspect" /\ sent' = sent
        BY <3>1, <3>4 DEF Advance
      <4>2. request = 5
        BY <2>1, <3>4, <1>o, <1>r
      <4>3. child \in {"exit", "zombie"}
        BY <2>2, <4>2 DEF AfterHeader
      <4>4. ok'
        BY <2>1, <3>1 DEF IInv, Ledger
      <4> QED
        BY <2>1, <3>1, <3>2, <4>1, <4>3, <4>4 DEF Undisturbed
    <3> QED
      BY <3>3, <3>4
  <2> QED
    BY <2>4, <2>5
<1>9. CASE ReadPayload
  <2>1. /\ host = "readpayload" /\ toHost # <<>> /\ AwaitsPayload /\ hello' = Head(toHost).valid
        /\ UNCHANGED <<callVars, ok, sharedOk, verdict, clock, helperVars, fault>>
    BY <1>9 DEF ReadPayload, Undisturbed
  <2>2. toHost = <<Payload(TRUE)>> /\ request = 1 /\ child = "read"
    BY <2>1 DEF AwaitsPayload
  <2>3. hello'
    <3>1. Head(toHost) = Payload(TRUE)
      BY <2>2
    <3> QED
      BY ONLY <2>1, <3>1, AnswerAccepted
  <2>4. host' = "pollout"
    BY <1>9, <2>1, <2>2, <1>o, <1>r DEF ReadPayload, Advance
  <2> QED
    BY <2>1, <2>2, <2>3, <2>4 DEF Undisturbed
<1>10. CASE ExchangeTimesOut
  BY <1>10 DEF ExchangeTimesOut, Undisturbed
<1>11. CASE PeerGone
  <2>1. host \in Exchange /\ ~fault /\ ~childEndOpen /\ (host = "pollout" \/ toHost = <<>>)
        /\ host # "write"
    BY <1>11 DEF PeerGone, Polling
  <2>2. ~childAlive
    BY <2>1 DEF childEndOpen, ChildKeeps
  <2>3. childAlive
    <3>1. host = "pollout" => child \in {"start", "read"}
      BY <2>1 DEF Undisturbed
    <3>2. ASSUME host = "readheader" PROVE child \in {"start", "read", "header"}
      <4>1. toHost = <<>> /\ AwaitsHeader
        BY <2>1, <3>2 DEF Undisturbed
      <4> QED
        BY <4>1 DEF AwaitsHeader
    <3>3. ASSUME host = "readpayload" PROVE child = "payload"
      <4>1. toHost = <<>> /\ AwaitsPayload
        BY <2>1, <3>3 DEF Undisturbed
      <4> QED
        BY <4>1 DEF AwaitsPayload
    <3> QED
      BY <2>1, <3>1, <3>2, <3>3 DEF childAlive
  <2> QED
    BY <2>2, <2>3
<1>12. CASE PollInterrupted
  BY <1>12 DEF PollInterrupted
<1>13. CASE Inspect
  <2>1. /\ host = "inspect" /\ host' = "reap" /\ sharedOk' = Marked
        /\ UNCHANGED <<callVars, sent, ok, hello, verdict, clock, helperVars, fault>>
    BY <1>13 DEF Inspect
  <2>2. ok /\ beat = served
    BY <2>1 DEF Undisturbed
  <2>3. served = quota
    BY <2>1, <2>2 DEF IInv, Ledger
  <2>4. sharedOk'
    <3>1. Marked
      BY <2>2, <2>3, <1>r DEF Marked
    <3> QED
      BY ONLY <2>1, <3>1
  <2> QED
    BY <2>1, <2>4 DEF Undisturbed
<1>14. CASE Reap
  <2>1. /\ host = "reap" /\ child = "zombie" /\ host' = "done" /\ verdict' = Judge(TRUE)
        /\ UNCHANGED <<clock, beat, served, fault>>
    BY <1>14 DEF Reap
  <2>2. ok /\ sharedOk /\ status = "clean"
    BY <2>1 DEF Undisturbed
  <2>3. hello
    <3>1. sent = quota
      BY <2>1, <2>2 DEF IInv, Ledger
    <3> QED
      BY <2>1, <3>1, <1>r DEF Undisturbed
  <2>4. Judge(TRUE) = "PASS"
    BY <2>2, <2>3 DEF Judge, ExitedOk
  <2> QED
    BY <2>1, <2>4 DEF Undisturbed
<1>15. CASE NotYet
  BY <1>15 DEF NotYet, Undisturbed
<1>16. CASE Resume
  BY <1>16 DEF Resume, Undisturbed
<1>17. CASE Kill
  BY <1>17 DEF Kill, Undisturbed
<1>18. CASE ReapKilled
  BY <1>18 DEF ReapKilled, Undisturbed
<1>19. CASE HelperStart
  <2>1. /\ child = "start" /\ child' = "read" /\ path = "graft"
        /\ UNCHANGED <<callVars, host, sent, localVars, clock, req, beat, served, status,
                       netVars, fault>>
    BY <1>19 DEF HelperStart
  <2>2. host = "readheader" => AwaitsHeader'
    BY <2>1, <1>s DEF Undisturbed, AwaitsHeader, AfterHeader
  <2>3. host # "readpayload" /\ host \notin AfterExchange
    BY <2>1 DEF Undisturbed, AwaitsPayload
  <2> QED
    BY <2>1, <2>2, <2>3 DEF Undisturbed
<1>20. CASE HelperMapFails
  BY <1>20 DEF HelperMapFails
<1>21. CASE HelperHandles
  <2>1. /\ child = "read" /\ child' = "header" /\ path = "graft" /\ toHelper # <<>>
        /\ req' = Head(toHelper) /\ toHelper' = Tail(toHelper)
        /\ served' = served + 1 /\ beat' = beat + 1
        /\ UNCHANGED <<callVars, host, sent, localVars, clock, status, toHost, fault>>
    BY <1>21 DEF HelperHandles
  <2>2. ASSUME host = "readheader" PROVE AwaitsHeader'
    <3>1. toHelper = <<request>> /\ toHost = <<>>
      BY <2>1, <2>2 DEF Undisturbed, AwaitsHeader
    <3>2. toHelper' = <<>> /\ req' = request
      BY <2>1, <3>1
    <3> QED
      BY <2>1, <3>1, <3>2, <1>s DEF AwaitsHeader
  <2>3. host \notin {"pollout", "write", "readpayload"} \cup AfterExchange
    BY <2>1 DEF Undisturbed, AwaitsPayload, IInv, Ledger
  <2> QED
    BY <2>1, <2>2, <2>3 DEF Undisturbed
<1>22. CASE HelperEof
  <2>1. /\ child = "read" /\ ~hostEndOpen
        /\ UNCHANGED <<callVars, host, sent, localVars, clock, beat, served, fault>>
    BY <1>22 DEF HelperEof
  <2>2. host \notin Exchange
    BY <2>1 DEF hostEndOpen, IInv, Holdings
  <2>3. host \notin AfterExchange
    BY <2>1 DEF Undisturbed
  <2> QED
    BY <2>1, <2>2, <2>3 DEF Undisturbed
<1>23. CASE HelperRepliesHeader
  <2>1. /\ child = "header" /\ child' = AfterHeader(req) /\ path = "graft"
        /\ toHost' = Append(toHost, Header(req, IF req = 1 THEN "hello" ELSE "none", TRUE))
        /\ UNCHANGED <<callVars, host, sent, localVars, clock, req, beat, served, status,
                       toHelper, fault>>
    BY <1>23 DEF HelperRepliesHeader
  <2>2. ASSUME host = "readheader" PROVE AwaitsHeader'
    <3>1. toHelper = <<>> /\ toHost = <<>> /\ req = request
      BY <2>1, <2>2 DEF Undisturbed, AwaitsHeader, AfterHeader
    <3>2. toHost' = <<Answer>>
      BY <2>1, <3>1 DEF Answer
    <3> QED
      BY <2>1, <3>1, <3>2, <1>s DEF AwaitsHeader
  <2>3. host \notin {"pollout", "write", "readpayload"} \cup AfterExchange
    BY <2>1 DEF Undisturbed, AwaitsPayload
  <2>4. child' \in {"payload", "exit", "read"}
    BY <2>1 DEF AfterHeader
  <2> QED
    BY <2>1, <2>2, <2>3, <2>4 DEF Undisturbed
<1>24. CASE HelperRepliesPayload
  <2>1. /\ child = "payload" /\ child' = "read"
        /\ UNCHANGED <<callVars, host, sent, localVars, clock, req, beat, served, status,
                       toHelper, fault>>
    BY <1>24 DEF HelperRepliesPayload
  <2>2. PICK valid \in BOOLEAN :
          (path = "graft" => valid) /\ toHost' = Append(toHost, Payload(valid))
    BY <1>24 DEF HelperRepliesPayload
  <2>3. host \in Exchange => path = "graft"
    BY <2>1 DEF Undisturbed
  <2>4. host \in Exchange => toHost' = Append(toHost, Payload(TRUE))
    BY <2>2, <2>3
  <2>5. ASSUME host = "readheader" PROVE AwaitsHeader'
    <3>1. toHelper = <<>> /\ toHost = <<Answer>> /\ AfterHeader(request) = "payload"
      BY <2>1, <2>5 DEF Undisturbed, AwaitsHeader
    <3>2. request = 1
      BY <3>1 DEF AfterHeader
    <3>3. toHost' = <<Answer, Payload(TRUE)>>
      <4>1. Answer \in Replies
        BY <1>o, <2>5, HeaderType DEF Answer, Sizes
      <4>2. Payload(TRUE) \in Replies
        BY PayloadType
      <4> QED
        BY ONLY <2>4, <2>5, <3>1, <4>1, <4>2, SecondMessage
    <3> QED
      BY <2>1, <3>1, <3>2, <3>3, <1>s DEF AwaitsHeader
  <2>6. ASSUME host = "readpayload" PROVE AwaitsPayload'
    <3>1. request = 1 /\ toHelper = <<>> /\ toHost = <<>>
      BY <2>1, <2>6 DEF Undisturbed, AwaitsPayload
    <3>2. toHost' = <<Payload(TRUE)>>
      <4>1. toHost' = Append(<<>>, Payload(TRUE))
        BY <2>4, <2>6, <3>1
      <4> QED
        BY ONLY <4>1
    <3> QED
      BY <2>1, <3>1, <3>2, <1>s DEF AwaitsPayload
  <2>7. host \notin {"pollout", "write"} \cup AfterExchange
    BY <2>1 DEF Undisturbed
  <2> QED
    BY <2>1, <2>3, <2>5, <2>6, <2>7 DEF Undisturbed
<1>25. CASE HelperReplyFails
  <2>1. /\ child \in {"header", "payload"} /\ ~hostEndOpen
        /\ UNCHANGED <<callVars, host, sent, localVars, clock, beat, served, fault>>
    BY <1>25 DEF HelperReplyFails
  <2>2. host \notin Exchange
    BY <2>1 DEF hostEndOpen, IInv, Holdings
  <2>3. host \notin AfterExchange
    BY <2>1 DEF Undisturbed
  <2> QED
    BY <2>1, <2>2, <2>3 DEF Undisturbed
<1>26. CASE HelperExits
  <2>1. /\ child = "exit" /\ child' = "zombie" /\ status' = "clean"
        /\ UNCHANGED <<callVars, host, sent, localVars, clock, req, beat, served, netVars,
                       fault>>
    BY <1>26 DEF HelperExits, Leave
  <2>2. ASSUME host = "readheader" PROVE AwaitsHeader'
    <3>1. toHelper = <<>> /\ toHost = <<Answer>> /\ AfterHeader(request) = "exit"
      BY <2>1, <2>2 DEF Undisturbed, AwaitsHeader
    <3>2. request = 5
      BY <3>1 DEF AfterHeader
    <3> QED
      BY <2>1, <3>1, <3>2, <1>s DEF AwaitsHeader
  <2>3. host \notin {"pollout", "write", "readpayload"}
    BY <2>1 DEF Undisturbed, AwaitsPayload
  <2> QED
    BY <2>1, <2>2, <2>3 DEF Undisturbed
<1>27. CASE DeadlinePasses
  BY <1>27 DEF DeadlinePasses
<1>28. CASE HelperCrashes
  BY <1>28 DEF HelperCrashes
<1>29. CASE SigkillDelivered
  BY <1>29 DEF SigkillDelivered, Leave, Undisturbed
<1>30. CASE HostKilled
  BY <1>30 DEF HostKilled, Undisturbed
<1>31. CASE Spawn
  BY <1>31 DEF Spawn, Undisturbed
<1>32. CASE UNCHANGED vars
  BY <1>32, <1>s DEF Undisturbed, AwaitsHeader, AwaitsPayload
<1>33. CASE WaitFails
  BY <1>33 DEF WaitFails, Undisturbed
<1>34. CASE HelperTaken
  BY <1>34 DEF HelperTaken
<1> QED
  BY <1>1, <1>2, <1>3, <1>4, <1>5, <1>6, <1>7, <1>8, <1>9, <1>10, <1>11, <1>12, <1>13,
     <1>14, <1>15, <1>16, <1>17, <1>18, <1>19, <1>20, <1>21, <1>22, <1>23, <1>24, <1>25, <1>26,
     <1>27, <1>28, <1>29, <1>30, <1>31, <1>32, <1>33, <1>34
     DEF Next, HostStep, HelperStep, KernelStep

\* helper_roundtrip blames the helper only when something outside the two programs went
\* wrong: left alone, host and bundled helper reach PASS in whatever order they run.
THEOREM FailIsJustified == Spec => []FailHasCause
<1>1. Init => Undisturbed
  BY DEF Init, Undisturbed, Exchange, AfterExchange
<1>2. ASSUME IInv, Undisturbed, [Next]_vars
      PROVE  Undisturbed'
  BY <1>2, UndisturbedStep
<1>3. ASSUME IInv, Undisturbed PROVE FailHasCause
  BY <1>3 DEF IInv, Types, Undisturbed, FailHasCause
<1> QED
  BY <1>1, <1>2, <1>3, Invariance, PTL DEF Spec
=============================================================================
