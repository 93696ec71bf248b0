----------------------------- MODULE MessageGate -----------------------------
(***************************************************************************)
(* The way of an incoming message through P2PNetwork: the subscription is  *)
(* looked up, ReputationRateLimiter decides, the handler is called.  Time  *)
(* is LogicalClock, which only handleIncomingMessage advances; messages    *)
(* that come through the interceptor of subscribe() leave it alone.        *)
(*                                                                         *)
(* The transport under it is external: it delivers any message at any      *)
(* time, on several threads.  A payload stands for its hash.               *)
(***************************************************************************)
EXTENDS Integers, Sequences, FiniteSets, Functions, Maps

CONSTANTS
  GateThreads,      \* threads of the transport that deliver messages
  Senders,
  Topics,
  Payloads,
  BaseLimit,        \* limit per window for a medium reputation, by topic
  WindowSize,       \* windowSizeTicks
  KeepHashes,       \* how many hashes recentPayloadHashes holds
  MaxMessages       \* bound on the messages, for model checking

Reputations == {"low", "medium", "high"}

ASSUME GateAssumption ==
  /\ Topics # {} /\ IsFiniteSet(Topics) /\ BaseLimit \in [Topics -> Nat]
  /\ WindowSize \in Nat \ {0} /\ KeepHashes \in Nat /\ MaxMessages \in Nat

VARIABLES
  logicalClock,     \* LogicalClock::clock_
  subscriptions,    \* the topics with a handler
  tapped,           \* those whose interceptor the transport has; it keeps it
  peerStates,       \* peerStates_ of the limiter
  arriving,         \* what each thread delivers
  arrived,          \* for MaxMessages
  handled           \* history: the messages given to a handler, and when

gateVars == <<logicalClock, subscriptions, tapped, peerStates, arriving, arrived, handled>>

Nothing == [at |-> "idle"]

NewPeer == [messageCount |-> 0, windowStartTick |-> 0, recent |-> <<>>]

GateInit ==
  /\ logicalClock = 0 /\ subscriptions = {} /\ tapped = {}
  /\ peerStates = [p \in Senders |-> NewPeer]
  /\ arriving = [g \in GateThreads |-> Nothing]
  /\ arrived = 0 /\ handled = <<>>

-----------------------------------------------------------------------------
SubscribeTopic(topic) ==
  /\ subscriptions' = subscriptions \cup {topic}
  /\ tapped' = tapped \cup {topic}
  /\ UNCHANGED <<logicalClock, peerStates, arriving, arrived, handled>>

UnsubscribeTopic(topic) ==
  /\ subscriptions' = subscriptions \ {topic}
  /\ UNCHANGED <<logicalClock, tapped, peerStates, arriving, arrived, handled>>

\* handleIncomingMessage: without a handler the message is dropped, after the tick.
HandleIncomingMessage(g, p, rep, topic, payload) ==
  /\ arriving[g] = Nothing /\ arrived < MaxMessages
  /\ arrived' = arrived + 1
  /\ logicalClock' = logicalClock + 1
  /\ arriving' = IF topic \notin subscriptions THEN arriving
                 ELSE [arriving EXCEPT ![g] =
                         [at |-> "gate", from |-> p, rep |-> rep, topic |-> topic,
                          payload |-> payload, handler |-> TRUE]]
  /\ UNCHANGED <<subscriptions, tapped, peerStates, handled>>

\* The interceptor of a topic that was subscribed to once: without a handler the
\* message still goes through the limiter.
Intercept(g, p, topic, payload) ==
  /\ topic \in tapped
  /\ arriving[g] = Nothing /\ arrived < MaxMessages
  /\ arrived' = arrived + 1
  /\ arriving' = [arriving EXCEPT ![g] =
                    [at |-> "gate", from |-> p, rep |-> "medium", topic |-> topic,
                     payload |-> payload, handler |-> topic \in subscriptions]]
  /\ UNCHANGED <<logicalClock, subscriptions, tapped, peerStates, handled>>

\* A quarter, all or the double of the topic's limit, and never nothing.
LimitFor(rep, topic) ==
  LET base == BaseLimit[topic]
      limit == IF rep = "low" THEN base \div 4
               ELSE IF rep = "medium" THEN base ELSE 2 * base
  IN  IF limit = 0 THEN 1 ELSE limit

\* Fault: windows follow each other, whenever the peer was quiet.
CurrentAligned(state) ==
  IF state.windowStartTick = 0 \/ logicalClock >= state.windowStartTick + WindowSize
  THEN [NewPeer EXCEPT !.windowStartTick = state.windowStartTick + WindowSize] ELSE state

\* The state of the peer in the window of this tick.
CurrentWindow(state) ==
  IF state.windowStartTick = 0 \/ logicalClock >= state.windowStartTick + WindowSize
  THEN [NewPeer EXCEPT !.windowStartTick = logicalClock] ELSE state

\* Fault: an old hash goes for each new one, also while there is room.
RememberedTrimmed(recent, payload) == Tail(Append(recent, payload))

\* The hash is remembered, and the oldest forgotten.
Remembered(recent, payload) ==
  LET hashes == Append(recent, payload)
  IN  IF Len(hashes) > KeepHashes THEN Tail(hashes) ELSE hashes

\* Fault: admitted messages are not counted.
AdmittedUncounted(state, payload) ==
  [state EXCEPT !.recent = Remembered(@, payload)]

Admitted(state, payload) ==
  [messageCount |-> state.messageCount + 1, windowStartTick |-> state.windowStartTick,
   recent |-> Remembered(state.recent, payload)]

\* allowMessage, under mu_, and the handler.
AllowMessage(g) ==
  LET msg == arriving[g]
      state == CurrentWindow(peerStates[msg.from])
      allowed == /\ state.messageCount < LimitFor(msg.rep, msg.topic)
                 /\ msg.payload \notin Range(state.recent)
  IN
  /\ peerStates' = [peerStates EXCEPT ![msg.from] =
                      IF allowed THEN Admitted(state, msg.payload) ELSE state]
  /\ handled' = IF allowed /\ msg.handler
                THEN Append(handled, [from |-> msg.from, payload |-> msg.payload,
                                      tick |-> logicalClock])
                ELSE handled
  /\ arriving' = [arriving EXCEPT ![g] = Nothing]
  /\ UNCHANGED <<logicalClock, subscriptions, tapped, arrived>>

GateNext ==
  \/ \E topic \in Topics : SubscribeTopic(topic) \/ UnsubscribeTopic(topic)
  \/ \E g \in GateThreads, p \in Senders, topic \in Topics, payload \in Payloads :
       \/ \E rep \in Reputations : HandleIncomingMessage(g, p, rep, topic, payload)
       \/ Intercept(g, p, topic, payload)
  \/ \E g \in GateThreads : arriving[g] # Nothing /\ AllowMessage(g)

GateSpec == GateInit /\ [][GateNext]_gateVars

-----------------------------------------------------------------------------
(* Properties.                                                             *)

MaxLimit == CHOOSE n \in {LimitFor("high", topic) : topic \in Topics} :
              \A topic \in Topics : LimitFor("high", topic) <= n

\* Every variable has its type: counts stay below the highest limit and hashes below
\* KeepHashes.
GateTypeOK ==
  /\ logicalClock \in 0 .. MaxMessages /\ subscriptions \subseteq tapped
  /\ \A p \in Senders :
       /\ peerStates[p].messageCount \in 0 .. MaxLimit
       /\ peerStates[p].windowStartTick \in 0 .. logicalClock
       /\ Len(peerStates[p].recent) <= KeepHashes /\ Range(peerStates[p].recent) \subseteq Payloads

\* Messages of a sender handled in the WindowSize ticks that begin with the tick of the
\* i-th.  At tick 0 every message finds its window over, so these are left aside.
HandledFrom(i) ==
  {j \in DOMAIN handled :
     /\ handled[j].from = handled[i].from
     /\ handled[i].tick > 0 /\ handled[j].tick \in handled[i].tick .. handled[i].tick + WindowSize - 1}

\* A window opens with the first message that finds the old one over, whatever the
\* others do meanwhile, so WindowSize ticks see at most two windows, and not the first
\* message of the older one.
BurstBounded == \A i \in DOMAIN handled : Cardinality(HandledFrom(i)) <= 2 * MaxLimit - 1

\* "deduplicates identical payloads within a short window": while a window admits no
\* more messages than hashes are kept, a payload is handled at most once at a tick and
\* twice in WindowSize of them.
RepeatsBounded ==
  MaxLimit <= KeepHashes =>
    \A i \in DOMAIN handled :
      LET repeats == {j \in HandledFrom(i) : handled[j].payload = handled[i].payload} IN
      /\ Cardinality(repeats) <= 2
      /\ \A j \in repeats \ {i} : handled[j].tick # handled[i].tick

\* What the rate limiter keeps from a handler: too many messages, and the same one
\* again, on whatever threads and around whatever ends of windows they come.
GateBounds == BurstBounded /\ RepeatsBounded

=============================================================================
