---------------------------- MODULE BitcoinEvents ----------------------------
(***************************************************************************)
(* The lifecycle of BitcoinAdapter and its event thread, which asks the    *)
(* node for its height and reports the tip to onBlock when it has grown.   *)
(*                                                                         *)
(* Each init() makes a new BTCState; a thread keeps the one it was started *)
(* with.  A round of the loop in which neither ZMQ nor the five-second     *)
(* timer asks for the height does nothing and is no step.  An RPC call     *)
(* fails when the node is down for all its attempts.                       *)
(***************************************************************************)
EXTENDS Integers, Sequences

CONSTANTS
  MaxInits,      \* bound on init(), for model checking
  MaxTip,        \* bound on Bitcoin's height, for model checking
  MaxOutages     \* bound on the node's outages, for model checking

ASSUME EventsAssumption == MaxInits \in Nat /\ MaxTip \in Nat \ {0} /\ MaxOutages \in Nat

VARIABLES
  bestChain,     \* the branch number of each block of the node's best chain
  nodeUp,
  outages,
  btcStates,     \* the BTCStates, the last of which is state_
  joining        \* stop() waits for the thread of state_

nodeVars == <<bestChain, nodeUp, outages>>
eventVars == <<nodeVars, btcStates, joining>>

\* A BTCState.  at is where its thread stands, tip and block the height and the hash
\* it is asking about, onBlock the headers it has reported.
BtcState == [running |-> FALSE, at |-> "off", lastSeenHeight |-> 0, tip |-> 0,
             block |-> 0, onBlock |-> <<>>]

EventsInit ==
  /\ bestChain = <<0>> /\ nodeUp = TRUE /\ outages = 0
  /\ btcStates = <<>> /\ joining = FALSE

\* What the threads and calls do to a BTCState: its thread moves on, it asks about a
\* height and a block, hands the header to onBlock, and marks the height as seen.
GoTo(place, state) == [state EXCEPT !.at = place]
Switched(on, state) == [state EXCEPT !.running = on]
WithTip(height, state) == [state EXCEPT !.tip = height]
WithBlock(block, state) == [state EXCEPT !.block = block]
Reported(state) ==
  [state EXCEPT !.onBlock = Append(state.onBlock, [height |-> state.tip, block |-> state.block])]
Seen(state) == [state EXCEPT !.lastSeenHeight = state.tip]

-----------------------------------------------------------------------------
(* The node.                                                               *)

NodeMines ==
  /\ Len(bestChain) < MaxTip
  /\ bestChain' = Append(bestChain, bestChain[Len(bestChain)])
  /\ UNCHANGED <<nodeUp, outages, btcStates, joining>>

\* A longer branch replaces the last block.
NodeReorganises ==
  /\ Len(bestChain) < MaxTip
  /\ LET branch == bestChain[Len(bestChain)] + 1
     IN  bestChain' = Append([bestChain EXCEPT ![Len(bestChain)] = branch], branch)
  /\ UNCHANGED <<nodeUp, outages, btcStates, joining>>

NodeFails ==
  /\ nodeUp /\ outages < MaxOutages
  /\ nodeUp' = FALSE /\ outages' = outages + 1
  /\ UNCHANGED <<bestChain, btcStates, joining>>

NodeReturns ==
  /\ ~nodeUp /\ nodeUp' = TRUE
  /\ UNCHANGED <<bestChain, outages, btcStates, joining>>

-----------------------------------------------------------------------------
(* Calls, from one thread.                                                 *)

Current == Len(btcStates)

\* init() replaces state_, whether or not its thread still runs.  Without the node
\* it returns false and leaves the new state behind.
InitAdapter ==
  /\ ~joining /\ Current < MaxInits
  /\ btcStates' = Append(btcStates, BtcState)
  /\ UNCHANGED <<nodeVars, joining>>

\* The caller starts a state once: a second start() would assign to a joinable thread.
StartAdapter ==
  /\ ~joining /\ Current > 0 /\ btcStates[Current].at = "off"
  /\ btcStates' = [btcStates EXCEPT ![Current] = GoTo("test", Switched(TRUE, @))]
  /\ UNCHANGED <<nodeVars, joining>>

\* Fault: the flag of the first state is cleared.
StopFirst ==
  /\ ~joining /\ Current > 0 /\ joining' = TRUE
  /\ btcStates' = [btcStates EXCEPT ![1] = Switched(FALSE, @)]
  /\ UNCHANGED nodeVars

\* stop() clears running ...
StopAdapter ==
  /\ ~joining /\ Current > 0 /\ joining' = TRUE
  /\ btcStates' = [btcStates EXCEPT ![Current] = Switched(FALSE, @)]
  /\ UNCHANGED nodeVars

\* ... and returns when the thread has ended.
JoinedAdapter ==
  /\ joining /\ btcStates[Current].at = "off" /\ joining' = FALSE
  /\ UNCHANGED <<nodeVars, btcStates>>

-----------------------------------------------------------------------------
(* The event thread of state s.                                            *)

TestLoop(s) ==
  /\ btcStates[s].at = "test"
  /\ btcStates' =
       [btcStates EXCEPT ![s] = GoTo(IF btcStates[s].running THEN "height" ELSE "off", @)]
  /\ UNCHANGED <<nodeVars, joining>>

\* Fault: the block after the tip is asked for.
AskNextHeight(s) ==
  /\ btcStates[s].at = "height"
  /\ btcStates' =
       IF nodeUp
       THEN [btcStates EXCEPT ![s] = GoTo("hash", WithTip(Len(bestChain) + 1, @))]
       ELSE [btcStates EXCEPT ![s] = GoTo("test", @)]
  /\ UNCHANGED <<nodeVars, joining>>

\* height() of a rawblock or of the timer.
AskHeight(s) ==
  /\ btcStates[s].at = "height"
  /\ btcStates' =
       IF nodeUp /\ Len(bestChain) > btcStates[s].lastSeenHeight
       THEN [btcStates EXCEPT ![s] = GoTo("hash", WithTip(Len(bestChain), @))]
       ELSE [btcStates EXCEPT ![s] = GoTo("test", @)]
  /\ UNCHANGED <<nodeVars, joining>>

\* getblockhash: the block at that height by now.
AskHash(s) ==
  /\ btcStates[s].at = "hash"
  /\ btcStates' =
       IF nodeUp
       THEN [btcStates EXCEPT ![s] = GoTo("header", WithBlock(bestChain[btcStates[s].tip], @))]
       ELSE [btcStates EXCEPT ![s] = GoTo("test", @)]
  /\ UNCHANGED <<nodeVars, joining>>

\* Fault: the height counts as seen although its header could not be fetched.
HeaderSeenFirst(s) ==
  /\ btcStates[s].at = "header"
  /\ btcStates' =
       [btcStates EXCEPT ![s] = GoTo("test", Seen(IF nodeUp THEN Reported(@) ELSE @))]
  /\ UNCHANGED <<nodeVars, joining>>

\* Fault: lastSeenHeight is left as it was.
HeaderUnseen(s) ==
  /\ btcStates[s].at = "header"
  /\ btcStates' =
       [btcStates EXCEPT ![s] =
          GoTo("test", IF nodeUp /\ Len(@.onBlock) < MaxTip THEN Reported(@) ELSE @)]
  /\ UNCHANGED <<nodeVars, joining>>

\* fetchHeader, onBlock and lastSeenHeight.
AskHeader(s) ==
  /\ btcStates[s].at = "header"
  /\ btcStates' =
       IF nodeUp
       THEN [btcStates EXCEPT ![s] = GoTo("test", Seen(Reported(@)))]
       ELSE [btcStates EXCEPT ![s] = GoTo("test", @)]
  /\ UNCHANGED <<nodeVars, joining>>

EventStep(s) == TestLoop(s) \/ AskHeight(s) \/ AskHash(s) \/ AskHeader(s)

EventsNext ==
  \/ NodeMines \/ NodeReorganises \/ NodeFails \/ NodeReturns
  \/ InitAdapter \/ StartAdapter \/ StopAdapter \/ JoinedAdapter
  \/ \E s \in DOMAIN btcStates : EventStep(s)

\* The threads run, and stop() notices that its thread has ended.
EventsFairness ==
  /\ \A s \in 1 .. MaxInits : WF_eventVars(s \in DOMAIN btcStates /\ EventStep(s))
  /\ WF_eventVars(JoinedAdapter)

EventsSpec == EventsInit /\ [][EventsNext]_eventVars /\ EventsFairness

-----------------------------------------------------------------------------
(* Properties.                                                             *)

\* Every variable has its type, and a state's thread asks for no height that the node
\* did not have.
EventsTypeOK ==
  /\ Len(bestChain) \in 1 .. MaxTip /\ {nodeUp, joining} \subseteq BOOLEAN
  /\ outages \in 0 .. MaxOutages /\ Current \in 0 .. MaxInits
  /\ \A s \in DOMAIN btcStates :
       /\ btcStates[s].running \in BOOLEAN
       /\ btcStates[s].at \in {"off", "test", "height", "hash", "header"}
       /\ {btcStates[s].tip, btcStates[s].lastSeenHeight} \subseteq 0 .. Len(bestChain)

\* A subscriber sees each height at most once and in order, whatever the node does
\* between the three calls (BitcoinAdapter::start, lastSeenHeight).
HeightsIncrease ==
  \A s \in DOMAIN btcStates :
    LET headers == btcStates[s].onBlock
    IN  \A i, j \in DOMAIN headers : i < j => headers[i].height < headers[j].height

\* While the adapter runs and the node stays up, the height of the tip is reported in
\* the end: a header that could not be fetched is asked for again.
TipReported ==
  \A s \in 1 .. MaxInits :
    <>[](s \in DOMAIN btcStates /\ btcStates[s].running /\ nodeUp) =>
      []<>(s \in DOMAIN btcStates
             /\ \E i \in DOMAIN btcStates[s].onBlock :
                  btcStates[s].onBlock[i].height = Len(bestChain))

\* stop() returns.
AdapterStops == joining ~> ~joining

=============================================================================
