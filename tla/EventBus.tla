------------------------------- MODULE EventBus -------------------------------
(***************************************************************************)
(* The event bus behind the WebSocket: publishers on the API's event loop  *)
(* or on worker threads, one subscription with its bounded mailbox, and    *)
(* the coroutine that drains it into the socket.  Code on the loop is only *)
(* interrupted by other code of the loop where it awaits; a thread may be  *)
(* scheduled between any two of its statements.                            *)
(***************************************************************************)
EXTENDS Naturals, Sequences

CONSTANTS
  OnLoop,      \* publishers that run on the subscription's loop
  OnThreads,   \* publishers that run on threads of their own
  Capacity,    \* the subscription's capacity
  MaxDropped,  \* MAX_DROPPED_BEFORE_DISCONNECT
  MaxFrames    \* bound: frames published

ASSUME BusAssumption ==
  /\ {Capacity, MaxDropped, MaxFrames} \subseteq Nat \ {0}
  /\ OnLoop \cap OnThreads = {}
  /\ {"nobody", "pump"} \cap (OnLoop \cup OnThreads) = {}

VARIABLES
  sequence,   \* EventBus._sequence; a frame is its sequence number
  subscribed, \* the bus still lists the subscription
  mailbox,    \* Subscription: _queue, _dropped, _overflowed, _closed
  wakeup,     \* _wakeup: set or not, and whether a thread has asked the loop to set it
  publisher,  \* each publisher: where it is in publish, its frame
  pump,       \* the draining coroutine: where it is, its batch
  holder,     \* who runs on the loop between two awaits, "nobody" otherwise
  wire        \* the frames the client has been sent

busVars == <<sequence, subscribed, mailbox, wakeup, publisher, pump, holder, wire>>

Publishers == OnLoop \cup OnThreads

BusInit ==
  /\ sequence = 0
  /\ subscribed = TRUE
  /\ mailbox = [queue |-> <<>>, dropped |-> 0, overflowed |-> FALSE, closed |-> FALSE]
  /\ wakeup = [set |-> FALSE, asked |-> FALSE]
  /\ publisher = [p \in Publishers |-> [at |-> "idle", frame |-> 0]]
  /\ pump = [at |-> "top", batch |-> <<>>]
  /\ holder = "nobody"
  /\ wire = <<>>

MayRun(p) == p \in OnThreads \/ holder \in {"nobody", p}
Takes(p) == holder' = IF p \in OnLoop THEN p ELSE holder
Leaves(p) == holder' = IF p \in OnLoop THEN "nobody" ELSE holder
Goes(p, at, frame) == publisher' = [publisher EXCEPT ![p] = [at |-> at, frame |-> frame]]

-----------------------------------------------------------------------------
(* EventBus.publish and Subscription.offer. *)

\* The frame is numbered, and the subscribers of this moment are listed.
Publish(p) ==
  /\ publisher[p].at = "idle"
  /\ MayRun(p)
  /\ subscribed
  /\ sequence < MaxFrames
  /\ sequence' = sequence + 1
  /\ Goes(p, "offer", sequence + 1)
  /\ Takes(p)
  /\ UNCHANGED <<subscribed, mailbox, wakeup, pump, wire>>

\* Mutant of Offer: a mailbox with one free place counts as full.
OfferMiscounts(p) ==
  /\ publisher[p].at = "offer"
  /\ MayRun(p)
  /\ IF mailbox.closed
     THEN Goes(p, "idle", 0) /\ Leaves(p) /\ UNCHANGED mailbox
     ELSE /\ mailbox' = [mailbox EXCEPT
                !.dropped = IF Len(mailbox.queue) + 1 >= Capacity THEN @ + 1 ELSE @]
          /\ Goes(p, "append", publisher[p].frame)
          /\ Takes(p)
  /\ UNCHANGED <<sequence, subscribed, wakeup, pump, wire>>

\* offer: refused when closed; a full mailbox is about to lose its oldest frame.
Offer(p) ==
  /\ publisher[p].at = "offer"
  /\ MayRun(p)
  /\ IF mailbox.closed
     THEN Goes(p, "idle", 0) /\ Leaves(p) /\ UNCHANGED mailbox
     ELSE LET full == Len(mailbox.queue) = Capacity
              lost == IF full THEN mailbox.dropped + 1 ELSE mailbox.dropped
          IN  /\ mailbox' = [mailbox EXCEPT
                    !.dropped = lost,
                    !.overflowed = @ \/ (full /\ lost >= MaxDropped)]
              /\ Goes(p, "append", publisher[p].frame)
              /\ Takes(p)
  /\ UNCHANGED <<sequence, subscribed, wakeup, pump, wire>>

\* deque(maxlen): appending to a full one discards at the other end.
Pushed(queue, frame) ==
  IF Len(queue) < Capacity THEN Append(queue, frame) ELSE Append(Tail(queue), frame)

AppendFrame(p) ==
  /\ publisher[p].at = "append"
  /\ MayRun(p)
  /\ mailbox' = [mailbox EXCEPT !.queue = Pushed(@, publisher[p].frame)]
  /\ Goes(p, "notify", publisher[p].frame)
  /\ UNCHANGED <<sequence, subscribed, wakeup, pump, holder, wire>>

\* Mutant of Notify: a thread sets the flag itself, which wakes nobody.
NotifyInPlace(p) ==
  /\ publisher[p].at = "notify"
  /\ MayRun(p)
  /\ wakeup' = IF p \in OnLoop THEN [wakeup EXCEPT !.set = TRUE] ELSE wakeup
  /\ Goes(p, "idle", 0)
  /\ Leaves(p)
  /\ UNCHANGED <<sequence, subscribed, mailbox, pump, wire>>

\* _notify: the event is set at once on the loop, through the loop from a thread.
Notify(p) ==
  /\ publisher[p].at = "notify"
  /\ MayRun(p)
  /\ wakeup' = IF p \in OnLoop THEN [wakeup EXCEPT !.set = TRUE]
                               ELSE [wakeup EXCEPT !.asked = TRUE]
  /\ Goes(p, "idle", 0)
  /\ Leaves(p)
  /\ UNCHANGED <<sequence, subscribed, mailbox, pump, wire>>

\* The loop runs the callback a thread has left.
Wake ==
  /\ wakeup.asked
  /\ holder = "nobody"
  /\ wakeup' = [set |-> TRUE, asked |-> FALSE]
  /\ UNCHANGED <<sequence, subscribed, mailbox, publisher, pump, holder, wire>>

-----------------------------------------------------------------------------
(* Subscription.drain and the socket's _pump. *)

PumpGoes(at, batch, who) ==
  pump' = [at |-> at, batch |-> batch] /\ holder' = who

DrainTop ==
  /\ pump.at = "top"
  /\ holder \in {"nobody", "pump"}
  /\ IF mailbox.queue # <<>>
     THEN PumpGoes("clear", mailbox.queue, "pump") /\ UNCHANGED wakeup
     ELSE /\ wakeup' = [wakeup EXCEPT !.set = FALSE]
          /\ PumpGoes("recheck", <<>>, "pump")
  /\ UNCHANGED <<sequence, subscribed, mailbox, publisher, wire>>

\* The queue is emptied in a statement of its own.
DrainClear ==
  /\ pump.at = "clear"
  /\ mailbox' = [mailbox EXCEPT !.queue = <<>>]
  /\ PumpGoes("send", pump.batch, "nobody")
  /\ UNCHANGED <<sequence, subscribed, wakeup, publisher, wire>>

\* A publisher may have appended between the emptiness check and the clear.
DrainRecheck ==
  /\ pump.at = "recheck"
  /\ IF mailbox.queue # <<>> THEN PumpGoes("top", <<>>, "pump")
                             ELSE PumpGoes("wait", <<>>, "nobody")
  /\ UNCHANGED <<sequence, subscribed, mailbox, wakeup, publisher, wire>>

DrainWakes ==
  /\ pump.at = "wait"
  /\ wakeup.set
  /\ holder = "nobody"
  /\ PumpGoes("top", <<>>, "nobody")
  /\ UNCHANGED <<sequence, subscribed, mailbox, wakeup, publisher, wire>>

\* unsubscribe: delisted and closed, in the finally of the handler.
Hangup ==
  /\ subscribed' = FALSE
  /\ mailbox' = [mailbox EXCEPT !.closed = TRUE]
  /\ PumpGoes("gone", <<>>, holder)
  /\ UNCHANGED <<sequence, wakeup, publisher>>

\* The batch goes out; a subscription that has overflowed is then disconnected.
SendBatch ==
  /\ pump.at = "send"
  /\ holder = "nobody"
  /\ wire' = wire \o pump.batch
  /\ IF mailbox.overflowed THEN Hangup
     ELSE /\ PumpGoes("top", <<>>, "nobody")
          /\ UNCHANGED <<sequence, subscribed, mailbox, wakeup, publisher>>

\* The client goes away, noticed while waiting or while sending.
ClientGone ==
  /\ pump.at \in {"wait", "send"}
  /\ holder = "nobody"
  /\ Hangup
  /\ UNCHANGED wire

PumpStep == DrainTop \/ DrainClear \/ DrainRecheck \/ DrainWakes \/ SendBatch
PublisherStep(p) == Offer(p) \/ AppendFrame(p) \/ Notify(p)

BusNext ==
  \/ \E p \in Publishers : Publish(p) \/ PublisherStep(p)
  \/ Wake \/ PumpStep \/ ClientGone

BusSpec == BusInit /\ [][BusNext]_busVars
-----------------------------------------------------------------------------
Frames == 1..MaxFrames

BusTypeOK ==
  /\ sequence \in 0..MaxFrames
  /\ subscribed \in BOOLEAN
  /\ mailbox.queue \in Seq(Frames) /\ Len(mailbox.queue) <= Capacity
  /\ mailbox.dropped \in 0..MaxFrames
  /\ {mailbox.overflowed, mailbox.closed, wakeup.set, wakeup.asked} \subseteq BOOLEAN
  /\ publisher \in [Publishers -> [at : {"idle", "offer", "append", "notify"},
                                   frame : 0..MaxFrames]]
  /\ pump.at \in {"top", "clear", "recheck", "wait", "send", "gone"}
  /\ pump.batch \in Seq(Frames) /\ Len(pump.batch) <= Capacity
  /\ holder \in OnLoop \cup {"nobody", "pump"}
  /\ wire \in Seq(Frames)

\* With every publisher on the loop: whenever the loop awaits, each frame a client has
\* not been sent lies in its mailbox, is on its way to it or was counted in `dropped`,
\* and what it was sent is in publication order.
LossesAreCounted ==
  /\ subscribed /\ holder = "nobody"
       => sequence = Len(wire) + Len(pump.batch) + Len(mailbox.queue) + mailbox.dropped
  /\ \A i, j \in DOMAIN wire : i < j => wire[i] < wire[j]
  /\ pump.at = "wait" /\ mailbox.queue = <<>> /\ (\A p \in Publishers : publisher[p].at = "idle")
       => sequence = 0 \/ \E i \in DOMAIN wire : wire[i] = sequence

\* No wakeup is lost: what lies in the mailbox of a live client is taken out of it.
FramesMoveOn ==
  mailbox.queue # <<>> ~> (mailbox.queue = <<>> \/ pump.at = "gone")

\* The loop runs what is ready, threads finish their call, and the client takes what
\* it is sent; nobody has to publish and nobody has to go.
BusFairness == /\ WF_busVars(PumpStep) /\ WF_busVars(Wake)
               /\ \A p \in Publishers : WF_busVars(PublisherStep(p))
BusFairSpec == BusSpec /\ BusFairness
=============================================================================
