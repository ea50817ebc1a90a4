-------------------------- MODULE DeliveryManager --------------------------
(***************************************************************************)
(* spawn_delivery_manager (jmap/src/services/delivery.rs): one tokio task  *)
(* that receives DeliveryEvents from a bounded mpsc channel, delivers each *)
(* Ingest by awaiting deliver_message and answers it on the event's        *)
(* oneshot, and breaks out of its loop on Stop, dropping the receiver.     *)
(*                                                                         *)
(* The senders are not under src/; they are modelled from the channel's    *)
(* contract (tokio::sync::mpsc and oneshot):                               *)
(*   - send().await waits while the channel holds Cap events, and fails    *)
(*     at once, or on waking, when the receiver has been dropped;          *)
(*   - dropping the receiver drops the events still queued, and with them  *)
(*     their oneshot senders, so those callers' result_rx.await fails;     *)
(*   - a caller's future may be dropped (its SMTP session ends) while it   *)
(*     sends or waits; result_tx.send then fails, which the .ok() ignores. *)
(* A message is a caller; deliver_message's own result (success, or a      *)
(* per-recipient failure) is the answer and is left out.                   *)
(***************************************************************************)
EXTENDS Naturals, Sequences, SequencesExt

CONSTANTS
    Callers,   \* the sessions that hand a message to the delivery manager
    Cap        \* the capacity of the delivery channel

\* The manager's states "recv" and "done" are not sessions.
ASSUME DeliveryManagerAssumption ==
    /\ Cap \in Nat \ {0}
    /\ Callers \cap {"recv", "done"} = {}

StopEvent == [kind |-> "stop"]
IngestOf(c) == [kind |-> "ingest", caller |-> c]
Event == {StopEvent} \cup {IngestOf(c) : c \in Callers}

VARIABLES
    chan,      \* the events in the channel, oldest first
    rx_open,   \* the receiver is alive
    mgr,       \* the manager: "recv", the caller being delivered, or "done"
    cs,        \* cs[c]: where caller c is
    stop_pc,   \* the Stop sender: "idle", "sending" or "sent"
    log,       \* history: every event that entered the channel, in order
    delivered  \* history: the callers whose message deliver_message ran for

vars == <<chan, rx_open, mgr, cs, stop_pc, log, delivered>>

Init ==
    /\ chan = <<>>
    /\ rx_open = TRUE
    /\ mgr = "recv"
    /\ cs = [c \in Callers |-> "idle"]
    /\ stop_pc = "idle"
    /\ log = <<>>
    /\ delivered = {}

-----------------------------------------------------------------------------
(* The senders, from the channel's contract.                               *)

\* A session builds DeliveryEvent::Ingest and calls send(...).await.
StartIngest(c) ==
    /\ cs[c] = "idle"
    /\ cs' = [cs EXCEPT ![c] = "sending"]
    /\ UNCHANGED <<chan, rx_open, mgr, stop_pc, log, delivered>>

\* Mutant: send does not wait for a free slot of the channel.
EnqueueUnbounded(e, ok) ==
    \/ /\ rx_open
       /\ chan' = Append(chan, e)
       /\ log' = Append(log, e)
       /\ ok
    \/ /\ ~rx_open
       /\ ~ok
       /\ UNCHANGED <<chan, log>>

\* send(e).await completes: the event is queued, or the receiver is gone
\* and the send fails. With a full channel and a live receiver it waits.
Enqueue(e, ok) ==
    \/ /\ rx_open
       /\ Len(chan) < Cap
       /\ chan' = Append(chan, e)
       /\ log' = Append(log, e)
       /\ ok
    \/ /\ ~rx_open
       /\ ~ok
       /\ UNCHANGED <<chan, log>>

SendIngest(c) ==
    /\ cs[c] = "sending"
    /\ \E ok \in BOOLEAN :
        /\ Enqueue(IngestOf(c), ok)
        /\ cs' = [cs EXCEPT ![c] = IF ok THEN "waiting" ELSE "err"]
    /\ UNCHANGED <<rx_open, mgr, stop_pc, delivered>>

\* The shutdown path sends DeliveryEvent::Stop.
StartStop ==
    /\ stop_pc = "idle"
    /\ stop_pc' = "sending"
    /\ UNCHANGED <<chan, rx_open, mgr, cs, log, delivered>>

SendStop ==
    /\ stop_pc = "sending"
    /\ \E ok \in BOOLEAN : Enqueue(StopEvent, ok)
    /\ stop_pc' = "sent"
    /\ UNCHANGED <<rx_open, mgr, cs, delivered>>

\* The caller's future is dropped while it sends or awaits its result.
Abandon(c) ==
    /\ cs[c] \in {"sending", "waiting"}
    /\ cs' = [cs EXCEPT ![c] = "gone"]
    /\ UNCHANGED <<chan, rx_open, mgr, stop_pc, log, delivered>>

-----------------------------------------------------------------------------
(* The manager task.                                                       *)

\* The callers whose result_rx.await fails because their event is dropped
\* with the receiver.
DropQueued ==
    [c \in Callers |->
        IF cs[c] = "waiting" /\ IngestOf(c) \in Range(chan) THEN "err" ELSE cs[c]]

\* Mutant: the event taken is the newest, not the oldest.
RecvNewest ==
    /\ mgr = "recv"
    /\ chan # <<>>
    /\ LET e == Last(chan) IN
       \/ /\ e.kind = "ingest"
          /\ mgr' = e.caller
          /\ chan' = Front(chan)
          /\ UNCHANGED <<rx_open, cs>>
       \/ /\ e.kind = "stop"
          /\ mgr' = "done"
          /\ rx_open' = FALSE
          /\ cs' = DropQueued
          /\ chan' = <<>>
    /\ UNCHANGED <<stop_pc, log, delivered>>

\* Mutant: on Stop the task ends but the receiver is kept alive elsewhere,
\* so the events behind Stop stay queued and unanswered.
RecvStopLeaks ==
    /\ mgr = "recv"
    /\ chan # <<>>
    /\ LET e == Head(chan) IN
       \/ /\ e.kind = "ingest"
          /\ mgr' = e.caller
          /\ chan' = Tail(chan)
          /\ UNCHANGED <<rx_open, cs>>
       \/ /\ e.kind = "stop"
          /\ mgr' = "done"
          /\ chan' = Tail(chan)
          /\ UNCHANGED <<rx_open, cs>>
    /\ UNCHANGED <<stop_pc, log, delivered>>

\* while let Some(event) = delivery_rx.recv().await { match event { ... } }:
\* an Ingest starts its delivery; Stop breaks the loop, and the task's end
\* drops delivery_rx with the events still queued.
Recv ==
    /\ mgr = "recv"
    /\ chan # <<>>
    /\ LET e == Head(chan) IN
       \/ /\ e.kind = "ingest"
          /\ mgr' = e.caller
          /\ chan' = Tail(chan)
          /\ UNCHANGED <<rx_open, cs>>
       \/ /\ e.kind = "stop"
          /\ mgr' = "done"
          /\ rx_open' = FALSE
          /\ cs' = DropQueued
          /\ chan' = <<>>
    /\ UNCHANGED <<stop_pc, log, delivered>>

\* result_tx.send(deliver_message(message).await).ok(): the answer reaches a
\* waiting caller; for a caller that is gone the error is ignored and the
\* loop goes on.
Deliver ==
    /\ mgr \in Callers
    /\ delivered' = delivered \cup {mgr}
    /\ cs' = IF cs[mgr] = "waiting" THEN [cs EXCEPT ![mgr] = "ok"] ELSE cs
    /\ mgr' = "recv"
    /\ UNCHANGED <<chan, rx_open, stop_pc, log>>

Manager == Recv \/ Deliver

Next ==
    \/ \E c \in Callers : StartIngest(c) \/ SendIngest(c) \/ Abandon(c)
    \/ StartStop \/ SendStop
    \/ Manager

\* The tokio runtime polls every ready task, and deliver_message ends: the
\* manager keeps going while it has work. A sender waiting on a full
\* channel is served in turn (tokio's mpsc queues waiting senders in order),
\* which strong fairness on its send stands for. Whether a session starts,
\* abandons, or a shutdown comes is not forced.
Fairness ==
    /\ WF_vars(Manager)
    /\ \A c \in Callers : SF_vars(SendIngest(c))
    /\ SF_vars(SendStop)

Spec == Init /\ [][Next]_vars /\ Fairness

-----------------------------------------------------------------------------
(* Properties                                                              *)

\* Every variable has its type; the channel never holds more than Cap.
TypeOK ==
    /\ chan \in Seq(Event) /\ Len(chan) <= Cap
    /\ rx_open \in BOOLEAN
    /\ mgr \in Callers \cup {"recv", "done"}
    /\ cs \in [Callers -> {"idle", "sending", "waiting", "ok", "err", "gone"}]
    /\ stop_pc \in {"idle", "sending", "sent"}
    /\ log \in Seq(Event)
    /\ delivered \subseteq Callers

\* The position of the Stop event in the channel's history, or one past its
\* end when Stop has not been sent.
StopPos ==
    IF \E i \in 1..Len(log) : log[i] = StopEvent
    THEN CHOOSE i \in 1..Len(log) : log[i] = StopEvent
    ELSE Len(log) + 1

\* Shutdown does not fail accepted work: however the sessions' sends, the
\* Stop and the manager's receives interleave on the bounded channel, a
\* message that entered the channel before Stop is delivered, and its
\* caller never gets an error; only those behind Stop are failed.
AcceptedBeforeStopDelivered ==
    \A i \in 1..(StopPos - 1) :
        /\ cs[log[i].caller] # "err"
        /\ ~rx_open => log[i].caller \in delivered

\* No session waits forever: a caller that is sending or awaiting its
\* result eventually has the answer, an error, or is gone, also when Stop
\* arrives with events queued behind it or senders waiting on a full
\* channel.
AnsweredEventually ==
    \A c \in Callers : cs[c] \in {"sending", "waiting"} ~> cs[c] \in {"ok", "err", "gone"}

=============================================================================
