----------------------- MODULE DeliveryManagerProofs -----------------------
(***************************************************************************)
(* Proofs about DeliveryManager: the channel never holds more than Cap     *)
(* events, and a message that entered the channel before Stop is          *)
(* delivered and never failed, for every set of sessions and every        *)
(* capacity.                                                               *)
(*                                                                         *)
(* The inductive invariant relates the channel to its history: while the  *)
(* receiver is alive the channel is the suffix of log that the manager has *)
(* not taken yet, every event taken before it was an Ingest that has been  *)
(* delivered (or is being delivered), and every event occurs in log at     *)
(* most once, because a session sends once and Stop is sent once.          *)
(***************************************************************************)
EXTENDS DeliveryManager, TLAPS

\* The number of events of log the manager has taken from the channel.
Taken == Len(log) - Len(chan)

\* Position i of log is before every Stop in log.
BeforeStop(i) == \A j \in 1..Len(log) : log[j] = StopEvent => i < j

\* No event enters the channel twice.
Unique == \A i, j \in 1..Len(log) : log[i] = log[j] => i = j

\* A session that has not finished its send has no event in log, and
\* neither has the Stop sender before its send.
NotSentYet ==
    /\ \A c \in Callers, i \in 1..Len(log) :
           cs[c] \in {"idle", "sending"} => log[i] # IngestOf(c)
    /\ stop_pc # "sent" => \A i \in 1..Len(log) : log[i] # StopEvent

\* While the receiver is alive the channel is the untaken suffix of log,
\* and every event taken was an Ingest whose caller is delivered or is
\* the one being delivered.
ChannelIsSuffix ==
    rx_open =>
        /\ Len(chan) <= Len(log)
        /\ \A k \in 1..Len(chan) : chan[k] = log[Taken + k]
        /\ \A i \in 1..Taken :
               /\ log[i] # StopEvent
               /\ log[i].caller \in delivered \cup {mgr}

\* Once the receiver is dropped the manager is done and the channel empty.
Dropped == ~rx_open => chan = <<>> /\ mgr = "done"

\* AcceptedBeforeStopDelivered, stated without StopPos.
Accepted ==
    \A i \in 1..Len(log) :
        BeforeStop(i) =>
            /\ cs[log[i].caller] # "err"
            /\ ~rx_open => log[i].caller \in delivered

IInv == TypeOK /\ Unique /\ NotSentYet /\ ChannelIsSuffix /\ Dropped /\ Accepted


USE DeliveryManagerAssumption

-----------------------------------------------------------------------------
(* The steps of the sessions and of the Stop sender.                       *)

LEMMA InitIInv == Init => IInv
BY DEF Init, IInv, TypeOK, Unique, NotSentYet, ChannelIsSuffix, Dropped,
       Accepted, Taken, BeforeStop

\* StartIngest and StartStop change only the senders' program counters.
LEMMA StartIngestIInv ==
    ASSUME IInv, NEW c \in Callers, StartIngest(c)
    PROVE  IInv'
<1>1. TypeOK' BY DEF IInv, TypeOK, StartIngest
<1>2. (Unique /\ ChannelIsSuffix /\ Dropped)'
      BY DEF IInv, StartIngest, Unique, ChannelIsSuffix, Dropped, Taken
<1>3. NotSentYet' BY DEF IInv, TypeOK, NotSentYet, StartIngest
<1>4. Accepted'
      BY DEF IInv, TypeOK, Accepted, BeforeStop, StartIngest, Event,
             StopEvent, IngestOf
<1>5. QED BY <1>1, <1>2, <1>3, <1>4 DEF IInv

LEMMA StartStopIInv ==
    ASSUME IInv, StartStop
    PROVE  IInv'
BY DEF IInv, TypeOK, Unique, NotSentYet, ChannelIsSuffix, Dropped,
       Accepted, Taken, BeforeStop, StartStop

\* Abandon turns a sending or waiting caller into "gone".
LEMMA AbandonIInv ==
    ASSUME IInv, NEW c \in Callers, Abandon(c)
    PROVE  IInv'
<1>1. TypeOK' BY DEF IInv, TypeOK, Abandon
<1>2. (Unique /\ ChannelIsSuffix /\ Dropped)'
      BY DEF IInv, Abandon, Unique, ChannelIsSuffix, Dropped, Taken
<1>3. NotSentYet' BY DEF IInv, TypeOK, NotSentYet, Abandon
<1>4. Accepted'
      BY DEF IInv, TypeOK, Accepted, BeforeStop, Abandon
<1>5. QED BY <1>1, <1>2, <1>3, <1>4 DEF IInv


\* An event that is not Stop is the Ingest of its caller.
LEMMA IngestOfCaller ==
    ASSUME NEW e \in Event, e # StopEvent
    PROVE  e.caller \in Callers /\ e = IngestOf(e.caller)
BY DEF Event, StopEvent, IngestOf

\* The Ingest of a session is never Stop, and tells its session apart.
LEMMA IngestDistinct ==
    ASSUME NEW c \in Callers, NEW d \in Callers
    PROVE  /\ IngestOf(c) # StopEvent
           /\ IngestOf(c) = IngestOf(d) => c = d
           /\ IngestOf(c) \in Event
BY DEF IngestOf, StopEvent, Event

LEMMA StopIsEvent == StopEvent \in Event
BY DEF StopEvent, Event

\* The caller of an event before every Stop is a session, and not c when
\* c's Ingest is not in log.
LEMMA CallerBeforeStop ==
    ASSUME TypeOK, NEW i \in 1..Len(log), BeforeStop(i)
    PROVE  /\ log[i] # StopEvent
           /\ log[i].caller \in Callers
           /\ \A c \in Callers : log[i] # IngestOf(c) => log[i].caller # c
<1>1. log[i] \in Event BY DEF TypeOK
<1>2. log[i] # StopEvent BY DEF BeforeStop
<1>3. QED BY <1>1, <1>2, IngestOfCaller

\* A successful send appends the event to the channel and to log: the
\* channel stays the untaken suffix, and no earlier position changes.
LEMMA AppendKeepsSuffix ==
    ASSUME TypeOK, ChannelIsSuffix, rx_open, rx_open', NEW e \in Event,
           chan' = Append(chan, e), log' = Append(log, e),
           UNCHANGED <<mgr, delivered>>
    PROVE  ChannelIsSuffix'
<1>1. chan \in Seq(Event) /\ log \in Seq(Event) BY DEF TypeOK
<1>2. Len(chan) <= Len(log) /\ \A k \in 1..Len(chan) : chan[k] = log[Taken + k]
      BY DEF ChannelIsSuffix
<1>3. /\ Len(log') = Len(log) + 1 /\ Len(chan') = Len(chan) + 1
      /\ \A k \in 1..Len(log) : log'[k] = log[k]
      /\ \A k \in 1..Len(chan) : chan'[k] = chan[k]
      /\ log'[Len(log) + 1] = e /\ chan'[Len(chan) + 1] = e
      BY <1>1
<1>4. Taken' = Taken /\ Taken \in 0..Len(log)
      BY <1>1, <1>2, <1>3 DEF Taken
<1>5. \A k \in 1..Len(chan') : chan'[k] = log'[Taken' + k]
  <2> SUFFICES ASSUME NEW k \in 1..Len(chan') PROVE chan'[k] = log'[Taken + k]
      BY <1>4
  <2>0. Len(chan) \in Nat /\ Len(log) \in Nat BY <1>1
  <2>1. CASE k \in 1..Len(chan)
    <3>1. Taken + k \in 1..Len(log) BY <2>0, <2>1, <1>2 DEF Taken
    <3>2. QED BY <2>1, <3>1, <1>2, <1>3
  <2>2. CASE k = Len(chan) + 1
    <3>1. Taken + k = Len(log) + 1 BY <2>0, <2>2 DEF Taken
    <3>2. chan'[k] = e /\ log'[Taken + k] = e BY <2>2, <3>1, <1>3
    <3>3. QED BY <3>2
  <2>3. k \in 1..Len(chan) \/ k = Len(chan) + 1 BY <2>0, <1>3
  <2>4. QED BY <2>1, <2>2, <2>3
<1>6. \A i \in 1..Taken' : log'[i] = log[i] /\ i \in 1..Taken
      BY <1>1, <1>3, <1>4
<1>7. Len(chan') <= Len(log') BY <1>1, <1>2, <1>3
<1>8. \A i \in 1..Taken' : log'[i] # StopEvent /\ log'[i].caller \in delivered' \cup {mgr'}
      BY <1>6 DEF ChannelIsSuffix
<1>9. QED BY <1>5, <1>7, <1>8 DEF ChannelIsSuffix

\* After a send appends e, a position before every Stop was before every
\* Stop already.
LEMMA AppendBeforeStop ==
    ASSUME TypeOK, NEW e \in Event, log' = Append(log, e),
           NEW i \in 1..Len(log), BeforeStop(i)'
    PROVE  BeforeStop(i)
BY DEF BeforeStop, TypeOK

LEMMA SendIngestIInv ==
    ASSUME IInv, NEW c \in Callers, SendIngest(c)
    PROVE  IInv'
<1> USE IngestDistinct
<1>1. PICK ok \in BOOLEAN :
        /\ Enqueue(IngestOf(c), ok)
        /\ cs' = [cs EXCEPT ![c] = IF ok THEN "waiting" ELSE "err"]
      BY DEF SendIngest
<1>2. /\ cs[c] = "sending"
      /\ UNCHANGED <<rx_open, mgr, stop_pc, delivered>>
      BY DEF SendIngest
<1>3. \A i \in 1..Len(log) : log[i] # IngestOf(c)
      BY <1>2 DEF IInv, NotSentYet
<1>4. TypeOK /\ Unique /\ NotSentYet /\ ChannelIsSuffix /\ Accepted
      BY DEF IInv
<1>5. CASE ok
  <2>1. /\ rx_open /\ Len(chan) < Cap
        /\ chan' = Append(chan, IngestOf(c)) /\ log' = Append(log, IngestOf(c))
        /\ cs' = [cs EXCEPT ![c] = "waiting"]
        BY <1>1, <1>5 DEF Enqueue
  <2>2. TypeOK'
        BY <2>1, <1>2, <1>4 DEF TypeOK
  <2>3. Unique'
        BY <2>1, <1>3, <1>4 DEF Unique, TypeOK
  <2>4. NotSentYet'
    <3>1. \A d \in Callers, i \in 1..Len(log') :
              cs'[d] \in {"idle", "sending"} => log'[i] # IngestOf(d)
          BY <2>1, <1>4, <2>2 DEF NotSentYet, TypeOK
    <3>2. stop_pc' # "sent" => \A i \in 1..Len(log') : log'[i] # StopEvent
          BY <2>1, <1>2, <1>4 DEF NotSentYet, TypeOK
    <3>3. QED BY <3>1, <3>2 DEF NotSentYet
  <2>5. ChannelIsSuffix'
        BY <2>1, <1>2, <1>4, AppendKeepsSuffix
  <2>6. Dropped' BY <2>1, <1>2 DEF Dropped
  <2>7. Accepted'
    <3> SUFFICES ASSUME NEW i \in 1..Len(log'), BeforeStop(i)'
                 PROVE  cs'[log'[i].caller] # "err"
        BY <2>1, <1>2 DEF Accepted
    <3>1. CASE i = Len(log) + 1
      <4>1. log'[i].caller = c BY <3>1, <2>1, <1>4 DEF TypeOK, IngestOf
      <4>2. QED BY <4>1, <2>1, <1>4 DEF TypeOK
    <3>2. CASE i \in 1..Len(log)
      <4>1. BeforeStop(i) BY <3>2, <2>1, <1>4, AppendBeforeStop
      <4>2. log'[i] = log[i] BY <3>2, <2>1, <1>4 DEF TypeOK
      <4>3. log[i].caller \in Callers /\ log[i].caller # c
            BY <3>2, <4>1, <1>3, <1>4, CallerBeforeStop
      <4>4. cs[log[i].caller] # "err" BY <3>2, <4>1, <1>4 DEF Accepted
      <4>5. QED BY <4>2, <4>3, <4>4, <2>1
    <3>3. QED BY <3>1, <3>2, <2>1, <1>4 DEF TypeOK
  <2>8. QED BY <2>2, <2>3, <2>4, <2>5, <2>6, <2>7 DEF IInv
<1>6. CASE ~ok
  <2>1. /\ ~rx_open /\ UNCHANGED <<chan, log>>
        /\ cs' = [cs EXCEPT ![c] = "err"]
        BY <1>1, <1>6 DEF Enqueue
  <2>2. TypeOK' BY <2>1, <1>2, <1>4 DEF TypeOK
  <2>3. (Unique /\ ChannelIsSuffix /\ Dropped)'
        BY <2>1, <1>2 DEF IInv, Unique, ChannelIsSuffix, Dropped, Taken
  <2>4. NotSentYet' BY <2>1, <1>2, <1>4 DEF NotSentYet, TypeOK
  <2>5. Accepted'
    <3> SUFFICES ASSUME NEW i \in 1..Len(log), BeforeStop(i)
                 PROVE  /\ cs'[log[i].caller] # "err"
                        /\ log[i].caller \in delivered
        BY <2>1, <1>2 DEF Accepted, BeforeStop
    <3>1. log[i].caller \in Callers /\ log[i].caller # c
          BY <1>3, <1>4, CallerBeforeStop
    <3>2. QED BY <3>1, <2>1, <1>4 DEF Accepted
  <2>6. QED BY <2>2, <2>3, <2>4, <2>5 DEF IInv
<1>7. QED BY <1>5, <1>6


LEMMA SendStopIInv ==
    ASSUME IInv, SendStop
    PROVE  IInv'
<1> USE IngestDistinct, StopIsEvent
<1>1. PICK ok \in BOOLEAN : Enqueue(StopEvent, ok) BY DEF SendStop
<1>2. /\ stop_pc = "sending" /\ stop_pc' = "sent"
      /\ UNCHANGED <<rx_open, mgr, cs, delivered>>
      BY DEF SendStop
<1>3. \A i \in 1..Len(log) : log[i] # StopEvent
      BY <1>2 DEF IInv, NotSentYet
<1>4. TypeOK /\ Unique /\ NotSentYet /\ ChannelIsSuffix /\ Accepted
      BY DEF IInv
<1>5. CASE ok
  <2>1. /\ rx_open /\ Len(chan) < Cap
        /\ chan' = Append(chan, StopEvent) /\ log' = Append(log, StopEvent)
        BY <1>1, <1>5 DEF Enqueue
  <2>2. TypeOK' BY <2>1, <1>2, <1>4 DEF TypeOK
  <2>3. Unique' BY <2>1, <1>3, <1>4 DEF Unique, TypeOK
  <2>4. NotSentYet'
    <3>1. \A d \in Callers, i \in 1..Len(log') :
              cs'[d] \in {"idle", "sending"} => log'[i] # IngestOf(d)
          BY <2>1, <1>2, <1>4 DEF NotSentYet, TypeOK
    <3>2. QED BY <3>1, <1>2 DEF NotSentYet
  <2>5. ChannelIsSuffix' BY <2>1, <1>2, <1>4, AppendKeepsSuffix
  <2>6. Dropped' BY <2>1, <1>2 DEF Dropped
  <2>7. Accepted'
    <3> SUFFICES ASSUME NEW i \in 1..Len(log'), BeforeStop(i)'
                 PROVE  cs'[log'[i].caller] # "err"
        BY <2>1, <1>2 DEF Accepted
    <3>1. i # Len(log) + 1 BY <2>1, <1>4 DEF BeforeStop, TypeOK
    <3>2. i \in 1..Len(log) BY <3>1, <2>1, <1>4 DEF TypeOK
    <3>3. BeforeStop(i) BY <3>2, <2>1, <1>4, AppendBeforeStop
    <3>4. log'[i] = log[i] BY <3>2, <2>1, <1>4 DEF TypeOK
    <3>5. QED BY <3>2, <3>3, <3>4, <1>2, <1>4 DEF Accepted
  <2>8. QED BY <2>2, <2>3, <2>4, <2>5, <2>6, <2>7 DEF IInv
<1>6. CASE ~ok
  <2>1. ~rx_open /\ UNCHANGED <<chan, log>> BY <1>1, <1>6 DEF Enqueue
  <2>2. QED BY <2>1, <1>2, <1>4
        DEF IInv, TypeOK, Unique, NotSentYet, ChannelIsSuffix, Dropped,
            Accepted, BeforeStop, Taken
<1>7. QED BY <1>5, <1>6

-----------------------------------------------------------------------------
(* The manager's steps.                                                    *)

\* The manager takes an Ingest: the taken prefix of log grows by the event,
\* whose caller becomes the one being delivered.
LEMMA RecvIngestIInv ==
    ASSUME IInv, Recv, Head(chan).kind = "ingest"
    PROVE  IInv'
<1>1. /\ mgr = "recv" /\ chan # <<>>
      /\ mgr' = Head(chan).caller /\ chan' = Tail(chan)
      /\ UNCHANGED <<rx_open, cs, stop_pc, log, delivered>>
      BY DEF Recv
<1>2. TypeOK /\ Unique /\ NotSentYet /\ ChannelIsSuffix /\ Accepted
      BY DEF IInv
<1>3. rx_open BY <1>1 DEF IInv, Dropped
<1>4. chan \in Seq(Event) /\ log \in Seq(Event) /\ Len(chan) \in Nat \ {0}
      BY <1>1, <1>2 DEF TypeOK
<1>5. Head(chan) \in Event /\ Head(chan) # StopEvent
      BY <1>4 DEF StopEvent
<1>6. Head(chan).caller \in Callers BY <1>5, IngestOfCaller
<1>7. TypeOK' BY <1>1, <1>2, <1>4, <1>6 DEF TypeOK
<1>8. Len(chan) <= Len(log) /\ \A k \in 1..Len(chan) : chan[k] = log[Taken + k]
      BY <1>2, <1>3 DEF ChannelIsSuffix
<1>9. Taken' = Taken + 1 /\ Taken \in 0..(Len(log) - 1)
      BY <1>1, <1>4, <1>8 DEF Taken
<1>10. \A k \in 1..Len(chan') : chan'[k] = log'[Taken' + k]
  <2> SUFFICES ASSUME NEW k \in 1..Len(chan') PROVE chan'[k] = log[Taken + 1 + k]
      BY <1>1, <1>9
  <2>1. k + 1 \in 1..Len(chan) /\ chan'[k] = chan[k + 1] BY <1>1, <1>4
  <2>2. QED BY <2>1, <1>8, <1>9
<1>11. \A i \in 1..Taken' : log'[i] # StopEvent /\ log'[i].caller \in delivered' \cup {mgr'}
  <2> SUFFICES ASSUME NEW i \in 1..Taken + 1
               PROVE  log[i] # StopEvent /\ log[i].caller \in delivered \cup {mgr'}
      BY <1>1, <1>9
  <2>1. CASE i = Taken + 1
    <3>1. log[i] = Head(chan) BY <2>1, <1>4, <1>8, <1>9
    <3>2. QED BY <3>1, <1>1, <1>5
  <2>2. CASE i \in 1..Taken
    <3>1. log[i] # StopEvent /\ log[i].caller \in delivered \cup {"recv"}
          BY <2>2, <1>1, <1>2, <1>3 DEF ChannelIsSuffix
    <3>2. log[i] \in Event BY <2>2, <1>4, <1>9
    <3>3. log[i].caller \in Callers BY <3>1, <3>2, IngestOfCaller
    <3>4. QED BY <3>1, <3>3, DeliveryManagerAssumption
  <2>3. QED BY <2>1, <2>2, <1>9
<1>12. ChannelIsSuffix'
       BY <1>1, <1>3, <1>4, <1>8, <1>10, <1>11 DEF ChannelIsSuffix, Taken
<1>13. (Unique /\ NotSentYet /\ Dropped /\ Accepted)'
       BY <1>1, <1>2, <1>3 DEF Unique, NotSentYet, Dropped, Accepted, BeforeStop
<1>14. QED BY <1>7, <1>12, <1>13 DEF IInv


\* The manager takes Stop: it is at position Taken + 1 of log and nowhere
\* else, so the events before it are the taken ones, all delivered; the
\* callers that DropQueued fails have their events behind it.
LEMMA RecvStopIInv ==
    ASSUME IInv, Recv, Head(chan).kind = "stop"
    PROVE  IInv'
<1>1. /\ mgr = "recv" /\ chan # <<>>
      /\ mgr' = "done" /\ rx_open' = FALSE /\ cs' = DropQueued /\ chan' = <<>>
      /\ UNCHANGED <<stop_pc, log, delivered>>
      BY DEF Recv
<1>2. TypeOK /\ Unique /\ NotSentYet /\ ChannelIsSuffix /\ Accepted
      BY DEF IInv
<1>3. rx_open BY <1>1 DEF IInv, Dropped
<1>4. chan \in Seq(Event) /\ log \in Seq(Event) /\ Len(chan) \in Nat \ {0}
      BY <1>1, <1>2 DEF TypeOK
<1>5. Len(chan) <= Len(log) /\ \A k \in 1..Len(chan) : chan[k] = log[Taken + k]
      BY <1>2, <1>3 DEF ChannelIsSuffix
<1>6. Taken \in 0..(Len(log) - 1) BY <1>4, <1>5 DEF Taken
<1>7. log[Taken + 1] = StopEvent
  <2>1. Head(chan) \in Event BY <1>4
  <2>2. Head(chan) = StopEvent BY <2>1 DEF Event, IngestOf, StopEvent
  <2>3. QED BY <2>2, <1>4, <1>5, <1>6
<1>8. cs' \in [Callers -> {"idle", "sending", "waiting", "ok", "err", "gone"}]
      /\ \A c \in Callers : cs'[c] = cs[c] \/ (cs'[c] = "err" /\ cs[c] = "waiting")
      BY <1>1, <1>2 DEF DropQueued, TypeOK
<1>9. TypeOK'
  <2>1. rx_open' \in BOOLEAN BY <1>1, Zenon
  <2>2. QED BY <2>1, <1>1, <1>2, <1>8 DEF TypeOK
<1>10. NotSentYet' BY <1>1, <1>2, <1>8 DEF NotSentYet
<1>11. (Unique /\ ChannelIsSuffix /\ Dropped)'
       BY <1>1, <1>2 DEF Unique, ChannelIsSuffix, Dropped
<1>12. Accepted'
  <2> SUFFICES ASSUME NEW i \in 1..Len(log), BeforeStop(i)
               PROVE  cs'[log[i].caller] # "err" /\ log[i].caller \in delivered
      BY <1>1 DEF Accepted, BeforeStop
  <2>1. i \in 1..Taken BY <1>6, <1>7 DEF BeforeStop
  <2>2. log[i] # StopEvent /\ log[i].caller \in delivered \cup {"recv"}
        BY <2>1, <1>1, <1>2, <1>3, <1>6 DEF ChannelIsSuffix
  <2>3. log[i].caller \in Callers /\ log[i] = IngestOf(log[i].caller)
        BY <2>2, <1>4, IngestOfCaller
  <2>4. log[i].caller \in delivered BY <2>2, <2>3, DeliveryManagerAssumption
  <2>5. IngestOf(log[i].caller) \notin Range(chan)
    <3> SUFFICES ASSUME NEW k \in 1..Len(chan), chan[k] = IngestOf(log[i].caller)
                 PROVE  FALSE
        BY <1>4 DEF Range
    <3>1. log[Taken + k] = log[i] BY <2>3, <1>5
    <3>2. Taken + k \in 1..Len(log) BY <1>4, <1>5, <1>6 DEF Taken
    <3>3. Taken + k = i BY <3>1, <3>2, <1>2 DEF Unique
    <3>4. QED BY <3>3, <2>1, <1>6
  <2>6. cs'[log[i].caller] = cs[log[i].caller]
        BY <2>3, <2>5, <1>1 DEF DropQueued
  <2>7. cs[log[i].caller] # "err" BY <1>2 DEF Accepted
  <2>8. QED BY <2>4, <2>6, <2>7
<1>13. QED BY <1>9, <1>10, <1>11, <1>12 DEF IInv

\* Deliver answers the caller being delivered and records it.
LEMMA DeliverIInv ==
    ASSUME IInv, Deliver
    PROVE  IInv'
<1>1. /\ mgr \in Callers /\ delivered' = delivered \cup {mgr} /\ mgr' = "recv"
      /\ cs' = IF cs[mgr] = "waiting" THEN [cs EXCEPT ![mgr] = "ok"] ELSE cs
      /\ UNCHANGED <<chan, rx_open, stop_pc, log>>
      BY DEF Deliver
<1>2. TypeOK /\ Unique /\ NotSentYet /\ ChannelIsSuffix /\ Accepted
      BY DEF IInv
<1>3. rx_open BY <1>1, DeliveryManagerAssumption DEF IInv, Dropped
<1>4. /\ cs' \in [Callers -> {"idle", "sending", "waiting", "ok", "err", "gone"}]
      /\ \A c \in Callers : cs'[c] = cs[c] \/ (cs'[c] = "ok" /\ cs[c] = "waiting")
      BY <1>1, <1>2 DEF TypeOK
<1>5. TypeOK' BY <1>1, <1>2, <1>4 DEF TypeOK
<1>6. NotSentYet' BY <1>1, <1>2, <1>4 DEF NotSentYet
<1>7. ChannelIsSuffix' BY <1>1, <1>2, <1>3 DEF ChannelIsSuffix, Taken
<1>8. (Unique /\ Dropped)' BY <1>1, <1>3 DEF IInv, Unique, Dropped
<1>9. Accepted'
  <2> SUFFICES ASSUME NEW i \in 1..Len(log), BeforeStop(i)
               PROVE  cs'[log[i].caller] # "err"
      BY <1>1, <1>3 DEF Accepted, BeforeStop
  <2>1. log[i].caller \in Callers BY <1>2, CallerBeforeStop
  <2>2. QED BY <2>1, <1>2, <1>4 DEF Accepted
<1>10. QED BY <1>5, <1>6, <1>7, <1>8, <1>9 DEF IInv


-----------------------------------------------------------------------------
(* The invariant is inductive, and gives the properties of the runs.       *)

LEMMA NextIInv == IInv /\ [Next]_vars => IInv'
<1> SUFFICES ASSUME IInv, [Next]_vars PROVE IInv' OBVIOUS
<1>1. CASE \E c \in Callers : StartIngest(c) \/ SendIngest(c) \/ Abandon(c)
      BY <1>1, StartIngestIInv, SendIngestIInv, AbandonIInv
<1>2. CASE StartStop BY <1>2, StartStopIInv
<1>3. CASE SendStop BY <1>3, SendStopIInv
<1>4. CASE Recv
  <2>1. Head(chan).kind = "ingest" \/ Head(chan).kind = "stop" BY <1>4 DEF Recv
  <2>2. QED BY <1>4, <2>1, RecvIngestIInv, RecvStopIInv
<1>5. CASE Deliver BY <1>5, DeliverIInv
<1>6. CASE UNCHANGED vars
      BY <1>6 DEF vars, IInv, TypeOK, Unique, NotSentYet, ChannelIsSuffix,
                  Dropped, Accepted, BeforeStop, Taken
<1>7. QED BY <1>1, <1>2, <1>3, <1>4, <1>5, <1>6 DEF Next, Manager

\* Accepted is AcceptedBeforeStopDelivered once Stop has one position.
LEMMA IInvAccepted == IInv => AcceptedBeforeStopDelivered
<1> SUFFICES ASSUME IInv, NEW i \in 1..(StopPos - 1)
             PROVE  /\ cs[log[i].caller] # "err"
                    /\ ~rx_open => log[i].caller \in delivered
    BY DEF AcceptedBeforeStopDelivered
<1>1. log \in Seq(Event) BY DEF IInv, TypeOK
<1>2. i \in 1..Len(log) /\ BeforeStop(i)
  <2>1. CASE \E j \in 1..Len(log) : log[j] = StopEvent
    <3>1. PICK p \in 1..Len(log) : p = StopPos /\ log[p] = StopEvent
          BY <2>1 DEF StopPos
    <3>2. \A j \in 1..Len(log) : log[j] = StopEvent => j = p
          BY <3>1 DEF IInv, Unique
    <3>3. QED BY <3>1, <3>2, <1>1 DEF BeforeStop
  <2>2. CASE ~\E j \in 1..Len(log) : log[j] = StopEvent
    <3>1. StopPos = Len(log) + 1 BY <2>2 DEF StopPos
    <3>2. QED BY <3>1, <2>2, <1>1 DEF BeforeStop
  <2>3. QED BY <2>1, <2>2
<1>3. QED BY <1>2 DEF IInv, Accepted

\* The delivery channel never holds more than Cap events, and every
\* variable keeps its type, for any sessions and any capacity.
THEOREM TypeOKHolds == Spec => []TypeOK
<1>1. Init => IInv BY InitIInv
<1>2. IInv /\ [Next]_vars => IInv' BY NextIInv
<1>3. IInv => TypeOK BY DEF IInv
<1>4. QED BY <1>1, <1>2, <1>3, PTL DEF Spec

\* Shutdown never fails accepted work: for any sessions and capacity, a
\* message that entered the channel before Stop is never answered with an
\* error, and is delivered once the receiver is dropped.
THEOREM AcceptedBeforeStopDeliveredHolds == Spec => []AcceptedBeforeStopDelivered
<1>1. Init => IInv BY InitIInv
<1>2. IInv /\ [Next]_vars => IInv' BY NextIInv
<1>3. IInv => AcceptedBeforeStopDelivered BY IInvAccepted
<1>4. QED BY <1>1, <1>2, <1>3, PTL DEF Spec

=============================================================================
