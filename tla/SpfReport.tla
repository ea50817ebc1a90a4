--------------------------- MODULE SpfReport ---------------------------
(***************************************************************************)
(* Session::send_spf_report (smtp/src/reporting/spf.rs), called by         *)
(* concurrent SMTP sessions that share the Throttle Gate's counters.       *)
(*                                                                         *)
(* A call is three steps of the code, separated by its awaits:             *)
(*   Throttle  the throttle_rcpt check; a denied call returns (line 39-48) *)
(*   Render    the three eval_if awaits and write_rfc5322 (lines 51-97)    *)
(*   Send      send_report puts the message on the outbound queue (109-118)*)
(* Other sessions run between any two of them.                             *)
(*                                                                         *)
(* throttle_rcpt is not under src/. It is written from the spec's Throttle *)
(* Gate (spec section 3, ThrottleCounter, and section 4.1): a fixed-window *)
(* counter per recipient, incremented atomically by the store on every     *)
(* attempt, allowing the attempt when the count it reaches is at most the *)
(* rate. Windows are numbered; Tick starts the next one, so the rows of    *)
(* earlier windows are the expired ones.                                   *)
(*                                                                         *)
(* The data of a report (address, name, subject, the SPF result) is left   *)
(* out: a queued report is the session, its call number, the recipient and *)
(* the window its throttle check ran in. write_rfc5322 writes into a Vec,  *)
(* which cannot fail, so the .ok() at line 97 discards nothing.            *)
(***************************************************************************)
EXTENDS Naturals, FiniteSets

CONSTANTS
    Session,    \* the SMTP sessions that may call send_spf_report
    Rcpt,       \* the recipients a report may be addressed to
    Rate,       \* rate.requests: reports allowed per recipient and window
    MaxWindow,  \* the last window the model reaches
    MaxCalls    \* the calls each session makes at most

ASSUME SpfReportAssumption ==
    /\ Rate \in Nat
    /\ MaxWindow \in Nat
    /\ MaxCalls \in Nat
    /\ Rcpt # {}

VARIABLES
    pc,         \* pc[s]: where session s is in its current call
    rcpt,       \* rcpt[s]: the rcpt argument of that call
    calls,      \* calls[s]: the number of calls session s has started
    allowed_in, \* allowed_in[s]: the window in which the call was allowed
    counter,    \* the Throttle Gate's rows: counter[<<r, w>>] attempts for r in w
    window,     \* the current throttle window
    queue       \* the outbound queue: the reports sent so far

vars == <<pc, rcpt, calls, allowed_in, counter, window, queue>>

Windows == 0..MaxWindow

Report == [session: Session, call: 1..MaxCalls, rcpt: Rcpt, window: Windows]

-----------------------------------------------------------------------------
(* The Throttle Gate, from the spec.                                       *)

\* The count the row of r in the current window reaches with this attempt.
AttemptCount(r) == counter[<<r, window>>] + 1

\* The store's atomic increment of that row.
CounterIncr(r) == [counter EXCEPT ![<<r, window>>] = @ + 1]

\* allow(): the attempt is allowed when the count it reaches is within rate.
RateAllowed(r) == AttemptCount(r) <= Rate

\* The report session s's call puts on the queue: it is addressed to the
\* call's recipient and counted in the window its throttle check ran in.
ReportOf(s) ==
    [session |-> s, call |-> calls[s], rcpt |-> rcpt[s], window |-> allowed_in[s]]

-----------------------------------------------------------------------------

Init ==
    /\ pc = [s \in Session |-> "idle"]
    /\ rcpt \in [Session -> Rcpt]
    /\ calls = [s \in Session |-> 0]
    /\ allowed_in = [s \in Session |-> 0]
    /\ counter = [k \in Rcpt \X Windows |-> 0]
    /\ window = 0
    /\ queue = {}

\* A session's SPF check fails and it calls send_spf_report(r, ...).
Call(s, r) ==
    /\ pc[s] = "idle"
    /\ calls[s] < MaxCalls
    /\ pc' = [pc EXCEPT ![s] = "throttle"]
    /\ rcpt' = [rcpt EXCEPT ![s] = r]
    /\ calls' = [calls EXCEPT ![s] = @ + 1]
    /\ UNCHANGED <<allowed_in, counter, window, queue>>

\* Mutant: the throttled branch logs but does not return.
ThrottleNoReturn(s) ==
    /\ pc[s] = "throttle"
    /\ counter' = CounterIncr(rcpt[s])
    /\ pc' = [pc EXCEPT ![s] = "render"]
    /\ allowed_in' = [allowed_in EXCEPT ![s] = window]
    /\ UNCHANGED <<rcpt, calls, window, queue>>

\* if !self.throttle_rcpt(rcpt, rate, "spf").await { ...; return; }
Throttle(s) ==
    /\ pc[s] = "throttle"
    /\ counter' = CounterIncr(rcpt[s])
    /\ \/ /\ RateAllowed(rcpt[s])
          /\ pc' = [pc EXCEPT ![s] = "render"]
          /\ allowed_in' = [allowed_in EXCEPT ![s] = window]
       \/ /\ ~RateAllowed(rcpt[s])
          /\ pc' = [pc EXCEPT ![s] = "idle"]
          /\ UNCHANGED allowed_in
    /\ UNCHANGED <<rcpt, calls, window, queue>>

\* from_addr, name and subject are evaluated and the report is written.
Render(s) ==
    /\ pc[s] = "render"
    /\ pc' = [pc EXCEPT ![s] = "send"]
    /\ UNCHANGED <<rcpt, calls, allowed_in, counter, window, queue>>

\* Mutant: sending releases a slot of the current window's row, as a
\* concurrency limiter would, instead of leaving the rate counter alone.
SendReleasing(s) ==
    /\ pc[s] = "send"
    /\ queue' = queue \cup {ReportOf(s)}
    /\ counter' = [counter EXCEPT ![<<rcpt[s], window>>] = @ - 1]
    /\ pc' = [pc EXCEPT ![s] = "idle"]
    /\ UNCHANGED <<rcpt, calls, allowed_in, window>>

\* self.core.send_report(&from_addr, [rcpt], report, ...).await
Send(s) ==
    /\ pc[s] = "send"
    /\ queue' = queue \cup {ReportOf(s)}
    /\ pc' = [pc EXCEPT ![s] = "idle"]
    /\ UNCHANGED <<rcpt, calls, allowed_in, counter, window>>

\* The current throttle window elapses; its rows expire.
Tick ==
    /\ window < MaxWindow
    /\ window' = window + 1
    /\ UNCHANGED <<pc, rcpt, calls, allowed_in, counter, queue>>

send_spf_report(s) == Throttle(s) \/ Render(s) \/ Send(s)

Next ==
    \/ \E s \in Session, r \in Rcpt : Call(s, r)
    \/ \E s \in Session : send_spf_report(s)
    \/ Tick

Spec == Init /\ [][Next]_vars

-----------------------------------------------------------------------------
(* Properties                                                              *)

\* Every variable has its type; the counters are natural numbers.
TypeOK ==
    /\ pc \in [Session -> {"idle", "throttle", "render", "send"}]
    /\ rcpt \in [Session -> Rcpt]
    /\ calls \in [Session -> 0..MaxCalls]
    /\ allowed_in \in [Session -> Windows]
    /\ counter \in [Rcpt \X Windows -> Nat]
    /\ window \in Windows
    /\ queue \subseteq Report

\* The reports of the calls that passed throttle_rcpt and have not been
\* sent yet.
InFlight == {ReportOf(s) : s \in {x \in Session : pc[x] \in {"render", "send"}}}

\* The reports for recipient r whose throttle check passed in window w:
\* those queued and those still rendering or sending.
Granted(r, w) == {q \in queue \cup InFlight : q.rcpt = r /\ q.window = w}

\* Throttle boundary: however the sessions' throttle checks, renders and
\* sends interleave, no recipient gets more than Rate SPF reports granted
\* in one window, counting the calls that passed throttle_rcpt and have
\* not queued their report yet.
ThrottleBound ==
    \A r \in Rcpt, w \in Windows : Cardinality(Granted(r, w)) <= Rate

=============================================================================
