------------------------- MODULE SpfReportProofs -------------------------
(***************************************************************************)
(* Proofs about SpfReport: the Throttle Gate bounds the SPF reports per   *)
(* recipient and window for any number of sessions, recipients, windows  *)
(* and any rate.                                                           *)
(***************************************************************************)
EXTENDS SpfReport, FiniteSetTheorems, TLAPS

\* Every started call has a call number.
CallNumbered == \A s \in Session : pc[s] # "idle" => calls[s] \in 1..MaxCalls

\* The grants of a row are finite and bounded both by the row's count of
\* attempts and by the rate.
GrantsCounted ==
    \A r \in Rcpt, w \in Windows :
        /\ IsFiniteSet(Granted(r, w))
        /\ Cardinality(Granted(r, w)) <= counter[<<r, w>>]
        /\ Cardinality(Granted(r, w)) <= Rate

IInv == TypeOK /\ CallNumbered /\ GrantsCounted

\* A set inside a finite set with one element added is finite and has at
\* most one element more.
LEMMA SubsetAddOne ==
    ASSUME NEW A, NEW B, NEW x, IsFiniteSet(A), B \subseteq A \cup {x}
    PROVE  IsFiniteSet(B) /\ Cardinality(B) <= Cardinality(A) + 1
<1>a. /\ IsFiniteSet(A \cup {x})
      /\ Cardinality(A \cup {x}) =
            IF x \in A THEN Cardinality(A) ELSE Cardinality(A) + 1
    BY FS_AddElement
<1>b. Cardinality(A) \in Nat BY FS_CardinalityType
<1>1. IsFiniteSet(A \cup {x}) /\ Cardinality(A \cup {x}) <= Cardinality(A) + 1
    BY <1>a, <1>b
<1>2. IsFiniteSet(B) /\ Cardinality(B) <= Cardinality(A \cup {x})
    BY <1>1, FS_Subset
<1>3. Cardinality(B) \in Nat /\ Cardinality(A \cup {x}) \in Nat
    BY <1>1, <1>2, FS_CardinalityType
<1>. QED BY <1>1, <1>2, <1>3, <1>b

\* In the initial state nothing is granted.
LEMMA InitIInv == Init => IInv
<1> SUFFICES ASSUME Init PROVE IInv OBVIOUS
<1>1. TypeOK BY SpfReportAssumption DEF Init, TypeOK, Windows
<1>2. CallNumbered BY DEF Init, CallNumbered
<1>3. InFlight = {} BY DEF Init, InFlight
<1>4. \A r \in Rcpt, w \in Windows : Granted(r, w) = {} BY <1>3 DEF Init, Granted
<1>5. \A r \in Rcpt, w \in Windows : counter[<<r, w>>] = 0 BY DEF Init
<1>6. IsFiniteSet({}) /\ Cardinality({}) = 0 BY FS_EmptySet
<1>7. GrantsCounted
  <2> SUFFICES ASSUME NEW r \in Rcpt, NEW w \in Windows
               PROVE  /\ IsFiniteSet(Granted(r, w))
                      /\ Cardinality(Granted(r, w)) <= counter[<<r, w>>]
                      /\ Cardinality(Granted(r, w)) <= Rate
      BY DEF GrantsCounted
  <2>1. Granted(r, w) = {} /\ counter[<<r, w>>] = 0 BY <1>4, <1>5
  <2>. QED BY <2>1, <1>6, SpfReportAssumption
<1>. QED BY <1>1, <1>2, <1>7 DEF IInv

\* The sessions whose call passed the throttle and is not sent yet.
Busy == {x \in Session : pc[x] \in {"render", "send"}}

\* A step that keeps the queued and in-flight reports and does not lower a
\* counter keeps every row's grants counted.
LEMMA GrantsKept ==
    ASSUME TypeOK, TypeOK', GrantsCounted,
           queue' \cup InFlight' = queue \cup InFlight,
           \A r \in Rcpt, w \in Windows : counter[<<r, w>>] <= counter'[<<r, w>>]
    PROVE  GrantsCounted'
<1> SUFFICES ASSUME NEW r \in Rcpt, NEW w \in Windows
             PROVE  /\ IsFiniteSet(Granted(r, w)')
                    /\ Cardinality(Granted(r, w)') <= counter'[<<r, w>>]
                    /\ Cardinality(Granted(r, w)') <= Rate
    BY DEF GrantsCounted
<1>1. Granted(r, w)' = Granted(r, w) BY DEF Granted
<1>2. /\ IsFiniteSet(Granted(r, w))
      /\ Cardinality(Granted(r, w)) <= counter[<<r, w>>]
      /\ Cardinality(Granted(r, w)) <= Rate
    BY DEF GrantsCounted
<1>3. Cardinality(Granted(r, w)) \in Nat BY <1>2, FS_CardinalityType
<1>4. counter[<<r, w>>] \in Nat /\ counter'[<<r, w>>] \in Nat BY DEF TypeOK
<1>. QED BY <1>1, <1>2, <1>3, <1>4

\* A step that keeps the queued and in-flight reports and the counters
\* keeps every row's grants counted.
LEMMA GrantsSame ==
    ASSUME TypeOK, TypeOK', GrantsCounted,
           queue' \cup InFlight' = queue \cup InFlight,
           counter' = counter
    PROVE  GrantsCounted'
<1>1. \A r \in Rcpt, w \in Windows : counter[<<r, w>>] <= counter'[<<r, w>>]
    BY DEF TypeOK
<1>. QED BY <1>1, GrantsKept

\* A step that changes neither the calls' data nor who is busy keeps the
\* in-flight reports.
LEMMA InFlightKept ==
    ASSUME Busy' = Busy,
           \A x \in Busy : ReportOf(x)' = ReportOf(x)
    PROVE  InFlight' = InFlight
BY DEF InFlight, Busy

\* Each step of a session or of the clock keeps the invariant.
LEMMA NextIInv == IInv /\ [Next]_vars => IInv'
<1> SUFFICES ASSUME IInv, [Next]_vars PROVE IInv' OBVIOUS
<1>0. /\ TypeOK /\ CallNumbered /\ GrantsCounted
      /\ Rate \in Nat /\ MaxCalls \in Nat /\ MaxWindow \in Nat
    BY SpfReportAssumption DEF IInv
<1>1. CASE \E s \in Session, r \in Rcpt : Call(s, r)
  <2>1. PICK s \in Session, r \in Rcpt : Call(s, r) BY <1>1
  <2>2. TypeOK' BY <1>0, <2>1 DEF Call, TypeOK
  <2>3. CallNumbered' BY <1>0, <2>1 DEF Call, TypeOK, CallNumbered
  <2>4. Busy' = Busy BY <1>0, <2>1 DEF Call, TypeOK, Busy
  <2>5. \A x \in Busy : ReportOf(x)' = ReportOf(x)
      BY <1>0, <2>1 DEF Call, TypeOK, Busy, ReportOf
  <2>6. InFlight' = InFlight BY <2>4, <2>5, InFlightKept
  <2>7. queue' \cup InFlight' = queue \cup InFlight /\ counter' = counter
      BY <2>1, <2>6 DEF Call
  <2>8. GrantsCounted' BY <1>0, <2>2, <2>7, GrantsSame
  <2>. QED BY <2>2, <2>3, <2>8 DEF IInv
<1>2. CASE \E s \in Session : Render(s)
  <2>1. PICK s \in Session : Render(s) BY <1>2
  <2>2. TypeOK' BY <1>0, <2>1 DEF Render, TypeOK
  <2>3. CallNumbered' BY <1>0, <2>1 DEF Render, TypeOK, CallNumbered
  <2>4. Busy' = Busy BY <1>0, <2>1 DEF Render, TypeOK, Busy
  <2>5. \A x \in Busy : ReportOf(x)' = ReportOf(x) BY <2>1 DEF Render, ReportOf
  <2>6. InFlight' = InFlight BY <2>4, <2>5, InFlightKept
  <2>7. queue' \cup InFlight' = queue \cup InFlight /\ counter' = counter
      BY <2>1, <2>6 DEF Render
  <2>8. GrantsCounted' BY <1>0, <2>2, <2>7, GrantsSame
  <2>. QED BY <2>2, <2>3, <2>8 DEF IInv
<1>3. CASE \E s \in Session : Send(s)
  <2>1. PICK s \in Session : Send(s) BY <1>3
  <2>2. ReportOf(s) \in Report BY <1>0, <2>1 DEF Send, TypeOK, CallNumbered, ReportOf, Report
  <2>3. TypeOK' BY <1>0, <2>1, <2>2 DEF Send, TypeOK
  <2>4. CallNumbered' BY <1>0, <2>1 DEF Send, TypeOK, CallNumbered
  <2>5. Busy' = Busy \ {s} /\ s \in Busy BY <1>0, <2>1 DEF Send, TypeOK, Busy
  <2>6. \A x \in Session : ReportOf(x)' = ReportOf(x) BY <2>1 DEF Send, ReportOf
  <2>7. InFlight = InFlight' \cup {ReportOf(s)} BY <2>5, <2>6 DEF InFlight, Busy
  <2>8. queue' \cup InFlight' = queue \cup InFlight BY <2>1, <2>7 DEF Send
  <2>9. counter' = counter BY <2>1 DEF Send
  <2>10. GrantsCounted' BY <1>0, <2>3, <2>8, <2>9, GrantsSame
  <2>. QED BY <2>3, <2>4, <2>10 DEF IInv
<1>4. CASE Tick
  <2>1. TypeOK' BY <1>0, <1>4 DEF Tick, TypeOK, Windows
  <2>2. CallNumbered' BY <1>0, <1>4 DEF Tick, CallNumbered
  <2>3. InFlight' = InFlight BY <1>4 DEF Tick, InFlight, ReportOf
  <2>4. queue' \cup InFlight' = queue \cup InFlight /\ counter' = counter
      BY <1>4, <2>3 DEF Tick
  <2>5. GrantsCounted' BY <1>0, <2>1, <2>4, GrantsSame
  <2>. QED BY <2>1, <2>2, <2>5 DEF IInv
<1>5. CASE UNCHANGED vars
  <2>1. TypeOK' BY <1>0, <1>5 DEF vars, TypeOK
  <2>2. CallNumbered' BY <1>0, <1>5 DEF vars, CallNumbered
  <2>3. InFlight' = InFlight BY <1>5 DEF vars, InFlight, ReportOf
  <2>4. queue' \cup InFlight' = queue \cup InFlight /\ counter' = counter
      BY <1>5, <2>3 DEF vars
  <2>5. GrantsCounted' BY <1>0, <2>1, <2>4, GrantsSame
  <2>. QED BY <2>1, <2>2, <2>5 DEF IInv
<1>6. CASE \E s \in Session : Throttle(s)
  <2>1. PICK s \in Session : Throttle(s) BY <1>6
  <2>2. /\ rcpt[s] \in Rcpt /\ window \in Windows /\ pc[s] = "throttle"
        /\ counter[<<rcpt[s], window>>] \in Nat
        /\ counter' = [counter EXCEPT ![<<rcpt[s], window>>] = @ + 1]
        /\ queue' = queue /\ rcpt' = rcpt /\ calls' = calls /\ window' = window
    BY <1>0, <2>1 DEF Throttle, CounterIncr, TypeOK
  <2>3. \A r \in Rcpt, w \in Windows :
            counter'[<<r, w>>] = IF r = rcpt[s] /\ w = window
                                 THEN counter[<<r, w>>] + 1
                                 ELSE counter[<<r, w>>]
    BY <1>0, <2>2 DEF TypeOK
  <2>4. \A r \in Rcpt, w \in Windows : counter[<<r, w>>] <= counter'[<<r, w>>]
    <3> SUFFICES ASSUME NEW r \in Rcpt, NEW w \in Windows
                 PROVE  counter[<<r, w>>] <= counter'[<<r, w>>]
        OBVIOUS
    <3>1. counter[<<r, w>>] \in Nat BY <1>0 DEF TypeOK
    <3>. QED BY <2>3, <3>1
  <2>5. counter' \in [Rcpt \X Windows -> Nat] BY <1>0, <2>2 DEF TypeOK
  <2>6. CASE RateAllowed(rcpt[s])
    <3>1. pc' = [pc EXCEPT ![s] = "render"] /\ allowed_in' = [allowed_in EXCEPT ![s] = window]
        BY <2>1, <2>6 DEF Throttle
    <3>2. TypeOK' BY <1>0, <2>2, <2>5, <3>1 DEF TypeOK
    <3>3. CallNumbered' BY <1>0, <2>2, <3>1 DEF TypeOK, CallNumbered
    <3>4. Busy' = Busy \cup {s} BY <1>0, <2>2, <3>1 DEF TypeOK, Busy
    <3>5. \A x \in Busy : ReportOf(x)' = ReportOf(x)
        BY <1>0, <2>2, <3>1 DEF TypeOK, Busy, ReportOf
    <3>6. InFlight' = InFlight \cup {ReportOf(s)'} BY <3>4, <3>5 DEF InFlight, Busy
    <3>7. ReportOf(s)'.rcpt = rcpt[s] /\ ReportOf(s)'.window = window
        BY <1>0, <2>2, <3>1 DEF TypeOK, ReportOf
    <3>8. GrantsCounted'
      <4> SUFFICES ASSUME NEW r \in Rcpt, NEW w \in Windows
                   PROVE  /\ IsFiniteSet(Granted(r, w)')
                          /\ Cardinality(Granted(r, w)') <= counter'[<<r, w>>]
                          /\ Cardinality(Granted(r, w)') <= Rate
          BY DEF GrantsCounted
      <4>1. /\ IsFiniteSet(Granted(r, w))
            /\ Cardinality(Granted(r, w)) <= counter[<<r, w>>]
            /\ Cardinality(Granted(r, w)) <= Rate
          BY <1>0 DEF GrantsCounted
      <4>2. Cardinality(Granted(r, w)) \in Nat /\ counter[<<r, w>>] \in Nat
          BY <1>0, <4>1, FS_CardinalityType DEF TypeOK
      <4>3. CASE r = rcpt[s] /\ w = window
        <5>1. Granted(r, w)' \subseteq Granted(r, w) \cup {ReportOf(s)'}
            BY <2>2, <3>6 DEF Granted
        <5>2. IsFiniteSet(Granted(r, w)')
              /\ Cardinality(Granted(r, w)') <= Cardinality(Granted(r, w)) + 1
            BY <4>1, <5>1, SubsetAddOne
        <5>3. Cardinality(Granted(r, w)') \in Nat BY <5>2, FS_CardinalityType
        <5>4. counter'[<<r, w>>] = counter[<<r, w>>] + 1 BY <2>3, <4>3
        <5>5. counter[<<r, w>>] + 1 <= Rate BY <2>6, <4>3 DEF RateAllowed, AttemptCount
        <5>. QED BY <4>1, <4>2, <5>2, <5>3, <5>4, <5>5, <1>0
      <4>4. CASE ~(r = rcpt[s] /\ w = window)
        <5>1. Granted(r, w)' = Granted(r, w) BY <2>2, <3>6, <3>7, <4>4 DEF Granted
        <5>2. counter'[<<r, w>>] = counter[<<r, w>>] BY <2>3, <4>4
        <5>. QED BY <4>1, <5>1, <5>2
      <4>. QED BY <4>3, <4>4
    <3>. QED BY <3>2, <3>3, <3>8 DEF IInv
  <2>7. CASE ~RateAllowed(rcpt[s])
    <3>1. pc' = [pc EXCEPT ![s] = "idle"] /\ allowed_in' = allowed_in
        BY <2>1, <2>7 DEF Throttle
    <3>2. TypeOK' BY <1>0, <2>2, <2>5, <3>1 DEF TypeOK
    <3>3. CallNumbered' BY <1>0, <2>2, <3>1 DEF TypeOK, CallNumbered
    <3>4. Busy' = Busy BY <1>0, <2>2, <3>1 DEF TypeOK, Busy
    <3>5. \A x \in Busy : ReportOf(x)' = ReportOf(x) BY <2>2, <3>1 DEF ReportOf
    <3>6. InFlight' = InFlight BY <3>4, <3>5, InFlightKept
    <3>7. queue' \cup InFlight' = queue \cup InFlight BY <2>2, <3>6
    <3>8. GrantsCounted' BY <1>0, <2>4, <3>2, <3>7, GrantsKept
    <3>. QED BY <3>2, <3>3, <3>8 DEF IInv
  <2>. QED BY <2>6, <2>7
<1>. QED BY <1>1, <1>2, <1>3, <1>4, <1>5, <1>6 DEF Next, send_spf_report

\* The counted grants give the throttle bound.
LEMMA IInvBound == IInv => ThrottleBound
BY DEF IInv, GrantsCounted, ThrottleBound

\* send_spf_report never leaves a session, a counter or the queue outside
\* its type, for any sessions, recipients, rate and bounds.
THEOREM SpfTypeCorrect == Spec => []TypeOK
<1>1. Init => IInv BY InitIInv
<1>2. IInv /\ [Next]_vars => IInv' BY NextIInv
<1>3. IInv => TypeOK BY DEF IInv
<1>. QED BY <1>1, <1>2, <1>3, PTL DEF Spec

\* Throttle boundary of send_spf_report: for any number of concurrent
\* sessions and recipients and any rate, no recipient ever has more than
\* Rate SPF reports queued or in flight from one throttle window.
THEOREM ThrottleBounded == Spec => []ThrottleBound
<1>1. Init => IInv BY InitIInv
<1>2. IInv /\ [Next]_vars => IInv' BY NextIInv
<1>. QED BY <1>1, <1>2, IInvBound, PTL DEF Spec
=============================================================================
