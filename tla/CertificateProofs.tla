--------------------------- MODULE CertificateProofs ---------------------------
(* Proofs about Certificate, for any periods that leave room for Retries.  *)
EXTENDS Certificate, TLAPS

\* One more failure costs one more period.
LEMMA Period == ASSUME NEW n \in Nat PROVE (n + 2) * RenewEvery = (n + 1) * RenewEvery + RenewEvery
  BY PeriodsAssumption, SMT

LEMMA Periods == ASSUME NEW n \in 0..Retries
                 PROVE (n + 1) * RenewEvery <= (Retries + 1) * RenewEvery
  BY PeriodsAssumption, SMT

LEMMA InitIInv == Init => IInv
  BY PeriodsAssumption, SMT DEF Init, IInv, TypeOK, OnDisk, Served

LEMMA TypeStep == TypeOK /\ [Next]_vars => TypeOK'
<1> SUFFICES ASSUME TypeOK, [Next]_vars PROVE TypeOK'
  OBVIOUS
<1> USE PeriodsAssumption DEF TypeOK, Renewed
<1>1. CASE Tick
  BY <1>1, SMT DEF Tick, After
<1>2. CASE Renew
  BY <1>2, SMT DEF Renew
<1>3. CASE Reload
  BY <1>3, SMT DEF Reload, Read
<1>4. CASE Deploy
  BY <1>4, SMT DEF Deploy
<1>5. CASE CertbotRestarts
  BY <1>5, SMT DEF CertbotRestarts
<1>6. CASE NginxRestarts
  BY <1>6, SMT DEF NginxRestarts
<1>7. CASE UNCHANGED vars
  BY <1>7, SMT DEF vars
<1>q. QED
  BY <1>1, <1>2, <1>3, <1>4, <1>5, <1>6, <1>7 DEF Next

\* A renewal starts from an attempt at certbotIn = 0; each failure moves the
\* bound by the period until the next one.
LEMMA DiskStep == IInv /\ [Next]_vars => OnDisk'
<1> SUFFICES ASSUME TypeOK, OnDisk, [Next]_vars PROVE OnDisk'
  BY DEF IInv
<1> USE PeriodsAssumption DEF TypeOK, OnDisk, Renewed
<1>0. (failures + 1) * RenewEvery \in Nat /\ (failures + 1) * RenewEvery >= RenewEvery
      /\ (failures + 2) * RenewEvery = (failures + 1) * RenewEvery + RenewEvery
  BY Period, SMT
<1>b. (failures + 1) * RenewEvery <= (Retries + 1) * RenewEvery
  BY Periods
<1>1. CASE Tick
  BY <1>0, <1>b, <1>1, SMT DEF Tick, After
<1>2. CASE Renew
  <2>1. CASE failures' = 0 /\ left' > Window /\ certbotIn' = RenewEvery
    BY <2>1, SMT
  <2>2. CASE failures' = failures + 1 /\ left' = left /\ certbotIn = 0 /\ certbotIn' = RenewEvery
    <3>1. (failures' + 1) * RenewEvery = (failures + 2) * RenewEvery
      BY <2>2, SMT
    <3>q. QED
      BY <1>0, <2>2, <3>1, SMT
  <2>q. QED
    BY <1>2, <2>1, <2>2, SMT DEF Renew
<1>3. CASE Reload
  BY <1>3, SMT DEF Reload
<1>4. CASE Deploy
  BY <1>0, <1>4, SMT DEF Deploy
<1>5. CASE CertbotRestarts
  BY <1>0, <1>5, SMT DEF CertbotRestarts
<1>6. CASE NginxRestarts
  BY <1>6, SMT DEF NginxRestarts
<1>7. CASE UNCHANGED vars
  BY <1>7, SMT DEF vars
<1>q. QED
  BY <1>1, <1>2, <1>3, <1>4, <1>5, <1>6, <1>7 DEF Next

\* What nginx serves falls behind only when the volume gets a new certificate,
\* and catches up within one of its periods.
LEMMA ServedStep == IInv /\ [Next]_vars => Served'
<1> SUFFICES ASSUME TypeOK, OnDisk, Served, [Next]_vars PROVE Served'
  BY DEF IInv
<1> DEFINE all == (Retries + 1) * RenewEvery
           some == (failures + 1) * RenewEvery
<1>0. all \in Nat /\ some \in Nat /\ some <= all /\ all + ReloadEvery <= Window
  BY PeriodsAssumption, Periods, SMT DEF TypeOK
<1>a. left > Window - some + certbotIn
  BY DEF OnDisk
<1>b. loaded = left \/ loaded > Window - all - ReloadEvery + reloadIn
  BY DEF Served
<1> SUFFICES loaded' = left' \/ loaded' > Window - all - ReloadEvery + reloadIn'
  BY DEF Served
<1> HIDE DEF all, some
<1> USE PeriodsAssumption DEF TypeOK, Renewed
<1>1. CASE Tick
  BY <1>0, <1>b, <1>1, SMT DEF Tick, After
<1>2. CASE Renew
  BY <1>0, <1>a, <1>b, <1>2, SMT DEF Renew
<1>3. CASE Reload
  BY <1>3, SMT DEF Reload, Read
<1>4. CASE Deploy
  BY <1>4, SMT DEF Deploy
<1>5. CASE CertbotRestarts
  BY <1>b, <1>5, SMT DEF CertbotRestarts
<1>6. CASE NginxRestarts
  BY <1>6, SMT DEF NginxRestarts
<1>7. CASE UNCHANGED vars
  BY <1>b, <1>7, SMT DEF vars
<1>q. QED
  BY <1>1, <1>2, <1>3, <1>4, <1>5, <1>6, <1>7 DEF Next

-----------------------------------------------------------------------------
(* The invariant holds in every reachable state.                           *)
THEOREM Invariance == Spec => []IInv
<1>1. IInv /\ [Next]_vars => IInv'
  BY TypeStep, DiskStep, ServedStep DEF IInv
<1>q. QED
  BY InitIInv, <1>1, PTL DEF Spec

(* The times are within their periods.                                     *)
THEOREM TypeCorrect == Spec => []TypeOK
<1>1. IInv => TypeOK
  BY DEF IInv
<1>q. QED
  BY Invariance, <1>1, PTL

(* nginx never serves an expired certificate, for any periods with         *)
(* (Retries + 1) * RenewEvery + ReloadEvery <= Window.                     *)
THEOREM CertificateServed == Spec => []ServedIsValid
<1>1. ASSUME IInv PROVE ServedIsValid
  <2> DEFINE all == (Retries + 1) * RenewEvery
             some == (failures + 1) * RenewEvery
  <2>1. all \in Nat /\ some \in Nat /\ some <= all /\ all + ReloadEvery <= Window
    BY <1>1, PeriodsAssumption, Periods, SMT DEF IInv, TypeOK
  <2>2. left > Window - some + certbotIn
    BY <1>1 DEF IInv, OnDisk
  <2>3. loaded = left \/ loaded > Window - all - ReloadEvery + reloadIn
    BY <1>1 DEF IInv, Served
  <2> HIDE DEF all, some
  <2>q. QED
    BY <1>1, <2>1, <2>2, <2>3, PeriodsAssumption, SMT DEF IInv, TypeOK, ServedIsValid
<1>q. QED
  BY Invariance, <1>1, PTL
=============================================================================
