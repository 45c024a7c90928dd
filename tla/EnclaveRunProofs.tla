--------------------------- MODULE EnclaveRunProofs ---------------------------
(***************************************************************************)
(* Theorems about EnclaveRun, for any services, lives of credentials and   *)
(* faults: whatever fails, no call arrives with expired credentials.       *)
(***************************************************************************)
EXTENDS EnclaveRun, TLAPS

\* A call was signed with credentials that had more left than a call takes.
SignedInTime ==
  \A p \in Ports : call[p] \in {"connect", "sent"} => left[p] > MaxCall

RunInv == TypeOK /\ SignedInTime

LEMMA Zeros == 0 \in 0..Life /\ 0 \in 0..MaxCall /\ 0 \in 0..MaxFaults
  BY RunAssumption

LEMMA RunInit == Init => RunInv
  BY Zeros DEF Init, RunInv, TypeOK, SignedInTime

LEMMA ExitStep ==
  ASSUME Exit, parent' \in {"up", "down"}, faults' \in 0..MaxFaults PROVE RunInv'
  BY Zeros DEF Exit, RunInv, TypeOK, SignedInTime

LEMMA SignStep ==
  ASSUME RunInv, NEW p \in Ports, NEW ticks \in (MaxCall + 1)..Life, Sign(p, ticks),
         token, life' \in 0..Life,
         UNCHANGED <<proc, listener, bridge, parent, token, answer, faults>>
  PROVE  RunInv'
  BY RunAssumption DEF Sign, RunInv, TypeOK, SignedInTime

LEMMA EndStep ==
  ASSUME RunInv, NEW p \in Ports, NEW result \in {"ok", "error"}, EndCall(p, result)
  PROVE  RunInv'
  BY RunAssumption DEF EndCall, RunInv, TypeOK, SignedInTime

LEMMA RunStep == RunInv /\ [Next]_vars => RunInv'
  <1> SUFFICES ASSUME RunInv, [Next]_vars PROVE RunInv'
    OBVIOUS
  <1>1. CASE Boot
    BY <1>1 DEF Boot, Bound, callVars, RunInv, TypeOK, SignedInTime
  <1>2. CASE PreWarm
    BY <1>2 DEF PreWarm, Booting, callVars, RunInv, TypeOK, SignedInTime
  <1>3. CASE BootFails
    BY <1>3, ExitStep DEF BootFails, RunInv, TypeOK
  <1>4. ASSUME NEW p \in Ports, BeginCall(p) PROVE RunInv'
    BY <1>4 DEF BeginCall, RunInv, TypeOK, SignedInTime
  <1>5. ASSUME NEW p \in Ports, UseCached(p) PROVE RunInv'
    <2>1. life \in (MaxCall + 1)..Life /\ token
      BY <1>5, RunAssumption DEF UseCached, Fresh, RunInv, TypeOK
    <2> QED BY <1>5, <2>1, SignStep DEF UseCached, RunInv, TypeOK
  <1>6. ASSUME NEW p \in Ports, Refresh(p) PROVE RunInv'
    <2>1. PICK ticks \in Least..Life : life' = ticks /\ Sign(p, ticks)
      BY <1>6 DEF Refresh
    <2>2. ticks \in (MaxCall + 1)..Life /\ life' \in 0..Life /\ token
      BY <1>6, <2>1, RunAssumption DEF Refresh, RunInv, TypeOK
    <2> QED BY <1>6, <2>1, <2>2, SignStep DEF Refresh
  <1>7. ASSUME NEW p \in Ports,
               RefreshFails(p) \/ ConnectFails(p) \/ Answered(p) \/ Cut(p)
        PROVE  RunInv'
    BY <1>7, EndStep DEF RefreshFails, ConnectFails, Answered, Cut
  <1>8. ASSUME NEW p \in Ports, Connect(p) PROVE RunInv'
    BY <1>8 DEF Connect, RunInv, TypeOK, SignedInTime
  <1>9. ASSUME NEW p \in Ports, BridgeDies(p) PROVE RunInv'
    BY <1>9, RunAssumption DEF BridgeDies, Fault, callVars, RunInv, TypeOK, SignedInTime
  <1>10. CASE Tick
    <2>1. life' \in 0..Life
      BY <1>10, RunAssumption DEF Tick, RunInv, TypeOK
    <2>2. age' \in [Ports -> 0..MaxCall]
      BY <1>10, RunAssumption DEF Tick, RunInv, TypeOK
    <2> QED BY <1>10, <2>1, <2>2 DEF Tick, RunInv, TypeOK, SignedInTime
  <1>11. CASE ParentGoes \/ ParentReturns
    BY <1>11, RunAssumption
       DEF ParentGoes, ParentReturns, Fault, callVars, RunInv, TypeOK, SignedInTime
  <1>12. CASE ListenerDies
    BY <1>12, ExitStep, RunAssumption DEF ListenerDies, Fault, RunInv, TypeOK
  <1>13. CASE UNCHANGED vars
    BY <1>13 DEF vars, callVars, RunInv, TypeOK, SignedInTime
  <1> QED
    BY <1>1, <1>2, <1>3, <1>4, <1>5, <1>6, <1>7, <1>8, <1>9, <1>10, <1>11, <1>12, <1>13
       DEF Next, CallStep

LEMMA RunHolds == Spec => []RunInv
  BY RunInit, RunStep, PTL DEF Spec

\* The state of a running enclave is well formed through any faults: no call is
\* under way, and the listener is closed, unless the boot fetched the token.
THEOREM RunTypeCorrect == Spec => []TypeOK
  <1>1. RunInv => TypeOK
    BY DEF RunInv
  <1> QED BY <1>1, RunHolds, PTL

\* Whatever fails or expires between a call's signing and its arrival, and for any
\* lives of credentials, buffer and longest call that RunAssumption allows,
\* the credentials outlive the call.
THEOREM CredentialsOutliveCalls == Spec => []CallsOutlivedByCreds
  <1>1. RunInv => CallsOutlivedByCreds
    BY RunAssumption DEF RunInv, TypeOK, SignedInTime, CallsOutlivedByCreds
  <1> QED BY <1>1, RunHolds, PTL
=============================================================================
