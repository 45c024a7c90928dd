--------------------------- MODULE BootstrapProofs ---------------------------
(***************************************************************************)
(* Theorems about Bootstrap, for any number of enclaves, mnemonics and     *)
(* crashes: what survives first boots that overlap, and that booting       *)
(* implements the choice of one secret when they do not.                   *)
(***************************************************************************)
EXTENDS Bootstrap, TLAPS

-----------------------------------------------------------------------------
(* Any overlap. *)

\* TypeOK, and that every mnemonic in use was drawn.
DrawnInv ==
  /\ TypeOK
  /\ blob \in drawn \cup {NoSecret}
  /\ \A e \in Enclaves : held[e] \in drawn \cup {NoSecret}

LEMMA DrawnInit == Init => DrawnInv
  BY BootstrapAssumption DEF Init, DrawnInv, TypeOK

LEMMA DrawnStep == DrawnInv /\ [Next]_vars => DrawnInv'
  <1> SUFFICES ASSUME DrawnInv, [Next]_vars PROVE DrawnInv'
    OBVIOUS
  <1> USE BootstrapAssumption DEF DrawnInv, TypeOK, Goto, Hold
  <1>1. ASSUME NEW e \in Enclaves, Start(e) PROVE DrawnInv'
    BY <1>1 DEF Start
  <1>2. ASSUME NEW e \in Enclaves, GetFound(e) PROVE DrawnInv'
    BY <1>2 DEF GetFound
  <1>3. ASSUME NEW e \in Enclaves, GetMissing(e) PROVE DrawnInv'
    BY <1>3 DEF GetMissing
  <1>4. ASSUME NEW e \in Enclaves, Encrypt(e) PROVE DrawnInv'
    BY <1>4 DEF Encrypt, Sealed
  <1>5. ASSUME NEW e \in Enclaves, Put(e) PROVE DrawnInv'
    BY <1>5 DEF Put
  <1>6. ASSUME NEW e \in Enclaves, Acknowledge(e) PROVE DrawnInv'
    BY <1>6 DEF Acknowledge
  <1>7. ASSUME NEW e \in Enclaves, Open(e) PROVE DrawnInv'
    BY <1>7 DEF Open
  <1>8. ASSUME NEW e \in Enclaves, SealRow(e) PROVE DrawnInv'
    BY <1>8 DEF SealRow
  <1>9. ASSUME NEW e \in Enclaves, Stop(e) PROVE DrawnInv'
    BY <1>9 DEF Stop
  <1>10. ASSUME NEW m \in late, PutLate(m) \/ PutLost(m) PROVE DrawnInv'
    BY <1>10 DEF PutLate, PutLost
  <1>11. CASE UNCHANGED vars
    BY <1>11 DEF vars
  <1> QED
    BY <1>1, <1>2, <1>3, <1>4, <1>5, <1>6, <1>7, <1>8, <1>9, <1>10, <1>11
       DEF Next, BootStep

LEMMA DrawnHolds == Spec => []DrawnInv
  BY DrawnInit, DrawnStep, PTL DEF Spec

\* The state of every boot, blob and late put is well formed, whatever
\* overlaps: nothing but a drawn mnemonic is ever sealed, stored or served.
THEOREM BootTypeCorrect == Spec => []TypeOK
  <1>1. DrawnInv => TypeOK
    BY DEF DrawnInv
  <1> QED BY <1>1, DrawnHolds, PTL

SettledStep ==
  Settled => /\ Settled'
             /\ blob' = blob
             /\ \A e \in Serving' \ Serving : held'[e] = blob

\* Whatever first boots overlapped before it: a blob that has settled stays,
\* through any number of boots, crashes and failures of S3, and whoever
\* starts to serve serves it.
THEOREM SettledSecretStays == Spec => StoredSecretStays
  <1>1. DrawnInv /\ [Next]_vars => [SettledStep]_vars
    <2> SUFFICES ASSUME DrawnInv, [Next]_vars, Settled
                 PROVE  /\ Settled' /\ blob' = blob
                        /\ \A e \in Serving' \ Serving : held'[e] = blob
      BY DEF SettledStep
    <2> USE BootstrapAssumption
        DEF DrawnInv, TypeOK, Goto, Hold, Settled, Unborn, Serving
    <2>1. ASSUME NEW e \in Enclaves, Start(e) \/ GetFound(e)
          PROVE  Settled' /\ blob' = blob /\ Serving' = Serving
      BY <2>1 DEF Start, GetFound
    <2>2. ASSUME NEW e \in Enclaves, Open(e)
          PROVE  /\ Settled' /\ blob' = blob
                 /\ Serving' \subseteq Serving \cup {e} /\ held'[e] = blob
      BY <2>2 DEF Open
    <2>3. ASSUME NEW e \in Enclaves,
                 GetMissing(e) \/ Encrypt(e) \/ Put(e) \/ Acknowledge(e)
          PROVE  FALSE
      BY <2>3 DEF GetMissing, Missing, Encrypt, Put, Acknowledge
    <2>4. ASSUME NEW e \in Enclaves, SealRow(e) \/ Stop(e)
          PROVE  Settled' /\ blob' = blob /\ Serving' \subseteq Serving
      BY <2>4 DEF SealRow, Stop
    <2>5. ASSUME NEW m \in late PROVE FALSE
      BY <2>5
    <2>6. CASE UNCHANGED vars
      BY <2>6 DEF vars
    <2> QED BY <2>1, <2>2, <2>3, <2>4, <2>5, <2>6 DEF Next, BootStep
  <1>2. Spec => [][SettledStep]_vars
    BY <1>1, DrawnHolds, PTL DEF Spec
  <1> QED BY <1>2 DEF StoredSecretStays, SettledStep

-----------------------------------------------------------------------------
(* First boots apart. *)

\* The inductive invariant.  While nothing is stored one enclave at most is on
\* its way, and none while a put of a crashed one may still land; once
\* something is stored nobody holds, sends or has served anything else.
AloneInv ==
  /\ blob = NoSecret =>
       /\ \A d, e \in Enclaves : pc[d] # "down" /\ pc[e] # "down" => d = e
       /\ \A e \in Enclaves : pc[e] \in {"down", "get", "encrypt", "put"}
       /\ late # {} => \A e \in Enclaves : pc[e] = "down"
       /\ \A l, m \in late : l = m
       /\ rows = {}
       /\ \A e \in Enclaves : served[e] = NoSecret
  /\ blob # NoSecret =>
       /\ \A e \in Enclaves :
            /\ pc[e] \notin {"encrypt", "put"}
            /\ held[e] \in {blob, NoSecret}
            /\ served[e] \in {blob, NoSecret}
       /\ late \cup rows \subseteq {blob}

LEMMA AloneInit == Init => AloneInv
  BY DEF Init, AloneInv

LEMMA AloneStep ==
  ASSUME ~Overlap, DrawnInv, AloneInv, [Next]_vars PROVE AloneInv'
  <1> USE BootstrapAssumption DEF DrawnInv, TypeOK, AloneInv, Goto, Hold
  <1>1. ASSUME NEW e \in Enclaves, Start(e) PROVE AloneInv'
    BY <1>1 DEF Start
  <1>2. ASSUME NEW e \in Enclaves, GetFound(e) PROVE AloneInv'
    BY <1>2 DEF GetFound
  <1>3. ASSUME NEW e \in Enclaves, GetMissing(e) PROVE AloneInv'
    BY <1>3 DEF GetMissing, Missing
  <1>4. ASSUME NEW e \in Enclaves, Encrypt(e) PROVE AloneInv'
    BY <1>4 DEF Encrypt, Sealed
  <1>5. ASSUME NEW e \in Enclaves, Put(e) PROVE AloneInv'
    <2>1. CASE blob = NoSecret
      <3>1. /\ pc[e] = "put" /\ pc' = [pc EXCEPT ![e] = "stored"]
            /\ blob' = held[e] /\ held[e] # NoSecret
            /\ late = {} /\ rows = {}
            /\ \A d \in Enclaves \ {e} : pc[d] = "down"
            /\ UNCHANGED <<held, late, drawn, rows, served, crashes>>
        BY <2>1, <1>5 DEF Put
      <3>2. \A d \in Enclaves \ {e} : held[d] = NoSecret
        BY <3>1
      <3> QED BY <2>1, <3>1, <3>2
    <2>2. CASE blob # NoSecret
      BY <2>2, <1>5 DEF Put
    <2> QED BY <2>1, <2>2
  <1>6. ASSUME NEW e \in Enclaves, Acknowledge(e) PROVE AloneInv'
    BY <1>6 DEF Acknowledge
  <1>7. ASSUME NEW e \in Enclaves, Open(e) PROVE AloneInv'
    BY <1>7 DEF Open
  <1>8. ASSUME NEW e \in Enclaves, SealRow(e) PROVE AloneInv'
    BY <1>8 DEF SealRow
  <1>9. ASSUME NEW e \in Enclaves, Stop(e) PROVE AloneInv'
    BY <1>9 DEF Stop
  <1>10. ASSUME NEW m \in late, PutLate(m) PROVE AloneInv'
    <2>1. CASE blob = NoSecret
      <3>1. /\ \A e \in Enclaves : pc[e] = "down" /\ held[e] = NoSecret
            /\ late' = {} /\ rows = {} /\ blob' = m /\ m # NoSecret
            /\ UNCHANGED <<pc, held, drawn, rows, served, crashes>>
        BY <2>1, <1>10 DEF PutLate
      <3> QED BY <2>1, <3>1
    <2>2. CASE blob # NoSecret
      BY <2>2, <1>10 DEF PutLate
    <2> QED BY <2>1, <2>2
  <1>11. ASSUME NEW m \in late, PutLost(m) PROVE AloneInv'
    BY <1>11 DEF PutLost
  <1>12. CASE UNCHANGED vars
    BY <1>12 DEF vars
  <1> QED
    BY <1>1, <1>2, <1>3, <1>4, <1>5, <1>6, <1>7, <1>8, <1>9, <1>10, <1>11, <1>12
       DEF Next, BootStep

LEMMA AloneHolds ==
  ASSUME ~Overlap PROVE Spec => [](DrawnInv /\ AloneInv)
  BY DrawnInit, DrawnStep, AloneInit, AloneStep, PTL DEF Spec

LEMMA ChosenOnce ==
  ASSUME DrawnInv, AloneInv, [Next]_vars, blob # NoSecret PROVE blob' = blob
  <1>1. ASSUME NEW e \in Enclaves, Put(e) PROVE blob' = blob
    <2>1. pc[e] = "stored" /\ blob' = held[e]
      BY <1>1 DEF Put, AloneInv
    <2>2. held[e] # NoSecret
      BY <2>1 DEF DrawnInv, TypeOK
    <2> QED BY <2>1, <2>2 DEF AloneInv
  <1>2. ASSUME NEW m \in late, PutLate(m) PROVE blob' = blob
    BY <1>2 DEF PutLate, AloneInv
  <1> QED
    BY <1>1, <1>2
       DEF Next, BootStep, vars, Start, GetFound, GetMissing, Encrypt, Acknowledge,
           Open, SealRow, Stop, PutLost

\* While first boots do not overlap, wherever they crash: every enclave that
\* serves holds the stored mnemonic, and so did whoever served or sealed a
\* session row before.
THEOREM AloneServedIsStored ==
  ASSUME ~Overlap PROVE Spec => []ServedIsStored
  <1>1. DrawnInv /\ AloneInv => ServedIsStored
    BY DEF DrawnInv, TypeOK, AloneInv, ServedIsStored, Serving
  <1> QED BY <1>1, AloneHolds, PTL

\* While first boots do not overlap, an enclave that serves again serves the
\* mnemonic it served before: overlap is the only way to lose it.
THEOREM AloneStableAcrossRestarts ==
  ASSUME ~Overlap PROVE Spec => StableAcrossRestarts
  <1> DEFINE Stable == \A e \in Serving' \ Serving : served[e] \in {NoSecret, held'[e]}
  <1>1. DrawnInv /\ AloneInv /\ DrawnInv' /\ AloneInv' /\ [Next]_vars => [Stable]_vars
    <2> SUFFICES ASSUME DrawnInv, AloneInv, DrawnInv', AloneInv', [Next]_vars,
                        NEW e \in Serving' \ Serving
                 PROVE  served[e] \in {NoSecret, held'[e]}
      OBVIOUS
    <2>1. e \in Enclaves /\ pc'[e] = "serving"
      BY DEF Serving
    <2>2. held'[e] = blob' /\ blob' # NoSecret
      BY <2>1 DEF DrawnInv, TypeOK, AloneInv
    <2>3. blob = NoSecret => served[e] = NoSecret
      BY <2>1 DEF AloneInv
    <2>4. blob # NoSecret => served[e] \in {blob, NoSecret} /\ blob' = blob
      BY <2>1, ChosenOnce DEF AloneInv
    <2> QED BY <2>2, <2>3, <2>4
  <1>2. Spec => [][Stable]_vars
    BY <1>1, AloneHolds, PTL DEF Spec
  <1> QED BY <1>2 DEF StableAcrossRestarts

\* What a step does to the mnemonics served, by what it does to one enclave.
LEMMA ServesBy ==
  ASSUME TypeOK, NEW e \in Enclaves, NEW label, NEW m,
         pc' = [pc EXCEPT ![e] = label], held' = [held EXCEPT ![e] = m]
  PROVE  Serves' = [Serves EXCEPT ![e] = IF label = "serving" THEN m ELSE NoSecret]
  BY DEF TypeOK, Serves

LEMMA ServesSame ==
  ASSUME TypeOK, NEW e \in Enclaves, pc[e] # "serving", pc'[e] # "serving",
         \A d \in Enclaves \ {e} : pc'[d] = pc[d] /\ held'[d] = held[d]
  PROVE  Serves' = Serves
  BY DEF Serves

\* While first boots do not overlap, booting is the choice of one secret: the
\* first put of a blob chooses it; to serve is to join with that secret held in
\* memory, a row is sealed under it, to stop is to leave; and every other step,
\* repeated and late puts among them, changes nothing.
THEOREM AloneImplementsMasterSecret ==
  ASSUME ~Overlap PROVE Spec => ImplementsMasterSecret
  <1>1. Init => Abstract!Init
    BY DEF Init, Abstract!Init, Serves
  <1>2. DrawnInv /\ AloneInv /\ [Next]_vars => [Abstract!Next]_Abstract!vars
    <2> SUFFICES ASSUME DrawnInv, AloneInv, [Next]_vars
                 PROVE  [Abstract!Next]_Abstract!vars
      OBVIOUS
    <2>t. TypeOK /\ DOMAIN pc = Enclaves /\ DOMAIN held = Enclaves
      BY DEF DrawnInv, TypeOK
    <2>1. ASSUME NEW e \in Enclaves, Start(e) \/ GetFound(e) \/ GetMissing(e) \/ Encrypt(e)
          PROVE  UNCHANGED <<blob, Serves, rows>>
      <3>1. /\ UNCHANGED <<blob, rows>> /\ pc[e] # "serving" /\ pc'[e] # "serving"
            /\ \A d \in Enclaves \ {e} : pc'[d] = pc[d] /\ held'[d] = held[d]
        BY <2>t, <2>1 DEF Start, GetFound, GetMissing, Encrypt, Sealed, Goto, Hold
      <3> QED BY <2>t, <3>1, ServesSame
    <2>2. ASSUME NEW e \in Enclaves, Put(e) PROVE [Abstract!Next]_Abstract!vars
      <3>1. /\ UNCHANGED <<held, rows>> /\ pc[e] # "serving" /\ pc'[e] # "serving"
            /\ \A d \in Enclaves \ {e} : pc'[d] = pc[d]
        BY <2>t, <2>2 DEF Put, Goto
      <3>2. Serves' = Serves
        BY <2>t, <3>1, ServesSame
      <3>3. blob' \in Secrets
        BY <2>2 DEF Put, DrawnInv, TypeOK
      <3>4. CASE blob = NoSecret
        BY <3>1, <3>2, <3>3, <3>4 DEF Abstract!Next, Abstract!Choose
      <3>5. CASE blob # NoSecret
        BY <3>1, <3>2, <3>5, ChosenOnce DEF Abstract!vars
      <3> QED BY <3>4, <3>5
    <2>3. ASSUME NEW e \in Enclaves, Acknowledge(e) \/ Open(e)
          PROVE  Abstract!Join(e)
      <3>1. blob # NoSecret /\ held[e] = blob
        BY <2>3 DEF Acknowledge, Open, AloneInv, DrawnInv, TypeOK
      <3>2. /\ pc' = [pc EXCEPT ![e] = "serving"] /\ held' = [held EXCEPT ![e] = held[e]]
            /\ UNCHANGED <<blob, rows>>
        <4>1. held = [held EXCEPT ![e] = held[e]]
          BY DEF DrawnInv, TypeOK
        <4> QED BY <2>3, <4>1 DEF Acknowledge, Open, Goto
      <3>3. Serves' = [Serves EXCEPT ![e] = blob]
        BY <2>t, <3>1, <3>2, ServesBy
      <3> QED BY <3>1, <3>2, <3>3 DEF Abstract!Join
    <2>4. ASSUME NEW e \in Enclaves, SealRow(e) PROVE Abstract!SealRow(e)
      <3>1. /\ UNCHANGED <<blob, pc, held>> /\ pc[e] = "serving" /\ rows' = rows \cup {held[e]}
        BY <2>4 DEF SealRow
      <3>2. held[e] = blob /\ held[e] # NoSecret
        BY <3>1 DEF AloneInv, DrawnInv, TypeOK
      <3> QED BY <3>1, <3>2 DEF Abstract!SealRow, Serves
    <2>5. ASSUME NEW e \in Enclaves, Stop(e) PROVE Abstract!Leave(e)
      <3>1. /\ pc' = [pc EXCEPT ![e] = "down"] /\ held' = [held EXCEPT ![e] = NoSecret]
            /\ UNCHANGED <<blob, rows>>
        BY <2>5 DEF Stop, Goto, Hold
      <3>2. Serves' = [Serves EXCEPT ![e] = NoSecret]
        BY <2>t, <3>1, ServesBy
      <3> QED BY <3>1, <3>2 DEF Abstract!Leave
    <2>6. ASSUME NEW m \in late, PutLate(m) PROVE [Abstract!Next]_Abstract!vars
      <3>1. UNCHANGED <<Serves, rows>> /\ blob' \in Secrets
        <4>1. UNCHANGED <<pc, held, rows>> /\ m \in late /\ blob' = m
          BY <2>6 DEF PutLate
        <4>2. late \subseteq Secrets
          BY DEF DrawnInv, TypeOK
        <4> QED BY <4>1, <4>2 DEF Serves
      <3>2. CASE blob = NoSecret
        BY <3>1, <3>2 DEF Abstract!Next, Abstract!Choose
      <3>3. CASE blob # NoSecret
        BY <3>1, <3>3, ChosenOnce DEF Abstract!vars
      <3> QED BY <3>2, <3>3
    <2>7. ASSUME NEW m \in late, PutLost(m) PROVE UNCHANGED <<blob, Serves, rows>>
      BY <2>7 DEF PutLost, Serves
    <2>8. CASE UNCHANGED vars
      BY <2>8 DEF vars, Serves, Abstract!vars
    <2> QED
      BY <2>1, <2>2, <2>3, <2>4, <2>5, <2>6, <2>7, <2>8
         DEF Next, BootStep, Abstract!Next, Abstract!vars
  <1>3. Spec => [](DrawnInv /\ AloneInv)
    BY AloneHolds
  <1> QED BY <1>1, <1>2, <1>3, PTL DEF Spec, ImplementsMasterSecret, Abstract!Spec
=============================================================================
