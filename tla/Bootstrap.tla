------------------------------ MODULE Bootstrap ------------------------------
(***************************************************************************)
(* How an enclave comes by the master mnemonic                             *)
(* (storage/src/bootstrap.rs, s3.rs, kms.rs, and main.rs around them).     *)
(* The first boot finds no sealed blob in S3: it draws a mnemonic, has KMS *)
(* seal it, and puts the blob; every later boot gets the blob and has KMS  *)
(* open it.  There is no conditional put.  All keys, and the key that      *)
(* seals the session table, come from the mnemonic held in memory.         *)
(*                                                                         *)
(*   down -Start-> get -GetMissing-> encrypt -Encrypt-> put -Put-> stored  *)
(*                     -GetFound-> decrypt       -Acknowledge/Open-> serving *)
(*                                                                         *)
(* Any failure on the way ends the process, and so may a crash at any      *)
(* time; the parent starts it again.  Sealing is abstracted: KMS opens     *)
(* exactly what it sealed.  S3 reads see the latest put that landed.       *)
(***************************************************************************)
EXTENDS Integers

CONSTANTS
  Enclaves,
  Secrets,      \* the mnemonics that may be drawn, each at most once
  NoSecret,
  Overlap,      \* TRUE: enclaves may boot together while there is no blob
  MaxCrashes    \* bound on how often an enclave stops

ASSUME BootstrapAssumption ==
  /\ NoSecret \notin Secrets
  /\ Overlap \in BOOLEAN
  /\ MaxCrashes \in Nat

VARIABLES
  blob,     \* the mnemonic sealed in S3, or NoSecret
  pc,       \* pc[e]: where the boot of e is
  held,     \* held[e]: the mnemonic in e's memory, sealed or not
  late,     \* mnemonics whose put outlives its enclave
  drawn,    \* mnemonics drawn so far
  rows,     \* the mnemonics that seal the rows of the session table
  served,   \* history, served[e]: the mnemonic e served before it last stopped
  crashes

vars == <<blob, pc, held, late, drawn, rows, served, crashes>>

Init ==
  /\ blob = NoSecret
  /\ pc = [e \in Enclaves |-> "down"]
  /\ held = [e \in Enclaves |-> NoSecret]
  /\ late = {}
  /\ drawn = {}
  /\ rows = {}
  /\ served = [e \in Enclaves |-> NoSecret]
  /\ crashes = 0

-----------------------------------------------------------------------------
Goto(e, label) == pc' = [pc EXCEPT ![e] = label]

\* Mutant of Hold: the phrase is zeroized before it is handed over.
HoldNothing(e, m) == held' = [held EXCEPT ![e] = NoSecret]

Hold(e, m) == held' = [held EXCEPT ![e] = m]

\* The environment is read, bridges and credentials are up.
Start(e) ==
  /\ pc[e] = "down"
  /\ \/ Overlap
     \/ blob # NoSecret
     \/ late = {} /\ \A d \in Enclaves : pc[d] = "down"
  /\ Goto(e, "get")
  /\ UNCHANGED <<blob, held, late, drawn, rows, served, crashes>>

\* The sealed mnemonic is there.
GetFound(e) ==
  /\ pc[e] = "get"
  /\ blob # NoSecret
  /\ Goto(e, "decrypt")
  /\ Hold(e, blob)
  /\ UNCHANGED <<blob, late, drawn, rows, served, crashes>>

\* Mutant of Missing: a transport error is taken for a missing key.
MissingOrError == TRUE

\* get_blob says NotFound for a missing key only; any other error is a failure.
Missing == blob = NoSecret

\* There is none: a mnemonic is drawn.
GetMissing(e) ==
  /\ pc[e] = "get"
  /\ Missing
  /\ \E m \in Secrets \ drawn :
       /\ Hold(e, m)
       /\ drawn' = drawn \cup {m}
  /\ Goto(e, "encrypt")
  /\ UNCHANGED <<blob, late, rows, served, crashes>>

\* Mutants of Sealed: the mnemonic is served before it is stored; the sealed
\* mnemonic is thrown away and sealed again.
ServedAtOnce == "serving"
SealedAgain == "encrypt"

\* What follows sealing.
Sealed == "put"

Encrypt(e) ==
  /\ pc[e] = "encrypt"
  /\ Goto(e, Sealed)
  /\ UNCHANGED <<blob, held, late, drawn, rows, served, crashes>>

\* The put lands, once or again when the client library retries.
Put(e) ==
  /\ pc[e] \in {"put", "stored"}
  /\ blob' = held[e]
  /\ Goto(e, "stored")
  /\ UNCHANGED <<held, late, drawn, rows, served, crashes>>

\* The put is acknowledged; keys are derived and the listener opens.
Acknowledge(e) ==
  /\ pc[e] = "stored"
  /\ Goto(e, "serving")
  /\ UNCHANGED <<blob, held, late, drawn, rows, served, crashes>>

\* KMS opens the blob; keys are derived and the listener opens.
Open(e) ==
  /\ pc[e] = "decrypt"
  /\ Goto(e, "serving")
  /\ UNCHANGED <<blob, held, late, drawn, rows, served, crashes>>

\* An enclave that serves puts a session row, sealed under its own key.
SealRow(e) ==
  /\ pc[e] = "serving"
  /\ rows' = rows \cup {held[e]}
  /\ UNCHANGED <<blob, pc, held, late, drawn, served, crashes>>

\* The process ends: an error on the way up, a crash, a restart.  A put of its
\* may be under way.
Stop(e) ==
  /\ pc[e] # "down"
  /\ crashes < MaxCrashes
  /\ crashes' = crashes + 1
  /\ Goto(e, "down")
  /\ Hold(e, NoSecret)
  /\ served' = [served EXCEPT ![e] = IF pc[e] = "serving" THEN held[e] ELSE @]
  /\ late' = IF pc[e] \in {"put", "stored"} THEN late \cup {held[e]} ELSE late
  /\ UNCHANGED <<blob, drawn, rows>>

PutLate(m) ==
  /\ m \in late
  /\ late' = late \ {m}
  /\ blob' = m
  /\ UNCHANGED <<pc, held, drawn, rows, served, crashes>>

PutLost(m) ==
  /\ m \in late
  /\ late' = late \ {m}
  /\ UNCHANGED <<blob, pc, held, drawn, rows, served, crashes>>

BootStep(e) ==
  \/ Start(e) \/ GetFound(e) \/ GetMissing(e) \/ Encrypt(e) \/ Put(e)
  \/ Acknowledge(e) \/ Open(e)

Next ==
  \/ \E e \in Enclaves : BootStep(e) \/ SealRow(e) \/ Stop(e)
  \/ \E m \in late : PutLate(m) \/ PutLost(m)

Spec == Init /\ [][Next]_vars

\* The boot sequence runs on by itself, and the parent starts what has stopped.
Progress(e) ==
  WF_vars(Start(e) \/ GetFound(e) \/ GetMissing(e) \/ Encrypt(e)
            \/ (pc[e] = "put" /\ Put(e)) \/ Acknowledge(e) \/ Open(e))

FairSpec ==
  /\ Spec
  /\ \A e \in Enclaves : Progress(e)
  /\ WF_vars(\E m \in late : PutLate(m) \/ PutLost(m))

-----------------------------------------------------------------------------
TypeOK ==
  /\ blob \in Secrets \cup {NoSecret}
  /\ pc \in [Enclaves -> {"down", "get", "encrypt", "put", "stored", "decrypt", "serving"}]
  /\ held \in [Enclaves -> Secrets \cup {NoSecret}]
  /\ late \subseteq drawn
  /\ drawn \subseteq Secrets
  /\ rows \subseteq drawn
  /\ served \in [Enclaves -> drawn \cup {NoSecret}]
  /\ crashes \in 0..MaxCrashes
  /\ \A e \in Enclaves : held[e] = NoSecret <=> pc[e] \in {"down", "get"}

Serving == {e \in Enclaves : pc[e] = "serving"}

\* Nobody is on the way to put a mnemonic.
Unborn == {e \in Enclaves : pc[e] \in {"encrypt", "put", "stored"}}

\* A blob is stored, no put is under way, and no boot goes on with an older one.
Settled ==
  /\ blob # NoSecret
  /\ Unborn = {} /\ late = {}
  /\ \A e \in Enclaves : pc[e] = "decrypt" => held[e] = blob

\* However the first boots overlapped: a blob that has settled is never replaced,
\* not by an enclave that boots, crashes or cannot reach S3, and every enclave
\* that starts to serve from then on serves it.  (get_blob's NotFound, the match
\* in load_or_create_mnemonic)
StoredSecretStays ==
  [][Settled =>
       /\ Settled'
       /\ blob' = blob
       /\ \A e \in Serving' \ Serving : held'[e] = blob]_vars

-----------------------------------------------------------------------------
(* What holds if the first boot is one enclave's, and any put of it that    *)
(* outlived a crash has landed or is lost before the next.                 *)

\* Every enclave that serves holds the stored mnemonic, and every session row
\* opens under it, also after all of them have restarted: nothing is served
\* before it is stored, wherever the first boot crashes.
ServedIsStored ==
  /\ \A e \in Serving : held[e] = blob
  /\ rows \cup {served[e] : e \in Enclaves} \subseteq {blob, NoSecret}

\* The mnemonic an enclave serves with: what it holds once it serves.
Serves == [e \in Enclaves |-> IF pc[e] = "serving" THEN held[e] ELSE NoSecret]

Abstract == INSTANCE MasterSecret WITH secret <- blob, serves <- Serves, sealed <- rows

\* Booting implements the choice of one secret: the first put of a blob that
\* lands chooses it for good, whoever comes to serve does so with that one in
\* its memory, and rows are sealed under no other.
ImplementsMasterSecret == Abstract!Spec

\* Under FairSpec: when the crashes are over, every enclave comes to serve, and
\* goes on.
AllServeInTheEnd == <>[](Serving = Enclaves)

-----------------------------------------------------------------------------
\* "The session DEK is HKDF-derived from the master seed, so it's stable across
\* enclave restarts" (main.rs): an enclave that serves again serves the mnemonic
\* it served before.
StableAcrossRestarts ==
  [][\A e \in Serving' \ Serving : served[e] \in {NoSecret, held'[e]}]_vars
=============================================================================
