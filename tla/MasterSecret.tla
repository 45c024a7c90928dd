---------------------------- MODULE MasterSecret ----------------------------
(***************************************************************************)
(* What booting promises: one secret is chosen, once, and whoever serves   *)
(* holds that one and seals rows under it, before and after any number of  *)
(* restarts.                                                               *)
(***************************************************************************)
CONSTANTS Enclaves, Secrets, NoSecret

VARIABLES
  secret,  \* the secret chosen, or NoSecret
  serves,  \* serves[e]: the secret e serves with, or NoSecret
  sealed   \* the secrets that seal rows

vars == <<secret, serves, sealed>>

Init ==
  /\ secret = NoSecret
  /\ serves = [e \in Enclaves |-> NoSecret]
  /\ sealed = {}

Choose ==
  /\ secret = NoSecret
  /\ secret' \in Secrets
  /\ UNCHANGED <<serves, sealed>>

Join(e) ==
  /\ secret # NoSecret
  /\ serves' = [serves EXCEPT ![e] = secret]
  /\ UNCHANGED <<secret, sealed>>

SealRow(e) ==
  /\ serves[e] # NoSecret
  /\ sealed' = sealed \cup {secret}
  /\ UNCHANGED <<secret, serves>>

Leave(e) ==
  /\ serves' = [serves EXCEPT ![e] = NoSecret]
  /\ UNCHANGED <<secret, sealed>>

Next ==
  \/ Choose
  \/ \E e \in Enclaves : Join(e) \/ SealRow(e) \/ Leave(e)

Spec == Init /\ [][Next]_vars
=============================================================================
