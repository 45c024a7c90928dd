----------------------------- MODULE EnclaveRun -----------------------------
(***************************************************************************)
(* An enclave while it runs: the listener (server/src/main.rs), the        *)
(* bridges every call to AWS goes through (storage/src/vsock_transport.rs) *)
(* and the credentials it is signed with (vsock_creds.rs, and the identity *)
(* cache bootstrap.rs configures), over a parent that comes and goes.      *)
(*                                                                         *)
(* Booting binds the bridges, then fetches the admin token once from the   *)
(* parent, or ends the process; the credentials of that fetch are dropped. *)
(* A call to a service takes the cached credentials, or fetches new ones   *)
(* when none are cached or they are within the buffer of their expiry,     *)
(* then connects through the service's bridge.                             *)
(* A bridge whose accept fails ends its task for good; the listener's      *)
(* accept failing ends the process, which the parent starts again.         *)
(*                                                                         *)
(* Life of credentials is counted in ticks; a call takes at most MaxCall.  *)
(* The bootstrap of the mnemonic itself is in module Bootstrap.            *)
(***************************************************************************)
EXTENDS Integers

CONSTANTS
  Ports,      \* one bridge per service
  Life,       \* what fresh credentials have at most, in ticks
  Least,      \* what the credentials a fetch returns have left at least
  BufferTime, \* the identity cache's margin
  MaxCall,    \* bound on the ticks a call takes
  MaxFaults   \* bound on faults: a parent's outage, a failed accept

ASSUME RunAssumption ==
  /\ Life \in Nat
  /\ BufferTime \in 0..(Life - 1)
  /\ MaxCall \in 0..BufferTime
  /\ Least \in (MaxCall + 1)..Life
  /\ MaxFaults \in Nat

VARIABLES
  proc,    \* "down" or "up"
  listener,\* "closed" or "open"
  bridge,  \* bridge[p]: "listening" or "dead"
  parent,  \* "up" or "down": whether the parent's daemons answer
  token,   \* whether the admin token has been fetched
  life,    \* ticks left of the cached credentials; 0 when expired or none
  call,    \* call[p]: "none", "creds", "connect" or "sent"
  left,    \* left[p]: ticks left of the credentials the call was signed with
  age,     \* age[p]: ticks since it was signed
  answer,  \* history, answer[p]: "ok" or "error", the last call's result
  faults

callVars == <<call, left, age, answer>>
vars == <<proc, listener, bridge, parent, token, life, callVars, faults>>

Init ==
  /\ proc = "down"
  /\ listener = "closed"
  /\ bridge = [p \in Ports |-> "dead"]
  /\ parent = "up"
  /\ token = FALSE
  /\ life = 0
  /\ call = [p \in Ports |-> "none"]
  /\ left = [p \in Ports |-> 0]
  /\ age = [p \in Ports |-> 0]
  /\ answer = [p \in Ports |-> "error"]
  /\ faults = 0

-----------------------------------------------------------------------------
(* Booting. *)

Bound ==
  /\ proc = "down"
  /\ proc' = "up"
  /\ bridge' = [p \in Ports |-> "listening"]
  /\ UNCHANGED <<parent, token, life, callVars, faults>>

\* Mutant of Boot: the listener opens before the token is there.
BootServes == Bound /\ listener' = "open"

\* The parent starts the enclave, which binds its bridges.
Boot == Bound /\ listener' = "closed"

Booting == proc = "up" /\ ~token

\* The parent vends credentials and the admin token, and the listener opens.
PreWarm ==
  /\ Booting
  /\ parent = "up"
  /\ token' = TRUE
  /\ listener' = "open"
  /\ UNCHANGED <<proc, bridge, parent, life, callVars, faults>>

\* Everything the process held is gone.
Exit ==
  /\ proc' = "down"
  /\ listener' = "closed"
  /\ bridge' = [p \in Ports |-> "dead"]
  /\ token' = FALSE
  /\ life' = 0
  /\ call' = [p \in Ports |-> "none"]
  /\ left' = [p \in Ports |-> 0]
  /\ age' = [p \in Ports |-> 0]
  /\ answer' = [p \in Ports |-> "error"]

\* It does not answer, and main returns the error.
BootFails ==
  /\ Booting
  /\ parent = "down"
  /\ Exit
  /\ UNCHANGED <<parent, faults>>

-----------------------------------------------------------------------------
(* A call to a service, from any handler. *)

BeginCall(p) ==
  /\ listener = "open"
  /\ call[p] = "none"
  /\ call' = [call EXCEPT ![p] = "creds"]
  /\ UNCHANGED <<proc, listener, bridge, parent, token, life, left, age, answer, faults>>

\* Mutant of Fresh: no buffer.
Unexpired == life > 0

\* The identity cache gives its credentials until they come within the buffer.
Fresh == life > BufferTime

Sign(p, ticks) ==
  /\ call' = [call EXCEPT ![p] = "connect"]
  /\ left' = [left EXCEPT ![p] = ticks]
  /\ age' = [age EXCEPT ![p] = 0]

UseCached(p) ==
  /\ call[p] = "creds"
  /\ Fresh
  /\ Sign(p, life)
  /\ UNCHANGED <<proc, listener, bridge, parent, token, life, answer, faults>>

\* provide_credentials fetches credentials.  The admin token that comes with them
\* goes into a cell nothing reads after booting.
Refresh(p) ==
  /\ call[p] = "creds"
  /\ ~Fresh
  /\ parent = "up"
  /\ \E ticks \in Least..Life : life' = ticks /\ Sign(p, ticks)
  /\ UNCHANGED <<proc, listener, bridge, parent, token, answer, faults>>

EndCall(p, result) ==
  /\ call' = [call EXCEPT ![p] = "none"]
  /\ left' = [left EXCEPT ![p] = 0]
  /\ age' = [age EXCEPT ![p] = 0]
  /\ answer' = [answer EXCEPT ![p] = result]
  /\ UNCHANGED <<proc, listener, bridge, parent, token, life, faults>>

RefreshFails(p) ==
  /\ call[p] = "creds"
  /\ ~Fresh
  /\ parent = "down"
  /\ EndCall(p, "error")

\* The bridge accepts the connection and pipes it to the parent.
Connect(p) ==
  /\ call[p] = "connect"
  /\ bridge[p] = "listening"
  /\ parent = "up"
  /\ call' = [call EXCEPT ![p] = "sent"]
  /\ UNCHANGED <<proc, listener, bridge, parent, token, life, left, age, answer, faults>>

\* Mutant of ConnectFails: nothing refuses the connection.
ConnectHangs(p) == FALSE

\* Nobody listens on the bridge's port, or the bridge cannot reach the parent
\* and closes the connection.
ConnectFails(p) ==
  /\ call[p] = "connect"
  /\ bridge[p] = "dead" \/ parent = "down"
  /\ EndCall(p, "error")

\* The service answers: with an error if the credentials have expired by then.
Answered(p) ==
  /\ call[p] = "sent"
  /\ parent = "up"
  /\ EndCall(p, IF age[p] < left[p] THEN "ok" ELSE "error")

\* The pipe breaks with the parent.
Cut(p) ==
  /\ call[p] = "sent"
  /\ parent = "down"
  /\ EndCall(p, "error")

-----------------------------------------------------------------------------
(* Time, and what fails. *)

Tick ==
  /\ life > 0 \/ \E p \in Ports : call[p] \in {"connect", "sent"}
  /\ \A p \in Ports : age[p] < MaxCall
  /\ life' = IF life > 0 THEN life - 1 ELSE 0
  /\ age' = [p \in Ports |-> IF call[p] \in {"connect", "sent"} THEN age[p] + 1 ELSE 0]
  /\ UNCHANGED <<proc, listener, bridge, parent, token, call, left, answer, faults>>

Fault ==
  /\ faults < MaxFaults
  /\ faults' = faults + 1

ParentGoes ==
  /\ parent = "up"
  /\ Fault
  /\ parent' = "down"
  /\ UNCHANGED <<proc, listener, bridge, token, life, callVars>>

ParentReturns ==
  /\ parent = "down"
  /\ parent' = "up"
  /\ UNCHANGED <<proc, listener, bridge, token, life, callVars, faults>>

\* A bridge's accept fails: its task logs and ends.
BridgeDies(p) ==
  /\ bridge[p] = "listening"
  /\ Fault
  /\ bridge' = [bridge EXCEPT ![p] = "dead"]
  /\ UNCHANGED <<proc, listener, parent, token, life, callVars>>

\* Mutant of ListenerDies: only its task ends.
ListenerDiesAlone ==
  /\ listener = "open"
  /\ Fault
  /\ listener' = "closed"
  /\ UNCHANGED <<proc, bridge, parent, token, life, callVars>>

\* The listener's accept fails and main returns, or the process crashes.
ListenerDies ==
  /\ listener = "open"
  /\ Fault
  /\ Exit
  /\ UNCHANGED parent

-----------------------------------------------------------------------------
CallStep(p) ==
  \/ UseCached(p) \/ Refresh(p) \/ RefreshFails(p)
  \/ Connect(p) \/ ConnectFails(p) \/ Answered(p) \/ Cut(p)

Next ==
  \/ Boot \/ PreWarm \/ BootFails
  \/ \E p \in Ports : BeginCall(p) \/ CallStep(p) \/ BridgeDies(p)
  \/ Tick
  \/ ParentGoes \/ ParentReturns \/ ListenerDies

Spec == Init /\ [][Next]_vars

\* The parent starts what has stopped, its creds bridge comes back, a call once
\* begun goes on, and the handlers keep calling.
FairSpec ==
  /\ Spec
  /\ WF_vars(Boot) /\ WF_vars(PreWarm \/ BootFails) /\ WF_vars(ParentReturns)
  /\ \A p \in Ports : WF_vars(CallStep(p)) /\ WF_vars(BeginCall(p))

-----------------------------------------------------------------------------
TypeOK ==
  /\ proc \in {"down", "up"}
  /\ listener \in {"closed", "open"}
  /\ bridge \in [Ports -> {"listening", "dead"}]
  /\ parent \in {"up", "down"}
  /\ token \in BOOLEAN
  /\ life \in 0..Life
  /\ call \in [Ports -> {"none", "creds", "connect", "sent"}]
  /\ left \in [Ports -> 0..Life]
  /\ age \in [Ports -> 0..MaxCall]
  /\ answer \in [Ports -> {"ok", "error"}]
  /\ faults \in 0..MaxFaults
  /\ listener = "open" => token
  /\ token => proc = "up"
  /\ \A p \in Ports :
       /\ call[p] # "none" => token
       /\ proc = "down" => bridge[p] = "dead"

\* No call is refused for expired credentials, whatever happens between its
\* signing and its arrival: the buffer is longer than a call.  (buffer_time in
\* Storage::from_env, the refresh in provide_credentials)
CallsOutlivedByCreds ==
  \A p \in Ports : call[p] \in {"connect", "sent"} => age[p] < left[p]

\* Under FairSpec: no handler waits for ever on a call, also when its bridge is
\* dead or the parent is away.
CallsEnd ==
  \A p \in Ports : call[p] # "none" ~> call[p] = "none"

\* Under FairSpec: after any faults, handlers serve again, and each service
\* answers again unless its bridge has died since the last boot; a failed
\* listener and an outage of the parent, with expired credentials, heal.
ServiceComesBack ==
  \A p \in Ports : []<>(answer[p] = "ok" \/ (proc = "up" /\ bridge[p] = "dead"))

-----------------------------------------------------------------------------
\* Under FairSpec, of a bridge whose accept failed: "the enclave then has to
\* restart to recover (acceptable for a stateless signing service; systemd
\* handles it)" (vsock_transport.rs, of spawn_bridge).
DeadBridgeRecovers ==
  \A p \in Ports : (proc = "up" /\ bridge[p] = "dead") ~> bridge[p] = "listening"
=============================================================================
