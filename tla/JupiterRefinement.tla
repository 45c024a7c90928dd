------------------------- MODULE JupiterRefinement -------------------------
(***************************************************************************)
(* How JupiterSession maps to SpendLimit: a budget is the row stored for   *)
(* its user, a trade is pending from the request until its debit lands or  *)
(* the request is over, or given up and followed by another, and a promise *)
(* is void where an overtaken put has landed.                              *)
(***************************************************************************)
EXTENDS JupiterSession

Budget == [k \in Keys |-> IF table[k] = NoItem THEN NoItem ELSE table[k].val]

\* The trades of k whose debit has not landed and that no request overtook.
Uncharged(k) ==
  {t \in Busy(k) \ overtaken :
     req[t].op = "sign" /\ pc[t] \notin {"wrote", "echo"}}

Trade(r) == [asset |-> r.asset, size |-> r.size, at |-> r.at]

Pending == [k \in Keys |-> {Trade(req[t]) : t \in Uncharged(k)}]

Limit == INSTANCE SpendLimit WITH
  None <- NoItem,
  budget <- Budget,
  pending <- Pending,
  void <- late

\* The sessions of users that send one request at a time implement SpendLimit:
\* every put is one atomic registration, revocation or charge, a trade is
\* charged at most once and within the terms it met, every signature is
\* covered by a charge, and the reaper forgets only what expired.  A put that
\* was given up may land before the user's next request or never, and voids
\* the promise when it lands later.
\* (session_upsert, session_revoke and the debit of sign_jupiter_tx)
ImplementsSpendLimit == Limit!LimitSpec
=============================================================================
