----------------------------- MODULE SpendLimit -----------------------------
(***************************************************************************)
(* What a Jupiter session promises its user: a budget that every delegated *)
(* trade is charged against, in one atomic step, before it is signed.      *)
(*                                                                         *)
(* - registering sets the terms and keeps the spend;                       *)
(* - only registering lifts a revocation;                                  *)
(* - a trade is charged only within the terms;                             *)
(* - what has been signed never exceeds what has been charged.             *)
(*                                                                         *)
(* The promise is void, from the moment an abandoned request takes effect  *)
(* after a later one and until the budget lapses: such an effect may undo  *)
(* any charge, registration or revocation that came in between.            *)
(*                                                                         *)
(* JupiterSession implements this when a user's requests follow one        *)
(* another, each answered or given up, and reads are consistent.           *)
(***************************************************************************)
EXTENDS Integers

CONSTANTS
  Keys,       \* the users
  TermSet,    \* the terms a user may register
  Assets,     \* the markets a trade may be in
  Sizes,      \* trade sizes
  None        \* no budget registered

VARIABLES
  budget,   \* budget[k]: terms, used, revoked and created, or None
  pending,  \* pending[k]: the trade that has arrived and is not charged, in a
            \* set of at most one
  spent,    \* spent[k]: the sizes signed against k's budget
  void,     \* the users to whom nothing more is promised
  now

limitVars == <<budget, pending, spent, void, now>>

LimitInit ==
  /\ budget = [k \in Keys |-> None]
  /\ pending = [k \in Keys |-> {}]
  /\ spent = [k \in Keys |-> 0]
  /\ void = {}
  /\ now \in Nat

Register(k) ==
  \E terms \in TermSet, at \in 0 .. now :
    /\ budget' = [budget EXCEPT ![k] =
         [terms |-> terms,
          used |-> IF budget[k] = None THEN 0 ELSE budget[k].used,
          revoked |-> FALSE,
          created |-> IF budget[k] = None THEN at ELSE budget[k].created]]
    /\ UNCHANGED <<pending, spent, void, now>>

Revoke(k) ==
  /\ budget[k] # None
  /\ budget' = [budget EXCEPT ![k].revoked = TRUE]
  /\ UNCHANGED <<pending, spent, void, now>>

\* A trade arrives, and one that was given up is out.
Arrive(k) ==
  \E asset \in Assets, size \in Sizes :
    /\ pending' = [pending EXCEPT
         ![k] = {[asset |-> asset, size |-> size, at |-> now]}]
    /\ UNCHANGED <<budget, spent, void, now>>

\* It is refused, given up, or signed without a budget.
Withdraw(k) ==
  /\ pending' = [pending EXCEPT ![k] = {}]
  /\ UNCHANGED <<budget, spent, void, now>>

\* It is charged, once, to a budget that was open when it arrived.
Charge(k) ==
  \E trade \in pending[k] :
    /\ budget[k] # None
    /\ ~budget[k].revoked
    /\ trade.at <= budget[k].terms.exp
    /\ trade.asset \in budget[k].terms.assets
    /\ trade.size <= budget[k].terms.perMax
    /\ budget[k].used + trade.size <= budget[k].terms.cap
    /\ budget' = [budget EXCEPT ![k].used = @ + trade.size]
    /\ pending' = [pending EXCEPT ![k] = {}]
    /\ UNCHANGED <<spent, void, now>>

\* A charged trade is signed.
Release(k) ==
  \E size \in Sizes :
    /\ budget[k] # None
    /\ spent[k] + size <= budget[k].used
    /\ spent' = [spent EXCEPT ![k] = @ + size]
    /\ UNCHANGED <<budget, pending, void, now>>

\* An expired budget is forgotten, and what was signed against it with it.
Lapse(k) ==
  /\ budget[k] # None
  /\ budget[k].terms.exp < now
  /\ budget' = [budget EXCEPT ![k] = None]
  /\ pending' = [pending EXCEPT ![k] = {}]
  /\ spent' = [spent EXCEPT ![k] = 0]
  /\ void' = void \ {k}
  /\ UNCHANGED now

\* An abandoned request takes effect after a later one, or a budget that this
\* has befallen changes: anything may happen to it, and to no other.
Void(k) ==
  /\ budget' = [budget EXCEPT ![k] = budget'[k]]
  /\ pending' = [pending EXCEPT ![k] = pending'[k]]
  /\ spent' = [spent EXCEPT ![k] = spent'[k]]
  /\ void' = void \cup {k}
  /\ UNCHANGED now

Pass ==
  /\ now' = now + 1
  /\ UNCHANGED <<budget, pending, spent, void>>

LimitNext ==
  \/ \E k \in Keys :
       \/ Register(k) \/ Revoke(k)
       \/ Arrive(k) \/ Withdraw(k) \/ Charge(k) \/ Release(k)
       \/ Lapse(k) \/ Void(k)
  \/ Pass

LimitSpec == LimitInit /\ [][LimitNext]_limitVars
=============================================================================
