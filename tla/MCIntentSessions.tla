--------------------------- MODULE MCIntentSessions ---------------------------
(* IntentSessions for TLC: the values of its constants. *)
EXTENDS IntentSessions, TLC

CONSTANTS t1, t2, u1, u2, i1, i2

MCKeys == {RowKey(id) : id \in Ids} \cup {IndexKey(u) : u \in Users}

\* One id for sessions that never expire, one for sessions that do.
MCIntents == {<<i1, 0>>, <<i2, 1>>}

\* Slots are interchangeable, and so are users.
MCSymmetry == Permutations(Tasks) \cup Permutations(Users)
=============================================================================
