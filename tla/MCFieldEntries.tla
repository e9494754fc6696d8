----------------------- MODULE MCFieldEntries -----------------------
(* Small instances of FieldEntries.                                   *)
EXTENDS FieldEntries, TLC

CONSTANTS e1, e2, t1, t2, h1, h2

\* Patient, one call or flush and one request are under way, whichever they are, and
\* one token runs out; what overlaps does so without losses and expired tokens, and until
\* an entry was recorded twice.
Focus ==
  IF patient
  THEN thread[t2] = Rest /\ handler[h2] = Free /\ expired \subseteq Issues
  ELSE losses = 0 /\ expired = {} /\ \A e \in Entries : ledger[e] <= 1
=======================================================================
