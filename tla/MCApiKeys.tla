----------------------------- MODULE MCApiKeys -----------------------------
(* TLC instances of ApiKeys: the forms that requests carry.                   *)
EXTENDS ApiKeys, TLC

NoEdit == [remaining |-> None, enabled |-> None, lasts |-> None, limited |-> None,
           max |-> None]
Plain == [remaining |-> None, refill |-> None, lasts |-> None, limited |-> FALSE,
          max |-> None]

\* A key that runs out of time and refills, one that runs out of uses for good, and
\* a limited one.
Forms == {[Plain EXCEPT !.lasts = 1, !.remaining = 1, !.refill = 1],
          [Plain EXCEPT !.remaining = 1],
          [Plain EXCEPT !.limited = TRUE, !.max = 2]}
Renewals == {[NoEdit EXCEPT !.lasts = 1], [NoEdit EXCEPT !.remaining = 1, !.enabled = FALSE],
             [NoEdit EXCEPT !.enabled = TRUE]}
Refills == {[Plain EXCEPT !.remaining = 1, !.refill = 2]}
NoForms == {}

Symmetry == Permutations(Users) \cup Permutations(Keys) \cup Permutations(Requests)
=============================================================================
