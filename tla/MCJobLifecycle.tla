--------------------------- MODULE MCJobLifecycle ---------------------------
(* The instance of JobLifecycle that TLC checks. *)
EXTENDS JobLifecycle, TLC

\* Two forms and two rates; the two forms cost the same at the lower rate.
MCForms == {1, 2}
MCRates == {100, 200}
MCTotal == [fr \in MCForms \X MCRates |-> IF fr[2] = 100 THEN 300 ELSE 300 + fr[1]]

\* Requests are interchangeable; no liveness property is checked.
Symmetric == Permutations(Requests)
=============================================================================
