------------------------------ MODULE MCSignIn ------------------------------
(* Small instances of SignIn: mixes of operations that run together.  *)
EXTENDS SignIn, TLC

Enrolling == {"login", "enroll", "failure"}
Resetting == {"login", "enroll", "reset"}
Disabling == {"enroll", "disable", "tick"}
Renewing  == {"device", "enroll", "regenerate"}
Guessing  == {"device", "enroll", "guess", "expiry"}
Browsing  == {"login", "authorize", "consent"}
Leaving   == {"login", "authorize", "logout"}
Statuses  == {"login", "authorize", "consent", "status"}
Barring   == {"login", "enroll", "status"}

Mixes == {Enrolling, Resetting, Disabling, Renewing, Guessing, Browsing, Leaving, Statuses, Barring}

Symmetry == Permutations(Request) \cup Permutations(Secret) \cup Permutations(Recovery)
              \cup Permutations(Session) \cup Permutations(Scope) \cup Permutations(Browser)
=============================================================================
