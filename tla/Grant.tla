------------------------------- MODULE Grant -------------------------------
(***************************************************************************)
(* What the token service promises of a grant, the consent given with one  *)
(* authorization code and the refresh tokens that descend from it          *)
(* (ExchangeAuthorizationCode, RefreshTokens and revokeTokenFamily of      *)
(* internal/services/auth_service_impl.go), without requests, tables or    *)
(* statements.  The next refresh token reaches the client only when every  *)
(* earlier one has been used, and a grant that is over stays over: none of *)
(* its tokens can be used, and it yields no more.  One statement may end   *)
(* many grants, so any of them may take a step.                            *)
(***************************************************************************)
CONSTANTS Grants, Token

VARIABLES
  phase,    \* "none", "consented", "open" or "over"
  issued,   \* the refresh tokens that clients got
  used      \* those that have been used or withdrawn

vars == <<phase, issued, used>>

Init ==
  /\ phase = [g \in Grants |-> "none"]
  /\ issued = [g \in Grants |-> {}]
  /\ used = [g \in Grants |-> {}]

Keep(g) == issued'[g] = issued[g] /\ used'[g] = used[g]

Stay(g) == phase'[g] = phase[g] /\ Keep(g)

\* The user consents; the client may come for the first token
Consent(g) ==
  /\ phase[g] = "none" /\ phase'[g] = "consented"
  /\ Keep(g)

Open(g) ==
  /\ phase[g] = "consented" /\ phase'[g] = "open"
  /\ Keep(g)

\* A token may have been withdrawn before it reaches its client, even with the whole grant
Issue(g, t) ==
  /\ phase[g] = "open" /\ issued[g] = used[g]
  /\ \A h \in Grants : t \notin issued[h]
  /\ issued'[g] = issued[g] \cup {t}
  /\ \/ phase'[g] = "open" /\ used'[g] = used[g]
     \/ phase'[g] \in {"open", "over"} /\ used'[g] = issued'[g]

Use(g, tokens) ==
  /\ phase[g] = "open" /\ phase'[g] = "open"
  /\ issued'[g] = issued[g]
  /\ used'[g] = used[g] \cup tokens

\* The grant is revoked, expires or fails: nothing of it is left to use
End(g) ==
  /\ phase[g] \in {"consented", "open"} /\ phase'[g] = "over"
  /\ issued'[g] = issued[g]
  /\ used'[g] = issued[g]

Step(g) ==
  \/ Stay(g) \/ Consent(g) \/ Open(g) \/ End(g)
  \/ \E t \in Token : Issue(g, t)
  \/ \E tokens \in SUBSET issued[g] : Use(g, tokens)

Next == \A g \in Grants : Step(g)

Spec == Init /\ [][Next]_vars
=============================================================================
