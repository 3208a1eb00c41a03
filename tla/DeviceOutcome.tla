--------------------------- MODULE DeviceOutcome ---------------------------
(***************************************************************************)
(* What becomes of device codes (RFC 8628): the decisions users make on    *)
(* them and the tokens devices get for them, with what has to be true of   *)
(* both.  DeviceGrant has the statements and requests that bring it about. *)
(***************************************************************************)
CONSTANTS
  DeviceCode,  \* device authorization requests
  Token        \* ids for the token pairs issued

VARIABLES
  status,      \* status of the row of a code; "none" and "deleted" have no row
  tokenFor,    \* the device code each issued token pair was issued for
  tokenUser,   \* and the user it authenticates
  approvedBy,  \* history: users who approved each code
  answer,      \* history: the last decision a user was told is recorded
  raced        \* history: codes two requests were at work on at the same time

-----------------------------------------------------------------------------
(* Properties *)

\* Whatever stale copies are saved over each other, tokens are issued only in
\* the name of a user who approved that very device code (ExchangeDeviceCode,
\* resolveDeviceCode): a poll never invents or mixes up an approval.
IssuedToApprover ==
  \A t \in Token : tokenFor[t] \in DeviceCode => tokenUser[t] \in approvedBy[tokenFor[t]]

\* "The device code is single-use: remove it before issuing tokens"
\* (ExchangeDeviceCode): one device code yields at most one token pair.  It
\* does not hold of two polls at the same time (README, "Divergences").
SingleUse ==
  \A t1, t2 \in Token : tokenFor[t1] \in DeviceCode /\ tokenFor[t1] = tokenFor[t2] => t1 = t2

\* The same, for the codes that no two requests were ever at work on at once:
\* polls one after the other, and retries of polls that failed half-way, never
\* collect a code twice, though a poll may put a removed row back.
SingleUseInTurn ==
  \A t1, t2 \in Token :
    tokenFor[t1] \in DeviceCode \ raced /\ tokenFor[t1] = tokenFor[t2] => t1 = t2

\* What the verification page tells the user ("Device approved", "Device
\* denied"; applyDeviceDecision) stays so, with the same proviso: the row
\* keeps the decision until the device collects it or it expires.
DecisionIsKept ==
  \A d \in DeviceCode \ raced : answer[d] # "none" => status[d] \in {answer[d], "deleted"}
=============================================================================
