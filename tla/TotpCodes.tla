--------------------------------- MODULE TotpCodes ---------------------------------
(***************************************************************************)
(* TOTP verification (internal/auth/totp.go): which codes pass at which    *)
(* instant, in seconds since the epoch.  A code is what HMAC makes of a    *)
(* secret and a step; nothing records a code that was used.                *)
(***************************************************************************)
EXTENDS Integers

CONSTANTS
    Secrets,        \* byte strings of TOTPSecretLength
    Code            \* Code[secret][step]: totpCode

TotpPeriod == 30
TotpSkewSteps == 1

Step(at) == at \div TotpPeriod

\* A secret cut short verifies nothing.
VerifyTOTP(secret, code, at) ==
    /\ secret \in Secrets
    /\ \E offset \in -TotpSkewSteps..TotpSkewSteps : Code[secret][Step(at) + offset] = code
====================================================================================
