------------------------------ MODULE Policy -------------------------------
(***************************************************************************)
(* The security policies of src/policy.c: what a request for a given path  *)
(* requires of the user.  The conditions are tried in the code's order     *)
(* (DENY_IF, WARN_IF, PROMPT_IF, ALLOW_IF), the first that holds decides.  *)
(***************************************************************************)
EXTENDS Bip44

Policies == {"DENY", "PROMPT", "WARN", "ALLOW"}

\* Mutant: the prefix is not checked.
MutLacksAddress(path) == ~containsChangeType(path) \/ ~containsAddress(path)

\* The two groups of conditions policyForGetAddress and policyForSignTxInit share.
LacksAddress(path) ==
    \/ ~hasValidFantomPrefix(path)
    \/ ~containsChangeType(path)
    \/ ~containsAddress(path)

IsUnusual(path) ==
    \/ ~hasReasonableAccount(path)
    \/ ~hasReasonableAddress(path)
    \/ containsMoreThanAddress(path)

policyForGetPublicKey(path) ==
    IF ~hasValidFantomPrefix(path) \/ ~containsAccount(path) THEN "DENY"
    ELSE IF ~hasReasonableAccount(path) THEN "WARN"
    ELSE "PROMPT"

policyForGetAddress(path, isShowAddress) ==
    IF LacksAddress(path) THEN "DENY"
    ELSE IF IsUnusual(path) THEN "WARN"
    ELSE IF isShowAddress THEN "PROMPT"
    ELSE "ALLOW"

policyForSignTxInit(path) ==
    IF LacksAddress(path) THEN "DENY"
    ELSE IF IsUnusual(path) THEN "WARN"
    ELSE "PROMPT"

policyForSignTxFinalize == "PROMPT"
============================================================================
