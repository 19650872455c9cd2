---------------------------- MODULE PathRequests ----------------------------
(***************************************************************************)
(* The policies as a host meets them that asks for a path, then for one    *)
(* that is an element longer, and so on.                                   *)
(***************************************************************************)
EXTENDS Policy

CONSTANTS
    Elements,   \* the path elements the host uses
    MaxLength   \* bound: the longest path it asks for

ASSUME ElementsAssumption == Elements \subseteq Element
ASSUME MaxLengthAssumption == MaxLength \in Nat

VARIABLE path

Init == path = <<>>

Extend(e) ==
    /\ Len(path) < MaxLength
    /\ path' = Append(path, e)

Next == \E e \in Elements : Extend(e)

Spec == Init /\ [][Next]_path

-----------------------------------------------------------------------------

IsPath == path \in Path

\* m/44'/60'/account'/change/address with an account and an address in use.
IsStandard(p) ==
    /\ Len(p) = 5
    /\ p[1] = Hardened(44)
    /\ p[2] = Hardened(60)
    /\ \E n \in 0 .. MAX_REASONABLE_ACCOUNT - 1 : p[3] = Hardened(n)
    /\ \E n \in 0 .. MAX_REASONABLE_ADDRESS : p[5] = Normal(n)

\* An address is given away without asking the user for standard paths only, and for
\* all of them (policyForGetAddress, ALLOW_IF at its end).
SilentIsStandard ==
    policyForGetAddress(path, FALSE) = "ALLOW" <=> IsStandard(path)

\* What a policy has once accepted it never denies for being longer, and what it has
\* once warned of it warns of in every longer path: more elements never buy less
\* scrutiny (policyForGetPublicKey, policyForGetAddress, policyForSignTxInit).
ScrutinyGrows ==
    [][/\ policyForSignTxInit(path) # "DENY" => policyForSignTxInit(path') = "WARN"
       /\ \A show \in BOOLEAN :
              policyForGetAddress(path, show) # "DENY"
                  => policyForGetAddress(path', show) = "WARN"
       /\ policyForGetPublicKey(path) # "DENY"
              => policyForGetPublicKey(path') = policyForGetPublicKey(path)]_path

\* A path that is denied a key is denied an address and a signature, and no address is
\* given without a word under an account that the user is warned of when the key is
\* exported (policyForGetPublicKey against the other two).
PoliciesAgree ==
    /\ policyForGetPublicKey(path) = "DENY"
           => policyForGetAddress(path, FALSE) = "DENY" /\ policyForSignTxInit(path) = "DENY"
    /\ policyForGetPublicKey(path) = "WARN"
           => policyForGetAddress(path, FALSE) \in {"DENY", "WARN"}

\* The fourth element of a path of the standard (doc/cmd_get_address.md: "Constant 0x0 is
\* used for external chain and constant 0x1 for internal chain").
HasBip44Change(p) == Len(p) > 3 /\ p[4] \in {Normal(0), Normal(1)}

\* doc/cmd_get_address.md: "The user is warned about unusual request if the path does
\* not follow BIP44 standard."  The policy looks for a fourth element, never at it.
UnusualChangeIsWarned ==
    policyForGetAddress(path, FALSE) = "ALLOW" => HasBip44Change(path)
============================================================================
