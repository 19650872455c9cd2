------------------------- MODULE PathRequestsProofs -------------------------
(***************************************************************************)
(* The policies for every path, not only those TLC enumerates.             *)
(***************************************************************************)
EXTENDS PathRequests, TLAPS

\* The bounds of the indexes are numbers.
LEMMA Bounds == MAX_INDEX \in Nat /\ MAX_REASONABLE_ADDRESS \in Nat
  BY SMT DEF MAX_INDEX, MAX_REASONABLE_ADDRESS

\* The host's paths are paths: what the lemmas below need to look at their elements.
THEOREM PathsAreTyped == Spec => []IsPath
<1>1. Init => IsPath
  BY DEF Init, IsPath, Path
<1>2. IsPath /\ [Next]_path => IsPath'
  BY ElementsAssumption DEF IsPath, Next, Extend, Path
<1>3. QED
  BY <1>1, <1>2, PTL DEF Spec

\* Only a path of exactly five elements is given away without a question, and only
\* with these elements: policyForGetAddress has no other way to its ALLOW_IF.
LEMMA AllowIsStandard ==
    ASSUME NEW p \in Path
    PROVE  policyForGetAddress(p, FALSE) = "ALLOW" <=> IsStandard(p)
<1>1. policyForGetAddress(p, FALSE) = "ALLOW" <=> ~LacksAddress(p) /\ ~IsUnusual(p)
  BY DEF policyForGetAddress
<1>2. ASSUME ~LacksAddress(p), ~IsUnusual(p)
      PROVE  IsStandard(p)
  <2>1. /\ hasValidFantomPrefix(p)
        /\ containsAddress(p)
        /\ hasReasonableAccount(p)
        /\ hasReasonableAddress(p)
        /\ ~containsMoreThanAddress(p)
    BY <1>2 DEF LacksAddress, IsUnusual
  <2>2. Len(p) \in Nat
    BY DEF Path
  <2>3. Len(p) = 5 /\ p[1] = Hardened(44) /\ p[2] = Hardened(60)
    <3>1. Len(p) = 5
      <4>1. Len(p) > 4 /\ ~(Len(p) > 5)
        BY <2>1, Zenon DEF containsAddress, containsMoreThanAddress
      <4>2. \A n \in Nat : n > 4 /\ ~(n > 5) => n = 5
        OBVIOUS
      <4>3. QED
        BY <4>1, <4>2, <2>2, Zenon
    <3>2. p[1] = Hardened(44) /\ p[2] = Hardened(60)
      BY <2>1, Zenon DEF hasValidFantomPrefix
    <3>3. QED
      BY <3>1, <3>2
  <2>4. p[3] \in Element /\ p[5] \in Element
    BY <2>3 DEF Path
  <2>5. p[3] = Hardened(p[3].index) /\ p[3].index \in 0 .. MAX_REASONABLE_ACCOUNT - 1
    <3>1. p[3].index \in Nat /\ p[3] = [hardened |-> p[3].hardened, index |-> p[3].index]
      BY <2>4, Bounds DEF Element
    <3>2. p[3].hardened = TRUE /\ p[3].index < MAX_REASONABLE_ACCOUNT
      BY <2>1, <2>4 DEF hasReasonableAccount, Element
    <3>3. p[3] = Hardened(p[3].index)
      BY <3>1, <3>2, Zenon DEF Hardened
    <3>4. p[3].index \in 0 .. MAX_REASONABLE_ACCOUNT - 1
      BY <3>1, <3>2 DEF MAX_REASONABLE_ACCOUNT
    <3>5. QED
      BY <3>3, <3>4
  <2>6. p[5] = Normal(p[5].index) /\ p[5].index \in 0 .. MAX_REASONABLE_ADDRESS
    <3>1. p[5].index \in Nat /\ p[5] = [hardened |-> p[5].hardened, index |-> p[5].index]
      BY <2>4, Bounds DEF Element
    <3>2. p[5].hardened = FALSE /\ p[5].index <= MAX_REASONABLE_ADDRESS
      BY <2>1, <2>4 DEF hasReasonableAddress, Element
    <3>3. p[5] = Normal(p[5].index)
      BY <3>1, <3>2, Zenon DEF Normal
    <3>4. p[5].index \in 0 .. MAX_REASONABLE_ADDRESS
      BY <3>1, <3>2, Bounds
    <3>5. QED
      BY <3>3, <3>4
  <2>7. QED
    BY <2>3, <2>5, <2>6 DEF IsStandard
<1>3. ASSUME IsStandard(p)
      PROVE  ~LacksAddress(p) /\ ~IsUnusual(p)
  <2>1. Len(p) = 5 /\ p[1] = Hardened(44) /\ p[2] = Hardened(60)
    BY <1>3 DEF IsStandard
  <2>2. p[3].hardened /\ p[3].index < MAX_REASONABLE_ACCOUNT
    BY <1>3 DEF IsStandard, Hardened, MAX_REASONABLE_ACCOUNT
  <2>3. ~p[5].hardened /\ p[5].index <= MAX_REASONABLE_ADDRESS
    BY <1>3, Bounds DEF IsStandard, Normal
  <2>4. QED
    BY <2>1, <2>2, <2>3 DEF LacksAddress, IsUnusual, hasValidFantomPrefix, containsAccount,
       containsChangeType, containsAddress, containsMoreThanAddress, hasReasonableAccount,
       hasReasonableAddress
<1>4. QED
  BY <1>1, <1>2, <1>3

\* No address leaves the device without a word unless its path is a standard one.
THEOREM SilentForStandardPaths == Spec => []SilentIsStandard
<1>1. IsPath => SilentIsStandard
  BY AllowIsStandard DEF IsPath, SilentIsStandard
<1>2. QED
  BY <1>1, PathsAreTyped, PTL

\* Reading a longer path does not change what was read of its beginning.
LEMMA AppendKeeps ==
    ASSUME NEW p \in Path, NEW e \in Element
    PROVE  /\ Append(p, e) \in Path
           /\ Len(Append(p, e)) = Len(p) + 1
           /\ \A i \in 1 .. Len(p) : Append(p, e)[i] = p[i]
  BY DEF Path

\* A policy that accepts a path warns of every longer one; the key policy, which looks
\* at the account only, keeps its verdict.
LEMMA ExtendedVerdicts ==
    ASSUME NEW p \in Path, NEW e \in Element
    PROVE  LET q == Append(p, e)
           IN  /\ ~LacksAddress(p) => ~LacksAddress(q) /\ IsUnusual(q)
               /\ policyForGetPublicKey(p) # "DENY"
                      => policyForGetPublicKey(q) = policyForGetPublicKey(p)
<1> DEFINE q == Append(p, e)
<1>1. /\ Len(q) = Len(p) + 1
      /\ Len(p) \in Nat
      /\ \A i \in 1 .. Len(p) : q[i] = p[i]
  BY AppendKeeps DEF Path
<1> HIDE DEF q
<1>2. ASSUME hasValidFantomPrefix(p) PROVE hasValidFantomPrefix(q)
  BY <1>1, <1>2 DEF hasValidFantomPrefix
<1>3. ASSUME ~LacksAddress(p) PROVE ~LacksAddress(q) /\ IsUnusual(q)
  BY <1>1, <1>2, <1>3 DEF LacksAddress, IsUnusual, containsChangeType, containsAddress,
     containsMoreThanAddress
<1>4. ASSUME containsAccount(p) PROVE hasReasonableAccount(q) <=> hasReasonableAccount(p)
  BY <1>1, <1>4 DEF containsAccount, hasReasonableAccount
<1>5. ASSUME containsAccount(p) PROVE containsAccount(q)
  BY <1>1, <1>5 DEF containsAccount
<1>6. ASSUME policyForGetPublicKey(p) # "DENY"
      PROVE  policyForGetPublicKey(q) = policyForGetPublicKey(p)
  BY <1>2, <1>4, <1>5, <1>6 DEF policyForGetPublicKey
<1>7. QED
  BY <1>3, <1>6 DEF q

\* More elements never buy less scrutiny, whatever the elements and however many.
THEOREM MoreElementsMoreScrutiny == Spec => ScrutinyGrows
<1> DEFINE Grows ==
      /\ policyForSignTxInit(path) # "DENY" => policyForSignTxInit(path') = "WARN"
      /\ \A show \in BOOLEAN :
             policyForGetAddress(path, show) # "DENY"
                 => policyForGetAddress(path', show) = "WARN"
      /\ policyForGetPublicKey(path) # "DENY"
             => policyForGetPublicKey(path') = policyForGetPublicKey(path)
<1>1. IsPath /\ [Next]_path => [Grows]_path
  <2>1. SUFFICES ASSUME IsPath, NEW e \in Elements, Extend(e) PROVE Grows
    BY DEF Next
  <2>2. e \in Element /\ path \in Path /\ path' = Append(path, e)
    BY <2>1, ElementsAssumption DEF IsPath, Extend
  <2>3. /\ ~LacksAddress(path) => ~LacksAddress(path') /\ IsUnusual(path')
        /\ policyForGetPublicKey(path) # "DENY"
               => policyForGetPublicKey(path') = policyForGetPublicKey(path)
    BY <2>2, ExtendedVerdicts
  <2>4. policyForSignTxInit(path) # "DENY" => policyForSignTxInit(path') = "WARN"
    BY <2>3 DEF policyForSignTxInit
  <2>5. ASSUME NEW show \in BOOLEAN, policyForGetAddress(path, show) # "DENY"
        PROVE  policyForGetAddress(path', show) = "WARN"
    BY <2>3, <2>5 DEF policyForGetAddress
  <2>6. QED
    BY <2>3, <2>4, <2>5
<1>2. QED
  BY <1>1, PathsAreTyped, PTL DEF Spec, ScrutinyGrows

\* The three policies never contradict each other about the prefix or the account.
THEOREM PoliciesNeverDisagree == Spec => []PoliciesAgree
<1>1. ASSUME IsPath, policyForGetPublicKey(path) = "DENY"
      PROVE  LacksAddress(path)
  <2>1. ~hasValidFantomPrefix(path) \/ ~containsAccount(path)
    BY <1>1 DEF policyForGetPublicKey
  <2>2. IsPath /\ ~containsAccount(path) => ~containsChangeType(path)
    BY DEF IsPath, Path, containsAccount, containsChangeType
  <2>3. QED
    BY <1>1, <2>1, <2>2 DEF LacksAddress
<1>2. ASSUME policyForGetPublicKey(path) = "WARN"
      PROVE  IsUnusual(path)
  BY <1>2 DEF policyForGetPublicKey, IsUnusual
<1>3. IsPath => PoliciesAgree
  BY <1>1, <1>2 DEF PoliciesAgree, policyForGetAddress, policyForSignTxInit
<1>4. QED
  BY <1>3, PathsAreTyped, PTL

\* bip44_hasValidChangeType "implements check for valid chain type" (its comment), but
\* bip44_getChangeType returns a bool: the check accepts every path that has the element,
\* hardened or not and of any index, so that calling it would not settle UnusualChangeIsWarned.
THEOREM ChangeCheckIsVacuous ==
    \A p \in Path : hasValidChangeType(p) <=> containsChangeType(p)
  BY DEF hasValidChangeType, getChangeType
============================================================================
