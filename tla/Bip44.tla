------------------------------- MODULE Bip44 -------------------------------
(***************************************************************************)
(* BIP-44 derivation paths (src/bip44.c, src/bip44.h, src/conf.h).         *)
(*                                                                         *)
(* A path element is a 32 bit word whose top bit marks hardened            *)
(* derivation.  The model keeps the two parts of the word apart, which is  *)
(* all the code ever looks at: `hardened` is the top bit, `index` the low  *)
(* 31 bits.  A path is a sequence of elements; path[1] is the code's       *)
(* path->path[0].                                                          *)
(***************************************************************************)
EXTENDS Integers, Sequences, FiniteSetsExt

MAX_INDEX == 2147483647
Element == [hardened : BOOLEAN, index : 0 .. MAX_INDEX]
Path == Seq(Element)

BIP32_MAX_PATH_LENGTH == 10
MAX_REASONABLE_ACCOUNT == 10
MAX_REASONABLE_ADDRESS == 1000000

Hardened(n) == [hardened |-> TRUE, index |-> n]
Normal(n)   == [hardened |-> FALSE, index |-> n]

(***************************************************************************)
(* The payload of a request that carries a path: its size in bytes, the    *)
(* announced number of elements (byte 0), and the elements that follow.    *)
(***************************************************************************)
Wire(size, path) == [size |-> size, announced |-> Len(path), path |-> path]
ExactSize(path) == 4 * Len(path) + 1

\* Mutant: the length of the container is not checked.
MutParsesFromWire(wire) == wire.size >= 1 /\ wire.announced * 4 + 1 = wire.size

\* bip44_parseFromWire, with the callers' check that nothing follows the path.
ParsesFromWire(wire) ==
    /\ wire.size >= 1
    /\ wire.announced <= BIP32_MAX_PATH_LENGTH
    /\ wire.announced * 4 + 1 <= wire.size
    /\ wire.announced * 4 + 1 = wire.size

hasValidFantomPrefix(path) ==
    /\ Len(path) > 1
    /\ path[1] = Hardened(44)
    /\ path[2] = Hardened(60)

containsAccount(path)         == Len(path) > 2
containsChangeType(path)      == Len(path) > 3
containsAddress(path)         == Len(path) > 4
\* Mutant: an off-by-one.
MutContainsMoreThanAddress(path) == Len(path) > 6
containsMoreThanAddress(path) == Len(path) > 5

hasReasonableAccount(path) ==
    /\ containsAccount(path)
    /\ path[3].hardened
    /\ path[3].index < MAX_REASONABLE_ACCOUNT

\* The element is returned as a bool: 0 for the word 0, 1 for every other word.
getChangeType(path) == IF path[4] = Normal(0) THEN 0 ELSE 1

\* No policy calls it, and none would be stricter if it did: see ChangeCheckIsVacuous.
hasValidChangeType(path) ==
    /\ containsChangeType(path)
    /\ getChangeType(path) \in {0, 1}

\* Mutant: only the low bits are compared.
MutHasReasonableAddress(path) ==
    containsAddress(path) /\ path[5].index <= MAX_REASONABLE_ADDRESS

\* The whole word is compared, so a hardened address index is never reasonable.
hasReasonableAddress(path) ==
    /\ containsAddress(path)
    /\ ~path[5].hardened
    /\ path[5].index <= MAX_REASONABLE_ADDRESS

(***************************************************************************)
(* bip44_pathToStr writes "/", the decimal index and, when hardened, an    *)
(* apostrophe for every element.  It asserts that the path is shorter than *)
(* its container and that at least two bytes stay free after each element. *)
(***************************************************************************)
Digits(n) == 1 + Cardinality({k \in 1 .. 9 : 10^k <= n})
ElementStrLen(e) == 1 + Digits(e.index) + (IF e.hardened THEN 1 ELSE 0)
PathStrLen(path) == MapThenSumSet(LAMBDA i : ElementStrLen(path[i]), DOMAIN path)

PathPrints(path, outSize) ==
    /\ Len(path) < BIP32_MAX_PATH_LENGTH
    /\ PathStrLen(path) + 1 < outSize

\* derivePrivateKey refuses a foreign prefix and asserts the same strict bound.
KeyDerivable(path) == Len(path) < BIP32_MAX_PATH_LENGTH
============================================================================
