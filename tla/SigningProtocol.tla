-------------------------- MODULE SigningProtocol --------------------------
(***************************************************************************)
(* What signing promises, without screens, requests or memory: a signature *)
(* for a path and a transaction is released once, after the transaction    *)
(* was started for the path with the user's consent, loaded, and put to    *)
(* the user under that path.  Anything may end the process at any time,    *)
(* and nothing of an ended process is left.                                *)
(***************************************************************************)
CONSTANTS
    Paths,      \* the paths a transaction can be signed for
    Txs,        \* the transactions
    Signable,   \* those for the application's own chain
    None        \* no path, no transaction, no signature

VARIABLES
    phase,      \* how far the process is
    path, tx,   \* what it is about
    released    \* the signature the last step released, None if it did not

pvars == <<phase, path, tx, released>>

PInit ==
    /\ phase = "idle"
    /\ path = None
    /\ tx = None
    /\ released = None

\* A host asks to sign for p; the user has yet to agree.
Ask(p) ==
    /\ phase = "idle"
    /\ phase' = "asked"
    /\ path' = p
    /\ tx' = None
    /\ released' = None

Agree ==
    /\ phase = "asked"
    /\ phase' = "loading"
    /\ released' = None
    /\ UNCHANGED <<path, tx>>

Load(t) ==
    /\ phase = "loading"
    /\ phase' = "loaded"
    /\ tx' = t
    /\ released' = None
    /\ UNCHANGED path

Review ==
    /\ phase = "loaded"
    /\ tx \in Signable
    /\ phase' = "review"
    /\ released' = None
    /\ UNCHANGED <<path, tx>>

Release ==
    /\ phase = "review"
    /\ released' = <<path, tx>>
    /\ phase' = "idle"
    /\ path' = None
    /\ tx' = None

\* Refusal by the user, error, reset; also a step that concerns signing not at all.
Abandon ==
    /\ released' = None
    /\ phase' = "idle"
    /\ path' = None
    /\ tx' = None

\* The released signature has been read.
Proceed ==
    /\ released' = None
    /\ UNCHANGED <<phase, path, tx>>

PNext ==
    \/ \E p \in Paths : Ask(p)
    \/ Agree
    \/ \E t \in Txs : Load(t)
    \/ Review
    \/ Release
    \/ Abandon
    \/ Proceed

PSpec == PInit /\ [][PNext]_pvars
============================================================================
