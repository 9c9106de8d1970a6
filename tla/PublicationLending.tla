-------------------------- MODULE PublicationLending --------------------------
(***************************************************************************)
(* What NativeCatalog promises of one publication, with none of its        *)
(* machinery: no claims, no journal, no lock and no pass that may die.     *)
(*                                                                         *)
(* A snapshot is saved once and, once published, lent to whoever pins it.  *)
(* It is offered only while it is there to stay, may be withdrawn and      *)
(* offered again, and is deleted only in a removal, which begins when      *)
(* nobody holds it, admits nobody any more and is only ever finished.      *)
(***************************************************************************)
CONSTANT Consumer

VARIABLES
    offer,      \* what the publication is to who asks for it
    snapshot,   \* the snapshot, as the provider has it
    published,  \* whether it was published
    doomed,     \* whether the provider was asked to delete it
    pin,        \* per consumer: whether it holds the publication
    given       \* the consumers it was given to

lendingVars == <<offer, snapshot, published, doomed, pin, given>>

LendingInit ==
    /\ offer = "none" /\ snapshot = "none"
    /\ published = FALSE /\ doomed = FALSE
    /\ pin = [c \in Consumer |-> "none"]
    /\ given = {}

\* It is there, and nothing on its way will delete it.
Lendable == published /\ snapshot = "saved" /\ ~doomed

Pin(c) ==
    /\ offer \notin {"removing", "removed"}
    /\ pin[c] # "released"
    /\ pin' = [pin EXCEPT ![c] = "pinned"]
    /\ offer' = IF offer = "none" THEN "open" ELSE offer
    /\ UNCHANGED <<snapshot, published, doomed, given>>

LetGo(c) ==
    /\ pin[c] = "pinned"
    /\ pin' = [pin EXCEPT ![c] = "released"]
    /\ UNCHANGED <<offer, snapshot, published, doomed, given>>

\* The provider is asked once.
Save ==
    /\ offer = "open" /\ ~published /\ snapshot = "none"
    /\ snapshot' = "saving"
    /\ UNCHANGED <<offer, published, doomed, pin, given>>

Saved ==
    /\ snapshot = "saving"
    /\ snapshot' = "saved"
    /\ UNCHANGED <<offer, published, doomed, pin, given>>

\* An attempt that was not published is discarded.
Discard ==
    /\ ~published /\ snapshot = "saved"
    /\ doomed' = TRUE
    /\ UNCHANGED <<offer, snapshot, published, pin, given>>

Publish ==
    /\ offer = "open" /\ ~published
    /\ snapshot = "saved" /\ ~doomed
    /\ published' = TRUE
    /\ UNCHANGED <<offer, snapshot, doomed, pin, given>>

\* It is given to whoever had it built, if it was built for somebody.
Offer ==
    /\ offer = "open" /\ Lendable
    /\ offer' = "ready"
    /\ given' = given \/ \E c \in Consumer : given' = given \cup {c}
    /\ UNCHANGED <<snapshot, published, doomed, pin>>

Withdraw ==
    /\ offer = "ready"
    /\ offer' = "open"
    /\ UNCHANGED <<snapshot, published, doomed, pin, given>>

\* What is given is there, unless its consumer let go of it meanwhile.
Give(c) ==
    /\ pin[c] = "released" \/ (pin[c] = "pinned" /\ Lendable)
    /\ given' = given \cup {c}
    /\ UNCHANGED <<offer, snapshot, published, doomed, pin>>

Retire ==
    /\ offer = "ready"
    /\ \A c \in Consumer : pin[c] # "pinned"
    /\ offer' = "removing"
    /\ UNCHANGED <<snapshot, published, doomed, pin, given>>

Delete ==
    /\ offer = "removing" /\ snapshot = "saved"
    /\ doomed' = TRUE
    /\ UNCHANGED <<offer, snapshot, published, pin, given>>

Deleted ==
    /\ doomed /\ snapshot = "saved"
    /\ snapshot' = "deleted"
    /\ UNCHANGED <<offer, published, doomed, pin, given>>

Remove ==
    /\ offer = "removing" /\ snapshot = "deleted"
    /\ offer' = "removed"
    /\ UNCHANGED <<snapshot, published, doomed, pin, given>>

LendingNext ==
    \/ \E c \in Consumer : Pin(c) \/ LetGo(c) \/ Give(c)
    \/ Save \/ Saved \/ Discard \/ Publish \/ Offer \/ Withdraw
    \/ Retire \/ Delete \/ Deleted \/ Remove

LendingSpec == LendingInit /\ [][LendingNext]_lendingVars
=============================================================================
