---------------------------- MODULE NativeCatalog ----------------------------
(***************************************************************************)
(* One publication of a Boat native image: its catalog row, the consumers  *)
(* pinned to it, and what the builder keeps of it outside the database, a  *)
(* journal on disk under a kernel lock and a snapshot at the provider.     *)
(*                                                                         *)
(* A pass is one call of the catalog: an acquisition for a consumer, the   *)
(* reconciliation of a journal, or the removal of a candidate.  A pass     *)
(* that is over begins again as another one.  Claims lapse at any moment   *)
(* and a pass may die between any two steps, its lock with it.  A claim's  *)
(* token is drawn for it, so that token and generation fence as one.       *)
(***************************************************************************)
CONSTANTS
    Consumer,   \* the runs that acquire the publication
    Pass,       \* the calls of the catalog under way
    Nobody      \* no holder

ASSUME CatalogAssumption == Nobody \notin Consumer \cup Pass

VARIABLES
    state,      \* native_publications.state, "none" without a row
    reason,     \* reason: none, one of removal pending, another
    holder,     \* claim_token: the pass that took the claim
    purpose,    \* claim_purpose
    live,       \* claim_until > clock_timestamp()
    pin,        \* native_publication_consumers.state
    journal,    \* the journal's phase, running standing for its cleanup too
    removal,    \* the journal's removal
    snapshot,   \* the saved snapshot, as the provider knows it
    doomed,     \* the provider was asked to delete it
    lock,       \* the pass that holds the journal's kernel lock
    pc,         \* per pass: where it stands
    caller,     \* per pass: the consumer it acquires for
    served      \* the consumers whose acquisition returned

claimVars   == <<holder, purpose, live>>
rowVars     == <<state, reason, claimVars>>
builderVars == <<journal, removal, snapshot, doomed, lock>>
passVars    == <<pc, caller>>
catalogVars == <<rowVars, pin, builderVars, passVars, served>>

State   == {"none", "reserved", "building", "ready", "quarantined", "retiring", "removed"}
Purpose == {"build", "reconcile", "remove"}
Want    == [build |-> "wantsBuild", reconcile |-> "wantsReconcile", remove |-> "wantsRemove"]
Claimed == [build |-> "building", reconcile |-> "reconciling", remove |-> "removing"]
Point   == {"idle", "checking", "looking", "rejecting", "verifying", "examining",
            "wantsBuild", "wantsReconcile", "wantsRemove", "building", "reconciling",
            "removing", "saving", "recovering", "publishing", "failing",
            "retiring", "deleting", "clearing", "removalFailing"}
Locked  == {"saving", "recovering", "examining", "deleting"}

CatalogTypes ==
    /\ state \in State /\ reason \in {"none", "pending", "other"}
    /\ holder \in Pass \cup {Nobody} /\ purpose \in Purpose \cup {"none"} /\ live \in BOOLEAN
    /\ pin \in [Consumer -> {"none", "pinned", "released"}]
    /\ journal \in {"none", "running", "abandoned", "published"}
    /\ removal \in {"none", "intent", "complete"}
    /\ snapshot \in {"none", "saving", "saved", "deleted"} /\ doomed \in BOOLEAN
    /\ lock \in Pass \cup {Nobody}
    /\ pc \in [Pass -> Point] /\ caller \in [Pass -> Consumer \cup {Nobody}]
    /\ served \in SUBSET Consumer

\* The types; a claim is whole or absent, and the lock is held exactly by a
\* pass at work on the journal (clearClaim, lockAttempt).
CatalogTypeOK ==
    /\ CatalogTypes
    /\ (holder = Nobody) = (purpose = "none") /\ (live => holder # Nobody)
    /\ \A p \in Pass : (lock = p) = (pc[p] \in Locked)

CatalogInit ==
    /\ state = "none" /\ reason = "none"
    /\ holder = Nobody /\ purpose = "none" /\ live = FALSE
    /\ pin = [c \in Consumer |-> "none"]
    /\ journal = "none" /\ removal = "none" /\ snapshot = "none" /\ doomed = FALSE
    /\ lock = Nobody
    /\ pc = [p \in Pass |-> "idle"] /\ caller = [p \in Pass |-> Nobody]
    /\ served = {}

Goto(p, point) == pc' = [pc EXCEPT ![p] = point]

RemovalBegun == state = "retiring" \/ (state = "quarantined" /\ reason = "pending")
Unpinned     == \A c \in Consumer : pin[c] # "pinned"
Fence(p)     == holder = p /\ live

ClearClaim == holder' = Nobody /\ purpose' = "none" /\ live' = FALSE

-----------------------------------------------------------------------------
(***************************************************************************)
(* Beginnings: each reads the row, and goes by what it read.               *)
(***************************************************************************)

\* acquire: reserve inserts or finds the publication and pins its consumer.
Reserve(p, c) ==
    /\ pc[p] = "idle"
    /\ state # "removed" /\ ~RemovalBegun /\ pin[c] # "released"
    /\ state' = IF state = "none" THEN "reserved" ELSE state
    /\ pin' = [pin EXCEPT ![c] = "pinned"]
    /\ caller' = [caller EXCEPT ![p] = c]
    /\ Goto(p, CASE state \in {"none", "reserved"} -> "wantsBuild"
                 [] state = "building"             -> "wantsReconcile"
                 [] state = "ready"                -> "checking"
                 [] state = "quarantined"          -> "idle")
    /\ UNCHANGED <<reason, claimVars, builderVars, served>>

\* reconcileRecord, of a listed journal.
Reconcile(p) ==
    /\ pc[p] = "idle"
    /\ journal # "none" /\ state # "removed"
    /\ caller' = [caller EXCEPT ![p] = Nobody]
    /\ Goto(p, IF RemovalBegun THEN "retiring"
               ELSE IF state = "ready" THEN "verifying" ELSE "wantsReconcile")
    /\ UNCHANGED <<rowVars, pin, builderVars, served>>

\* reap, of a candidate.
Reap(p) ==
    /\ pc[p] = "idle"
    /\ state = "ready" \/ RemovalBegun
    /\ caller' = [caller EXCEPT ![p] = Nobody]
    /\ Goto(p, "retiring")
    /\ UNCHANGED <<rowVars, pin, builderVars, served>>

-----------------------------------------------------------------------------
(***************************************************************************)
(* A ready publication is checked before it is given out, and on sweeps.   *)
(***************************************************************************)

Serve(p) == served' = served \cup ({caller[p]} \ {Nobody})

\* findPublished reads the journal, then asks the provider, under no lock.
CheckJournal(p) ==
    /\ pc[p] = "checking"
    /\ \/ removal = "none" /\ journal = "published" /\ Goto(p, "looking")
       \/ Goto(p, "rejecting")
    /\ UNCHANGED <<rowVars, pin, builderVars, caller, served>>

LookForSnapshot(p) ==
    /\ pc[p] = "looking"
    /\ \/ snapshot = "saved" /\ Serve(p) /\ Goto(p, "idle")
       \/ Goto(p, "rejecting") /\ UNCHANGED served
    /\ UNCHANGED <<rowVars, pin, builderVars, caller>>

\* rejectReady: whatever failed, a publication still ready is quarantined.
RejectReady(p) ==
    /\ pc[p] = "rejecting"
    /\ \/ state = "ready" /\ state' = "quarantined" /\ reason' = "other" /\ ClearClaim
       \/ state # "ready" /\ UNCHANGED rowVars
    /\ Goto(p, "idle")
    /\ UNCHANGED <<pin, builderVars, caller, served>>

-----------------------------------------------------------------------------
(***************************************************************************)
(* Claims and the lock.                                                    *)
(***************************************************************************)

\* Mutant: a publication in quarantine is reconciled whatever for.
Claimable_AnyReason(for) ==
    CASE for = "build"     -> state = "reserved"
      [] for = "remove"    -> state = "retiring"
      [] for = "reconcile" -> state \in {"reserved", "building", "quarantined"}

Claimable(for) ==
    CASE for = "build"     -> state = "reserved"
      [] for = "remove"    -> state = "retiring"
      [] for = "reconcile" -> state \in {"reserved", "building", "quarantined"} /\ ~RemovalBegun

TakeClaim(p, for) ==
    /\ pc[p] = Want[for]
    /\ \/ /\ Claimable(for) /\ ~live
          /\ holder' = p /\ purpose' = for /\ live' = TRUE
          /\ state' = IF for = "build" THEN "building" ELSE state
          /\ Goto(p, Claimed[for])
       \/ /\ ~Claimable(for) \/ live
          /\ Goto(p, "idle")
          /\ UNCHANGED <<state, claimVars>>
    /\ UNCHANGED <<reason, pin, builderVars, caller, served>>

LapseClaim ==
    /\ live
    /\ live' = FALSE
    /\ UNCHANGED <<state, reason, holder, purpose, pin, builderVars, passVars, served>>

\* native-attempt-busy: the claim, where there is one, is released.
Busy(p) ==
    /\ pc[p] \in {"building", "reconciling", "removing", "verifying"}
    /\ lock # Nobody
    /\ IF pc[p] # "verifying" /\ Fence(p) THEN ClearClaim ELSE UNCHANGED claimVars
    /\ Goto(p, "idle")
    /\ UNCHANGED <<state, reason, pin, builderVars, caller, served>>

\* Mutant: the journal is read and written under no lock.
LockAttempt_Shared(p) == lock' = p

\* lockAttempt.
LockAttempt(p) == lock = Nobody /\ lock' = p

Unlock == lock' = Nobody

-----------------------------------------------------------------------------
(***************************************************************************)
(* The build, and the recovery of one.                                     *)
(***************************************************************************)

\* build begins its journal, or recovers the one that is there.
StartBuild(p) ==
    /\ pc[p] = "building"
    /\ LockAttempt(p)
    /\ journal' = IF journal = "none" THEN "running" ELSE journal
    /\ Goto(p, IF journal = "none" THEN "saving" ELSE "recovering")
    /\ UNCHANGED <<rowVars, pin, removal, snapshot, doomed, caller, served>>

StartRecovery(p) ==
    /\ pc[p] = "reconciling"
    /\ LockAttempt(p)
    /\ Goto(p, "recovering")
    /\ UNCHANGED <<rowVars, pin, journal, removal, snapshot, doomed, caller, served>>

\* The call fails before it is at the journal.
NeverStarts(p) ==
    /\ \/ pc[p] \in {"building", "reconciling"} /\ Goto(p, "failing")
       \/ pc[p] = "removing" /\ Goto(p, "removalFailing")
       \/ pc[p] = "verifying" /\ Goto(p, "rejecting")
    /\ UNCHANGED <<rowVars, pin, builderVars, caller, served>>

\* saveOnceThenObserve: the intent is journalled, the provider asked once.
AskToSave(p) ==
    /\ pc[p] = "saving" /\ snapshot = "none"
    /\ snapshot' = "saving"
    /\ UNCHANGED <<rowVars, pin, journal, removal, doomed, lock, passVars, served>>

\* The journal is published; what comes after may still fail the build.
FinishBuild(p) ==
    /\ pc[p] = "saving" /\ snapshot = "saved"
    /\ journal' = "published" /\ Unlock
    /\ Goto(p, "publishing") \/ Goto(p, "failing")
    /\ UNCHANGED <<rowVars, pin, removal, snapshot, doomed, caller, served>>

\* A failed build cleans its attempt up as a recovery would.
BuildFails(p) ==
    /\ pc[p] = "saving"
    /\ Goto(p, "recovering")
    /\ UNCHANGED <<rowVars, pin, builderVars, caller, served>>

\* An attempt that was not published is discarded, its snapshot first.
Discardable == journal = "running" /\ snapshot = "saved"

AskToDiscard(p) ==
    /\ pc[p] = "recovering"
    /\ Discardable
    /\ doomed' = TRUE
    /\ UNCHANGED <<rowVars, pin, journal, removal, snapshot, lock, passVars, served>>

\* reconcileBuild: adopted as published, or abandoned; or it fails.
Recover(p) ==
    /\ pc[p] = "recovering"
    /\ Unlock
    /\ \/ /\ journal = "published" /\ removal = "none" /\ snapshot = "saved"
          /\ Goto(p, "publishing") /\ UNCHANGED journal
       \/ /\ journal = "running" /\ snapshot \in {"none", "deleted"}
          /\ journal' = "abandoned" /\ Goto(p, "failing")
       \/ Goto(p, "failing") /\ UNCHANGED journal
    /\ UNCHANGED <<rowVars, pin, removal, snapshot, doomed, caller, served>>

\* The same of a ready publication: it agrees, or is rejected.
StartExamination(p) ==
    /\ pc[p] = "verifying"
    /\ LockAttempt(p)
    /\ Goto(p, "examining")
    /\ UNCHANGED <<rowVars, pin, journal, removal, snapshot, doomed, caller, served>>

Examine(p) ==
    /\ pc[p] = "examining"
    /\ Unlock
    /\ \/ journal = "published" /\ removal = "none" /\ snapshot = "saved" /\ Goto(p, "idle")
       \/ Goto(p, "rejecting")
    /\ UNCHANGED <<rowVars, pin, journal, removal, snapshot, doomed, caller, served>>

\* What publish accepts of a claim's purpose.
Publishable ==
    /\ reason # "pending"
    /\ state \in IF purpose = "reconcile" THEN {"reserved", "building", "quarantined"}
                                          ELSE {"building"}

Publish(p) ==
    /\ pc[p] = "publishing"
    /\ \/ /\ Fence(p) /\ Publishable
          /\ state' = "ready" /\ reason' = "none" /\ ClearClaim
          /\ Serve(p)
       \/ ~(Fence(p) /\ Publishable) /\ UNCHANGED <<rowVars, served>>
    /\ Goto(p, "idle")
    /\ UNCHANGED <<pin, builderVars, caller>>

FailureReason(p) == IF pc[p] = "removalFailing" THEN "pending" ELSE "other"

Quarantine(p) ==
    /\ pc[p] \in {"failing", "removalFailing"}
    /\ \/ /\ Fence(p) /\ state # "removed"
          /\ state' = "quarantined" /\ reason' = FailureReason(p) /\ ClearClaim
       \/ ~(Fence(p) /\ state # "removed") /\ UNCHANGED rowVars
    /\ Goto(p, "idle")
    /\ UNCHANGED <<pin, builderVars, caller, served>>

-----------------------------------------------------------------------------
(***************************************************************************)
(* The removal.                                                            *)
(***************************************************************************)

\* Mutant: a publication is retired though consumers are pinned to it.
Retirable_Pinned == state = "ready" \/ RemovalBegun

Retirable == state = "retiring" \/ ((state = "ready" \/ RemovalBegun) /\ Unpinned)

\* retire: ready, unpinned and old enough, or retired before.
Retire(p) ==
    /\ pc[p] = "retiring"
    /\ \/ /\ Retirable
          /\ state' = "retiring"
          /\ IF state = "retiring" THEN UNCHANGED claimVars ELSE ClearClaim
          /\ Goto(p, "wantsRemove")
       \/ state # "retiring" /\ Goto(p, "idle") /\ UNCHANGED <<state, claimVars>>
    /\ UNCHANGED <<reason, pin, builderVars, caller, served>>

StartRemoval(p) ==
    /\ pc[p] = "removing"
    /\ LockAttempt(p)
    /\ Goto(p, "deleting")
    /\ UNCHANGED <<rowVars, pin, journal, removal, snapshot, doomed, caller, served>>

\* The intent is journalled before the provider is asked.
AskToDelete(p) ==
    /\ pc[p] = "deleting"
    /\ removal # "complete" /\ snapshot = "saved"
    /\ removal' = "intent" /\ doomed' = TRUE
    /\ UNCHANGED <<rowVars, pin, journal, snapshot, lock, passVars, served>>

EndRemoval(p) ==
    /\ pc[p] = "deleting"
    /\ Unlock
    /\ \/ /\ removal = "complete" \/ snapshot = "deleted"
          /\ removal' = "complete" /\ Goto(p, "clearing")
       \/ Goto(p, "removalFailing") /\ UNCHANGED removal
    /\ UNCHANGED <<rowVars, pin, journal, snapshot, doomed, caller, served>>

\* removed.
Removed(p) ==
    /\ pc[p] = "clearing"
    /\ \/ /\ Fence(p) /\ state = "retiring" /\ Unpinned
          /\ state' = "removed" /\ ClearClaim
       \/ ~(Fence(p) /\ state = "retiring" /\ Unpinned) /\ UNCHANGED <<state, claimVars>>
    /\ Goto(p, "idle")
    /\ UNCHANGED <<reason, pin, builderVars, caller, served>>

-----------------------------------------------------------------------------
\* changeConsumer, to released.
Release(c) ==
    /\ pin[c] = "pinned"
    /\ pin' = [pin EXCEPT ![c] = "released"]
    /\ UNCHANGED <<rowVars, builderVars, passVars, served>>

\* What the provider was asked for, whatever became of the asker.
ProviderSaves ==
    /\ snapshot = "saving"
    /\ snapshot' = "saved"
    /\ UNCHANGED <<rowVars, pin, journal, removal, doomed, lock, passVars, served>>

ProviderDeletes ==
    /\ doomed /\ snapshot = "saved"
    /\ snapshot' = "deleted"
    /\ UNCHANGED <<rowVars, pin, journal, removal, doomed, lock, passVars, served>>

PassDies(p) ==
    /\ pc[p] # "idle"
    /\ Goto(p, "idle")
    /\ lock' = IF lock = p THEN Nobody ELSE lock
    /\ UNCHANGED <<rowVars, pin, journal, removal, snapshot, doomed, caller, served>>

PassStep(p) ==
    \/ \E c \in Consumer : Reserve(p, c)
    \/ Reconcile(p) \/ Reap(p)
    \/ CheckJournal(p) \/ LookForSnapshot(p) \/ RejectReady(p)
    \/ \E for \in Purpose : TakeClaim(p, for)
    \/ Busy(p) \/ NeverStarts(p)
    \/ StartBuild(p) \/ AskToSave(p) \/ FinishBuild(p) \/ BuildFails(p)
    \/ StartRecovery(p) \/ AskToDiscard(p) \/ Recover(p)
    \/ StartExamination(p) \/ Examine(p)
    \/ Publish(p) \/ Quarantine(p)
    \/ Retire(p) \/ StartRemoval(p) \/ AskToDelete(p) \/ EndRemoval(p) \/ Removed(p)
    \/ PassDies(p)

ProviderStep == ProviderSaves \/ ProviderDeletes

CatalogNext ==
    \/ \E p \in Pass : PassStep(p)
    \/ \E c \in Consumer : Release(c)
    \/ LapseClaim \/ ProviderStep

CatalogSpec == CatalogInit /\ [][CatalogNext]_catalogVars

-----------------------------------------------------------------------------
\* What the catalog offers is there to be offered, and nothing on its way will
\* delete it: not a late answer to a discarded attempt's deletion, not a removal
\* (publish, rejectReady, retire, lockAttempt).
ReadyIsSaved ==
    state = "ready" =>
        journal = "published" /\ removal = "none" /\ snapshot = "saved" /\ ~doomed

\* A consumer that was given the publication and has not released it still
\* finds its snapshot, however often it is rejected, reconciled or reaped
\* meanwhile (reserve, retire, removed).
GivenIsKept ==
    \A c \in served : pin[c] = "pinned" => snapshot = "saved" /\ ~doomed

\* A removal that began is only ever finished: the publication is not built,
\* offered or adopted again, whichever pass fails, lapses or dies
\* (retire, quarantine with native-removal-pending, claim).
RemovalIsFinal ==
    [][RemovalBegun \/ state = "removed" => RemovalBegun' \/ state' = "removed"]_catalogVars

-----------------------------------------------------------------------------
(***************************************************************************)
(* The publication as its consumers see it.                                *)
(***************************************************************************)
OfferedAs ==
    CASE RemovalBegun                          -> "removing"
      [] state \in {"none", "ready", "removed"} -> state
      [] OTHER                                 -> "open"

Lending == INSTANCE PublicationLending WITH
    offer     <- OfferedAs,
    published <- journal = "published",
    given     <- served

\* Whatever claims lapse and whichever passes die or are late, the publication
\* is lent as PublicationLending says: offered only while it is there to stay,
\* deleted only in a removal that nobody holds or can take it in
\* (reserve, publish, rejectReady, retire, lockAttempt).
ImplementsLending == Lending!LendingSpec

=============================================================================
