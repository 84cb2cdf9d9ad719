---------------------------- MODULE MediaUploads ----------------------------
(***************************************************************************)
(* Uploaded images: apps/api/src/talaqi/media (service.py, repository.py,  *)
(* cleanup.py and the two storage adapters).                               *)
(*                                                                         *)
(* A record in PostgreSQL and an object in the storage have no transaction *)
(* in common: the storage keeps what was done to it when the record is     *)
(* rolled back.  A completion and a run of the cleanup are transactions,   *)
(* modelled call by call; a client writes to the storage past the API, for *)
(* as long as it has a grant.  A call to the storage may fail, without     *)
(* effect, with it, or with an effect that comes later.  A process may die *)
(* between two calls, and a transaction may lose its connection and its    *)
(* row locks: it goes on until its next statement fails.                   *)
(*                                                                         *)
(* Left out: who may act (a request is modelled for the owner of the       *)
(* record), how an image is judged and re-encoded (verifier.py: bytes are  *)
(* either valid for their record or not), and the idempotency of the two   *)
(* routes (Idempotency).                                                   *)
(***************************************************************************)
EXTENDS Naturals, FiniteSets, FiniteSetsExt

CONSTANTS
    Assets,
    ValidBytes,       \* uploads that the verifier accepts for their record
    InvalidBytes,     \* too large, of another size or type, or malformed
    Requests,         \* the transactions that may be open at once
    None,             \* no object, no bytes
    CleanupLimit,     \* limit of expire_abandoned
    MaxLate           \* bound: calls that failed and may yet have their effect, at once

ASSUME MediaAssumption ==
    /\ CleanupLimit \in Nat \ {0} /\ MaxLate \in Nat
    /\ IsFiniteSet(Assets)
    /\ ValidBytes \cap InvalidBytes = {} /\ None \notin ValidBytes \cup InvalidBytes

VARIABLES
    assets,      \* talaqi.media_assets: status and the digest of the verified bytes
    source,      \* the object under the key of the upload (build_storage_key)
    canonical,   \* the object under the key of the verified image, by what it was made from
    granted,     \* the assets for which somebody holds an upload grant that has not expired
    abandoned,   \* the assets that were created more than 24 hours ago
    covers,      \* the assets that a club, an event or a profile refers to
    reqs,        \* the open transaction of each request
    answers,     \* what the last completion of each asset told its client
    late,        \* the calls to the storage that timed out and may yet have their effect
    strays       \* history: the assets whose image was last written without the row locked

mediaVars == <<assets, source, canonical, granted, abandoned, covers, reqs, answers, late, strays>>
clientVars == <<granted, abandoned, covers>>
storeVars == <<source, canonical, late, strays>>

Bytes == ValidBytes \cup InvalidBytes

Records == [status : {"absent", "pending", "quarantined", "deleted"}, digest : {None}]
             \cup [status : {"verified"}, digest : ValidBytes]

Steps == {"lock", "read", "reject", "replace", "mark", "discard", "commit", "lost"}

\* A completion works on one asset; the cleanup on those it claimed (held), of
\* which todo are still to be deleted and done are marked.  One that has lost its
\* connection is cut: it holds nothing any more and does not know.
Transactions == [op : {"complete", "cleanup", "attach"}, step : Steps,
                 held : SUBSET Assets, todo : SUBSET Assets, done : SUBSET Assets,
                 bytes : ValidBytes \cup {None}, cut : BOOLEAN]

\* A late call writes an image, or deletes an upload.
LateCalls == [asset : Assets, bytes : ValidBytes \cup {None}]

Idle == [op |-> "idle", held |-> {}]

\* One type invariant.  What an object under the key of a verified image was
\* made from passed the verifier.
MediaTypeOK ==
    /\ assets \in [Assets -> Records]
    /\ source \in [Assets -> Bytes \cup {None}]
    /\ canonical \in [Assets -> ValidBytes \cup {None}]
    /\ granted \subseteq Assets /\ abandoned \subseteq Assets /\ covers \subseteq Assets
    /\ \A r \in Requests : reqs[r] \in Transactions \cup {Idle}
    /\ answers \in [Assets -> {"none", "verified", "rejected"}]
    /\ late \subseteq LateCalls /\ strays \subseteq Assets

Pending(a) == assets[a].status = "pending"
Verified(a) == assets[a].status = "verified"
With(status) == [status |-> status, digest |-> None]

MediaInit ==
    /\ assets = [a \in Assets |-> With("absent")]
    /\ source = [a \in Assets |-> None] /\ canonical = [a \in Assets |-> None]
    /\ granted = {} /\ abandoned = {} /\ covers = {}
    /\ reqs = [r \in Requests |-> Idle]
    /\ answers = [a \in Assets |-> "none"]
    /\ late = {} /\ strays = {}

----------------------------------------------------------------------------
(* The client and the storage. *)

\* create_upload_grant signs the key and a time; nothing is stored, so that no
\* grant can be taken back.
Granted(a) == granted \cup {a}

\* create_upload: the record first, then a grant for the key of the upload.
CreateUpload(a) ==
    /\ assets[a].status = "absent"
    /\ assets' = [assets EXCEPT ![a] = With("pending")]
    /\ granted' = Granted(a)

\* resume_upload: a new grant while the record is pending.
ResumeUpload(a) ==
    /\ Pending(a) /\ a \notin granted
    /\ granted' = Granted(a)
    /\ UNCHANGED assets

\* The answer to a request is replayed with a new grant, not with the old one.
RequestUpload(a) ==
    /\ CreateUpload(a) \/ ResumeUpload(a)
    /\ UNCHANGED <<storeVars, abandoned, covers, reqs, answers>>

\* accept_signed_upload asks for a grant that is valid, and for nothing else: the
\* record may be verified or deleted by now.
AcceptUpload(a, b) ==
    /\ a \in granted
    /\ source' = [source EXCEPT ![a] = b]

\* The client writes the object, as often as it likes while a grant is valid.
PutUpload(a, b) ==
    /\ AcceptUpload(a, b)
    /\ UNCHANGED <<clientVars, assets, canonical, reqs, answers, late, strays>>

GrantExpires(a) ==
    /\ a \in granted
    /\ granted' = granted \ {a}
    /\ UNCHANGED <<storeVars, assets, abandoned, covers, reqs, answers>>

DayPasses(a) ==
    /\ assets[a].status # "absent" /\ a \notin abandoned
    /\ abandoned' = abandoned \cup {a}
    /\ UNCHANGED <<storeVars, assets, granted, covers, reqs, answers>>

\* A call that failed, because it was refused or its answer did not come in time,
\* may yet have its effect (_request of s3_storage.py gives up after ten seconds).
MayComeLate(call) ==
    \/ UNCHANGED late
    \/ Cardinality(late) < MaxLate /\ late' = late \cup {call}

\* The upload is deleted, or the call fails.
Deletes(a) ==
    \/ source' = [source EXCEPT ![a] = None] /\ UNCHANGED late
    \/ UNCHANGED source /\ MayComeLate([asset |-> a, bytes |-> None])

\* A late call has its effect, whatever has become of the record since.
Arrive(call) == LET a == call.asset IN
    /\ late' = late \ {call}
    /\ IF call.bytes = None
       THEN source' = [source EXCEPT ![a] = None] /\ UNCHANGED <<canonical, strays>>
       ELSE /\ canonical' = [canonical EXCEPT ![a] = call.bytes]
            /\ strays' = strays \cup {a} /\ UNCHANGED source
    /\ UNCHANGED <<clientVars, assets, reqs, answers>>

----------------------------------------------------------------------------
(* Transactions and row locks. *)

Open(op, step, a) ==
    [op |-> op, step |-> step, held |-> {}, todo |-> {a}, done |-> {}, bytes |-> None,
     cut |-> FALSE]

\* The asset that a completion, or a request that attaches an image, is about.
AssetOf(r) == CHOOSE a \in reqs[r].todo : TRUE

Free(a, r) == \A q \in Requests \ {r} : a \notin reqs[q].held

Goes(r, step) == reqs' = [reqs EXCEPT ![r].step = step]
Ends(r) == reqs' = [reqs EXCEPT ![r] = Idle]

At(r, op, step) == reqs[r] # Idle /\ reqs[r].op = op /\ reqs[r].step = step

Begin(r) ==
    /\ reqs[r] = Idle
    /\ \E op \in {"complete", "attach"}, a \in Assets :
         /\ assets[a].status # "absent"
         /\ reqs' = [reqs EXCEPT ![r] = Open(op, "lock", a)]
    /\ UNCHANGED <<storeVars, clientVars, assets, answers>>

\* Mutant: the completion reads its record without FOR UPDATE.
NothingLocked(r) == {}

\* get_owned(for_update=True): the rows that a completion locks first.
Locked(r) == {AssetOf(r)}

\* The process dies, or its next statement fails: the record is as it was, the
\* storage keeps what it has.
Crash(r) ==
    /\ reqs[r] # Idle
    /\ Ends(r)
    /\ UNCHANGED <<storeVars, clientVars, assets, answers>>

\* The connection is lost before a call to the storage, and the row locks with
\* it; the process finds out at its next statement.
LoseConnection(r) ==
    /\ reqs[r] # Idle /\ ~reqs[r].cut
    /\ reqs[r].step \in {"read", "reject", "replace", "discard"}
    /\ reqs' = [reqs EXCEPT ![r].held = {}, ![r].cut = TRUE]
    /\ UNCHANGED <<storeVars, clientVars, assets, answers>>

----------------------------------------------------------------------------
(* complete_upload. *)

\* The record is read and locked: nothing is left to do for one that is
\* verified, and a record that is neither is not found.
Lock(r) == LET a == AssetOf(r) IN
    /\ At(r, "complete", "lock")
    /\ Free(a, r)
    /\ IF Pending(a)
       THEN /\ reqs' = [reqs EXCEPT ![r].step = "read", ![r].held = Locked(r)]
            /\ UNCHANGED answers
       ELSE /\ Ends(r)
            /\ answers' = IF Verified(a) THEN [answers EXCEPT ![a] = "verified"] ELSE answers
    /\ UNCHANGED <<storeVars, clientVars, assets>>

\* The length that was declared, and verify_and_canonicalize.
Accepted(b) == b \in ValidBytes

\* The object is read and judged.  One that is missing, or cannot be read, leaves
\* everything as it is.
Read(r) == LET b == source[AssetOf(r)] IN
    /\ At(r, "complete", "read")
    /\ \/ Ends(r)
       \/ b # None /\ ~Accepted(b) /\ Goes(r, "reject")
       \/ Accepted(b)
          /\ reqs' = [reqs EXCEPT ![r].step = "replace", ![r].bytes = b]
    /\ UNCHANGED <<storeVars, clientVars, assets, answers>>

\* mark_quarantined, only from pending.
MarkQuarantined(record) ==
    IF record.status = "pending" THEN With("quarantined") ELSE record

\* The error that complete_upload raises next makes get_db_session roll back what
\* _quarantine has marked.
AfterRejection(record, marked) == record

\* The bytes are deleted, whether or not the storage says so, and the client is
\* told that its image is invalid.
Reject(r) == LET a == AssetOf(r) IN
    /\ At(r, "complete", "reject")
    /\ Deletes(a)
    /\ IF reqs[r].cut THEN UNCHANGED <<assets, answers>>
       ELSE /\ assets' = [assets EXCEPT ![a] = AfterRejection(@, MarkQuarantined(@))]
            /\ answers' = [answers EXCEPT ![a] = "rejected"]
    /\ Ends(r)
    /\ UNCHANGED <<clientVars, canonical, strays>>

\* The assets whose image was last written by somebody who did not hold the row.
Strays(r, a) == IF reqs[r].cut THEN strays \cup {a} ELSE strays \ {a}

\* The image is written under a key of its own.  When the storage reports an
\* error, the client is told to try again.
Replace(r) == LET a == AssetOf(r) IN
    /\ At(r, "complete", "replace")
    /\ \/ /\ canonical' = [canonical EXCEPT ![a] = reqs[r].bytes]
          /\ strays' = Strays(r, a)
          /\ Goes(r, "mark") /\ UNCHANGED late
       \/ /\ MayComeLate([asset |-> a, bytes |-> reqs[r].bytes])
          /\ Ends(r) /\ UNCHANGED <<canonical, strays>>
    /\ UNCHANGED <<clientVars, assets, source, answers>>

\* mark_verified, only from pending: otherwise "transition was lost" is raised.
Mark(r) == LET a == AssetOf(r) IN
    /\ At(r, "complete", "mark") /\ ~reqs[r].cut
    /\ Free(a, r)
    /\ IF Pending(a)
       THEN reqs' = [reqs EXCEPT ![r].step = "discard", ![r].held = {a}]
       ELSE Goes(r, "lost")
    /\ UNCHANGED <<storeVars, clientVars, assets, answers>>

\* The upload is no longer needed; that it could not be deleted is ignored.
Discards(r) == Deletes(AssetOf(r)) /\ UNCHANGED <<canonical, strays>>

Discard(r) ==
    /\ At(r, "complete", "discard")
    /\ Discards(r)
    /\ Goes(r, "commit")
    /\ UNCHANGED <<clientVars, assets, answers>>

CommitVerified(r) == LET a == AssetOf(r) IN
    /\ At(r, "complete", "commit") /\ ~reqs[r].cut
    /\ assets' = [assets EXCEPT ![a] = [status |-> "verified", digest |-> reqs[r].bytes]]
    /\ answers' = [answers EXCEPT ![a] = "verified"]
    /\ Ends(r)
    /\ UNCHANGED <<storeVars, clientVars>>

----------------------------------------------------------------------------
(* expire_abandoned, and the use of a verified image. *)

Claimable(a) == a \in abandoned /\ Pending(a)

\* FOR UPDATE SKIP LOCKED.  The oldest records are claimed first: which those
\* are is not modelled.
Claim(r) ==
    /\ reqs[r] = Idle
    /\ LET left == {a \in Assets : Claimable(a) /\ Free(a, r)} IN
       \E batch \in kSubset(Min({CleanupLimit, Cardinality(left)}), left) :
         /\ batch # {}
         /\ reqs' = [reqs EXCEPT ![r] =
              [op |-> "cleanup", step |-> "discard", held |-> batch,
               todo |-> batch, done |-> {}, bytes |-> None, cut |-> FALSE]]
    /\ UNCHANGED <<storeVars, clientVars, assets, answers>>

\* The object of the upload is deleted, the only one whose key a pending record
\* has.  After an error that may pass, the record is left for another run.
DiscardOne(r) ==
    /\ At(r, "cleanup", "discard")
    /\ \E a \in reqs[r].todo :
         /\ Deletes(a)
         /\ \E marked \in SUBSET {a} :
              reqs' = [reqs EXCEPT ![r].todo = @ \ {a}, ![r].done = @ \cup marked]
    /\ UNCHANGED <<clientVars, assets, canonical, answers, strays>>

CommitCleanup(r) ==
    /\ At(r, "cleanup", "discard") /\ reqs[r].todo = {} /\ ~reqs[r].cut
    /\ \A a \in reqs[r].done : Free(a, r)
    /\ assets' = [a \in Assets |->
         IF a \in reqs[r].done /\ Pending(a) THEN With("deleted") ELSE assets[a]]
    /\ Ends(r)
    /\ UNCHANGED <<storeVars, clientVars, answers>>

\* require_verified_owned reads the record without a lock, and the request goes
\* on to write the reference.
CheckVerified(r) ==
    /\ At(r, "attach", "lock")
    /\ IF Verified(AssetOf(r)) THEN Goes(r, "commit") ELSE Ends(r)
    /\ UNCHANGED <<storeVars, clientVars, assets, answers>>

CommitAttached(r) ==
    /\ At(r, "attach", "commit")
    /\ covers' = covers \cup {AssetOf(r)}
    /\ Ends(r)
    /\ UNCHANGED <<storeVars, assets, granted, abandoned, answers>>

\* get_public: a verified image that something public refers to.  That what refers
\* to it is public is not modelled.
Servable(a) == Verified(a) /\ a \in covers

\* get_public_media: what is under the key of the record, by the bytes it was made
\* from, or not found.
Served(a) == IF Servable(a) THEN canonical[a] ELSE None

MediaNext ==
    \/ \E a \in Assets :
         \/ RequestUpload(a) \/ GrantExpires(a) \/ DayPasses(a)
         \/ \E b \in Bytes : PutUpload(a, b)
    \/ \E r \in Requests :
         \/ Begin(r) \/ Crash(r) \/ LoseConnection(r)
         \/ Lock(r) \/ Read(r) \/ Reject(r) \/ Replace(r) \/ Mark(r) \/ Discard(r)
         \/ CommitVerified(r)
         \/ Claim(r) \/ DiscardOne(r) \/ CommitCleanup(r)
         \/ CheckVerified(r) \/ CommitAttached(r)
    \/ \E call \in late : Arrive(call)

MediaSpec == MediaInit /\ [][MediaNext]_mediaVars

----------------------------------------------------------------------------
(* Properties. *)

\* What a verified record, and whatever a club or an event shows, refers to is in
\* the storage: no completion, cleanup, crash, failed or late call takes it away.
\* It is the image whose digest the record states unless a call wrote it that had
\* outlived the lock of its row (get_public of repository.py trusts the key).
CoverIsServed ==
    /\ \A a \in covers : Served(a) # None
    /\ \A a \in Assets : Verified(a) =>
         canonical[a] # None /\ (a \notin strays => canonical[a] = assets[a].digest)

\* The image of a verified record is always the one whose digest the record
\* states.  A completion that has lost its connection, or a write that comes
\* late, breaks it: nothing but the lock of the row keeps the two together.
ImageIsItsDigest == \A a \in Assets : Verified(a) => canonical[a] = assets[a].digest

\* The errors that repository.py raises when a "pending media asset transition
\* was lost" are never raised: whoever verifies a record is alone with it.
TransitionNeverLost ==
    \A r \in Requests : reqs[r] # Idle => reqs[r].step # "lost"

\* Rows and objects keep their shape, and no verifier finds its record changed.
MediaInv == MediaTypeOK /\ TransitionNeverLost

\* A record whose bytes were found invalid is quarantined, and stays so (the
\* Phase 3 design: "Validation failures mark the record quarantined").
RejectedIsQuarantined ==
    \A a \in Assets : answers[a] = "rejected" => assets[a].status = "quarantined"
=============================================================================
