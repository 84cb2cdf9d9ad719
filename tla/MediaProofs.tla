------------------------------ MODULE MediaProofs ------------------------------
(***************************************************************************)
(* Theorems about uploaded images, for every number of images, requests    *)
(* and runs of the cleanup: what a verified record or a cover shows is in  *)
(* the storage, and whoever verifies a record is alone with it.            *)
(***************************************************************************)
EXTENDS MediaUploads, TLAPS

\* What a request has found of the records it works on is still so, as long as it
\* has its connection: the record of a completion is pending until the completion
\* ends, and once the image has been written it is the one under the key, unless
\* somebody without the row has written there since.  One that is cut holds
\* nothing.  An image to be attached is verified.
Stands(v, records, store, out) ==
    /\ v \in Transactions
    /\ v.op = "complete" => \E a \in Assets :
         /\ v.todo = {a} /\ v.step # "lost"
         /\ v.step = "lock" => v.held = {} /\ ~v.cut
         /\ v.step # "lock" /\ ~v.cut => v.held = {a} /\ records[a].status = "pending"
         /\ v.cut => v.held = {}
         /\ v.step \in {"replace", "mark", "discard", "commit"} => v.bytes \in ValidBytes
         /\ v.step \in {"mark", "discard", "commit"} /\ ~v.cut =>
              store[a] # None /\ (a \notin out => store[a] = v.bytes)
    /\ v.op = "cleanup" =>
         /\ v.step = "discard"
         /\ ~v.cut => v.done \cup v.todo \subseteq v.held
         /\ v.cut => v.held = {}
    /\ v.op = "attach" => \E a \in Assets :
         /\ v.todo = {a} /\ v.held = {} /\ v.step \in {"lock", "commit"}
         /\ v.step = "commit" => records[a].status = "verified"

\* Requests hold their records apart from each other, and each stands.
RequestsStand ==
    /\ DOMAIN reqs = Requests
    /\ \A r \in Requests : reqs[r] = Idle \/ Stands(reqs[r], assets, canonical, strays)
    /\ \A r, q \in Requests : r # q => reqs[r].held \cap reqs[q].held = {}

\* The types of the variables, without those of the requests.
StoresOK ==
    /\ assets \in [Assets -> Records]
    /\ source \in [Assets -> Bytes \cup {None}]
    /\ canonical \in [Assets -> ValidBytes \cup {None}]
    /\ granted \subseteq Assets /\ abandoned \subseteq Assets /\ covers \subseteq Assets
    /\ answers \in [Assets -> {"none", "verified", "rejected"}]
    /\ late \subseteq LateCalls /\ strays \subseteq Assets

\* A verified record has an object, its own unless a stray wrote it; and a cover is
\* a verified record.
VerifiedAreStored ==
    /\ \A a \in Assets : assets[a].status = "verified" =>
         canonical[a] # None /\ (a \notin strays => canonical[a] = assets[a].digest)
    /\ \A a \in covers : assets[a].status = "verified"

\* The inductive invariant.
IndInv == StoresOK /\ VerifiedAreStored /\ RequestsStand

-----------------------------------------------------------------------------
LEMMA RecordForm ==
    ASSUME NEW record \in Records
    PROVE  /\ record.status = "verified" <=> record.digest \in ValidBytes
           /\ record.status # "verified" => record.digest = None
           /\ record.status \in {"absent", "pending", "quarantined", "deleted", "verified"}
BY MediaAssumption DEF Records

LEMMA WithForm ==
    ASSUME NEW status \in {"absent", "pending", "quarantined", "deleted"}
    PROVE  With(status) \in Records /\ With(status).status = status
BY DEF With, Records

LEMMA RequestForm ==
    ASSUME IndInv, NEW r \in Requests, reqs[r] # Idle
    PROVE  Stands(reqs[r], assets, canonical, strays) /\ reqs[r] \in Transactions
BY DEF IndInv, RequestsStand, Stands

\* The record that a completion, or a request that attaches, is about.
LEMMA AssetForm ==
    ASSUME IndInv, NEW r \in Requests, reqs[r] # Idle, reqs[r].op \in {"complete", "attach"}
    PROVE  AssetOf(r) \in Assets /\ reqs[r].todo = {AssetOf(r)}
<1>1. PICK a \in Assets : reqs[r].todo = {a}
  BY RequestForm DEF Stands
<1>2. AssetOf(r) = a
  BY <1>1 DEF AssetOf
<1> QED BY <1>1, <1>2

\* A completion that has its record.
LEMMA CompletionForm ==
    ASSUME IndInv, NEW r \in Requests, reqs[r] # Idle, reqs[r].op = "complete"
    PROVE  /\ AssetOf(r) \in Assets /\ reqs[r].todo = {AssetOf(r)} /\ reqs[r].step # "lost"
           /\ reqs[r].step = "lock" => reqs[r].held = {} /\ ~reqs[r].cut
           /\ reqs[r].cut => reqs[r].held = {}
           /\ reqs[r].step # "lock" /\ ~reqs[r].cut =>
                reqs[r].held = {AssetOf(r)} /\ assets[AssetOf(r)].status = "pending"
           /\ reqs[r].step \in {"replace", "mark", "discard", "commit"} => reqs[r].bytes \in ValidBytes
           /\ reqs[r].step \in {"mark", "discard", "commit"} /\ ~reqs[r].cut =>
                /\ canonical[AssetOf(r)] # None
                /\ AssetOf(r) \notin strays => canonical[AssetOf(r)] = reqs[r].bytes
<1>1. AssetOf(r) \in Assets /\ reqs[r].todo = {AssetOf(r)}
  BY AssetForm
<1>2. Stands(reqs[r], assets, canonical, strays)
  BY RequestForm
<1> QED BY <1>1, <1>2 DEF Stands

\* What a request has found stays when verified records stay verified, what it
\* holds stays as it is, and only strays write there.
LEMMA StandsOn ==
    ASSUME NEW v, NEW records, NEW store, NEW out, Stands(v, records, store, out),
           NEW later, NEW target, NEW astray,
           \A a \in Assets : records[a].status = "verified" => later[a].status = "verified",
           \A a \in v.held : /\ records[a].status = "pending" => later[a].status = "pending"
                             /\ store[a] # None => target[a] # None
                             /\ a \notin astray => a \notin out /\ target[a] = store[a]
    PROVE  Stands(v, later, target, astray)
BY DEF Stands

\* One request goes on or ends.
LEMMA OneGoesOn ==
    ASSUME IndInv, NEW r \in Requests, NEW x, reqs' = [reqs EXCEPT ![r] = x],
           x = Idle \/ Stands(x, assets', canonical', strays'),
           \A q \in Requests \ {r} : reqs[q].held \cap x.held = {},
           \A a \in Assets : assets[a].status = "verified" => assets'[a].status = "verified",
           \A q \in Requests \ {r} : \A a \in reqs[q].held :
              /\ assets[a].status = "pending" => assets'[a].status = "pending"
              /\ canonical[a] # None => canonical'[a] # None
              /\ a \notin strays' => a \notin strays /\ canonical'[a] = canonical[a],
           StoresOK', VerifiedAreStored'
    PROVE  IndInv'
<1>1. DOMAIN reqs' = Requests /\ reqs'[r] = x /\ \A q \in Requests \ {r} : reqs'[q] = reqs[q]
  BY DEF IndInv, RequestsStand
<1>2. ASSUME NEW q \in Requests \ {r}
      PROVE  reqs'[q] = Idle \/ Stands(reqs'[q], assets', canonical', strays')
  BY <1>1, RequestForm, StandsOn
<1>3. ASSUME NEW p \in Requests, NEW q \in Requests, p # q
      PROVE  reqs'[p].held \cap reqs'[q].held = {}
  <2>1. CASE p = r
    BY <1>1, <1>3, <2>1
  <2>2. CASE q = r
    BY <1>1, <1>3, <2>2
  <2>3. CASE p # r /\ q # r
    BY <1>1, <1>3, <2>3 DEF IndInv, RequestsStand
  <2> QED BY <2>1, <2>2, <2>3
<1> QED BY <1>1, <1>2, <1>3 DEF IndInv, RequestsStand

\* A step that leaves records, images and covers as they are.
LEMMA QuietStep ==
    ASSUME IndInv, NEW r \in Requests, NEW x, reqs' = [reqs EXCEPT ![r] = x],
           UNCHANGED <<assets, canonical, strays, clientVars>>,
           source' \in [Assets -> Bytes \cup {None}], late' \subseteq LateCalls,
           answers' \in [Assets -> {"none", "verified", "rejected"}],
           x = Idle \/ Stands(x, assets, canonical, strays),
           \A q \in Requests \ {r} : reqs[q].held \cap x.held = {}
    PROVE  IndInv'
<1>1. StoresOK' /\ VerifiedAreStored'
  BY DEF IndInv, StoresOK, VerifiedAreStored, clientVars
<1> QED BY <1>1, OneGoesOn

LEMMA Quits ==
    ASSUME IndInv, NEW r \in Requests, Ends(r), UNCHANGED <<assets, canonical, strays, clientVars>>,
           source' \in [Assets -> Bytes \cup {None}], late' \subseteq LateCalls,
           answers' \in [Assets -> {"none", "verified", "rejected"}]
    PROVE  IndInv'
<1>1. Idle.held = {}
  BY DEF Idle
<1> QED BY <1>1, QuietStep DEF Ends

\* The next step of a request that holds what it held.
LEMMA GoesOn ==
    ASSUME IndInv, NEW r \in Requests, reqs[r] # Idle, NEW x, reqs' = [reqs EXCEPT ![r] = x],
           UNCHANGED <<assets, canonical, strays, clientVars, answers>>,
           source' \in [Assets -> Bytes \cup {None}], late' \subseteq LateCalls,
           Stands(x, assets, canonical, strays), x.held \subseteq reqs[r].held
    PROVE  IndInv'
<1>1. \A q \in Requests \ {r} : reqs[q].held \cap x.held = {}
  BY DEF IndInv, RequestsStand
<1>2. answers' \in [Assets -> {"none", "verified", "rejected"}]
  BY DEF IndInv, StoresOK
<1> QED BY <1>1, <1>2, QuietStep

-----------------------------------------------------------------------------
(***************************************************************************)
(* The client, the storage and the clock.                                  *)
(***************************************************************************)
\* Steps that concern no request.
LEMMA OutsideStep ==
    ASSUME IndInv, UNCHANGED <<canonical, covers, reqs, late, strays>>,
           assets' \in [Assets -> Records], source' \in [Assets -> Bytes \cup {None}],
           granted' \subseteq Assets, abandoned' \subseteq Assets,
           answers' \in [Assets -> {"none", "verified", "rejected"}],
           \A a \in Assets : \/ assets'[a] = assets[a]
                             \/ /\ assets[a].status = "absent"
                                /\ assets'[a].status # "verified"
    PROVE  IndInv'
<1>1. StoresOK'
  BY DEF IndInv, StoresOK
<1>2. VerifiedAreStored'
  BY DEF IndInv, VerifiedAreStored, StoresOK
<1>3. ASSUME NEW r \in Requests, reqs[r] # Idle
      PROVE  Stands(reqs[r], assets', canonical', strays')
  <2>1. Stands(reqs[r], assets, canonical, strays) /\ reqs[r].held \subseteq Assets
    BY <1>3, RequestForm DEF Transactions
  <2> QED BY <2>1, StandsOn
<1> QED BY <1>1, <1>2, <1>3 DEF IndInv, RequestsStand

LEMMA ClientKeeps ==
    ASSUME IndInv, NEW a \in Assets,
           RequestUpload(a) \/ GrantExpires(a) \/ DayPasses(a) \/ \E b \in Bytes : PutUpload(a, b)
    PROVE  IndInv'
<1>1. StoresOK
  BY DEF IndInv
<1>2. CASE RequestUpload(a)
  <2>1. assets' = assets \/ (assets[a].status = "absent" /\ assets' = [assets EXCEPT ![a] = With("pending")])
    BY <1>2 DEF RequestUpload, CreateUpload, ResumeUpload
  <2>2. assets' \in [Assets -> Records]
    BY <1>1, <2>1, WithForm DEF StoresOK
  <2>3. \A x \in Assets : \/ assets'[x] = assets[x]
                         \/ /\ assets[x].status = "absent"
                            /\ assets'[x].status # "verified"
    BY <1>1, <2>1, WithForm DEF StoresOK
  <2>4. granted' \subseteq Assets
    BY <1>1, <1>2 DEF RequestUpload, CreateUpload, ResumeUpload, Granted, StoresOK
  <2>5. /\ UNCHANGED <<canonical, covers, reqs, late, strays>>
        /\ source' \in [Assets -> Bytes \cup {None}]
        /\ abandoned' \subseteq Assets
        /\ answers' \in [Assets -> {"none", "verified", "rejected"}]
    BY <1>1, <1>2 DEF RequestUpload, StoresOK, storeVars
  <2> QED BY <2>2, <2>3, <2>4, <2>5, OutsideStep
<1>3. ASSUME UNCHANGED <<assets, canonical, covers, reqs, answers, late, strays>>,
             source' \in [Assets -> Bytes \cup {None}],
             granted' \subseteq Assets, abandoned' \subseteq Assets
      PROVE  IndInv'
  <2>1. /\ assets' \in [Assets -> Records]
        /\ answers' \in [Assets -> {"none", "verified", "rejected"}]
    BY <1>1, <1>3 DEF StoresOK
  <2>2. UNCHANGED <<canonical, covers, reqs, late, strays>> /\ \A x \in Assets : assets'[x] = assets[x]
    BY <1>3
  <2> QED BY <1>3, <2>1, <2>2, OutsideStep
<1>4. CASE GrantExpires(a)
  BY <1>1, <1>4, <1>3 DEF GrantExpires, StoresOK, storeVars
<1>5. CASE DayPasses(a)
  BY <1>1, <1>5, <1>3 DEF DayPasses, StoresOK, storeVars
<1>6. ASSUME NEW b \in Bytes, PutUpload(a, b)
      PROVE  IndInv'
  <2>1. source' \in [Assets -> Bytes \cup {None}]
    BY <1>1, <1>6 DEF PutUpload, AcceptUpload, StoresOK
  <2> QED BY <1>1, <1>6, <1>3, <2>1 DEF PutUpload, StoresOK, clientVars
<1> QED BY <1>2, <1>4, <1>5, <1>6

\* A call that comes late writes an image at most, and is a stray.
LEMMA ArriveKeeps ==
    ASSUME IndInv, NEW call \in late, Arrive(call)
    PROVE  IndInv'
<1> DEFINE a == call.asset
<1>1. /\ call \in LateCalls /\ a \in Assets /\ StoresOK /\ VerifiedAreStored
      /\ UNCHANGED <<granted, abandoned, covers, assets, reqs, answers>> /\ late' \subseteq late
  BY DEF Arrive, IndInv, StoresOK, LateCalls, clientVars
<1>2. source' \in [Assets -> Bytes \cup {None}]
  BY <1>1 DEF Arrive, StoresOK
<1>3. \/ UNCHANGED <<canonical, strays>>
      \/ /\ call.bytes \in ValidBytes /\ strays' = strays \cup {a}
         /\ canonical' = [canonical EXCEPT ![a] = call.bytes]
  BY <1>1 DEF Arrive, LateCalls
<1>4. /\ canonical' \in [Assets -> ValidBytes \cup {None}] /\ strays' \subseteq Assets
      /\ \A x \in Assets : canonical[x] # None => canonical'[x] # None
      /\ \A x \in Assets \ strays' : x \notin strays /\ canonical'[x] = canonical[x]
  <2>1. CASE UNCHANGED <<canonical, strays>>
    BY <1>1, <2>1 DEF StoresOK
  <2>2. CASE /\ call.bytes \in ValidBytes /\ strays' = strays \cup {a}
             /\ canonical' = [canonical EXCEPT ![a] = call.bytes]
    <3>1. call.bytes # None
      BY <2>2, MediaAssumption
    <3> HIDE DEF a
    <3> QED BY <1>1, <2>2, <3>1 DEF StoresOK
  <2> QED BY <1>3, <2>1, <2>2
<1> HIDE DEF a
<1>5. StoresOK'
  BY <1>1, <1>2, <1>4 DEF StoresOK
<1>6. VerifiedAreStored'
  BY <1>1, <1>4 DEF VerifiedAreStored
<1>7. ASSUME NEW r \in Requests, reqs[r] # Idle
      PROVE  Stands(reqs[r], assets', canonical', strays')
  <2>1. Stands(reqs[r], assets, canonical, strays) /\ reqs[r].held \subseteq Assets
    BY <1>7, RequestForm DEF Transactions
  <2> QED BY <1>1, <1>4, <2>1, StandsOn
<1> QED BY <1>1, <1>5, <1>6, <1>7 DEF IndInv, RequestsStand

-----------------------------------------------------------------------------
(***************************************************************************)
(* complete_upload.                                                        *)
(***************************************************************************)
LEMMA BeginKeeps ==
    ASSUME IndInv, NEW r \in Requests, Begin(r)
    PROVE  IndInv'
<1>1. PICK op \in {"complete", "attach"}, a \in Assets :
        reqs' = [reqs EXCEPT ![r] = Open(op, "lock", a)]
  BY DEF Begin
<1> DEFINE x == Open(op, "lock", a)
<1>2. /\ x \in Transactions /\ x.op = op /\ x.step = "lock" /\ x.held = {} /\ x.todo = {a} /\ ~x.cut
  BY DEF Open, Transactions, Steps
<1>3. reqs' = [reqs EXCEPT ![r] = x]
  BY <1>1
<1> HIDE DEF x
<1>4. Stands(x, assets, canonical, strays)
  BY <1>2 DEF Stands
<1>5. /\ source' \in [Assets -> Bytes \cup {None}] /\ late' \subseteq LateCalls
      /\ answers' \in [Assets -> {"none", "verified", "rejected"}]
  BY DEF Begin, IndInv, StoresOK, storeVars
<1>6. \A q \in Requests \ {r} : reqs[q].held \cap x.held = {}
  BY <1>2
<1>7. UNCHANGED <<assets, canonical, strays, clientVars>>
  BY DEF Begin, storeVars
<1> QED BY <1>3, <1>4, <1>5, <1>6, <1>7, QuietStep

LEMMA CrashKeeps ==
    ASSUME IndInv, NEW r \in Requests, Crash(r)
    PROVE  IndInv'
BY Quits DEF Crash, IndInv, StoresOK, storeVars

\* A transaction that is cut holds nothing from then on.
LEMMA LoseConnectionKeeps ==
    ASSUME IndInv, NEW r \in Requests, LoseConnection(r)
    PROVE  IndInv'
<1> DEFINE x == [reqs[r] EXCEPT !.held = {}, !.cut = TRUE]
<1>1. /\ reqs[r] # Idle /\ reqs[r].step \in {"read", "reject", "replace", "discard"}
      /\ UNCHANGED <<assets, source, canonical, late, strays, clientVars, answers>>
      /\ StoresOK /\ DOMAIN reqs = Requests
  BY DEF LoseConnection, IndInv, RequestsStand, storeVars
<1>2. reqs[r] \in Transactions /\ Stands(reqs[r], assets, canonical, strays)
  BY <1>1, RequestForm
<1>3. reqs' = [reqs EXCEPT ![r] = x]
  BY <1>1 DEF LoseConnection
<1>4. /\ x \in Transactions /\ x.op = reqs[r].op /\ x.step = reqs[r].step /\ x.todo = reqs[r].todo
      /\ x.bytes = reqs[r].bytes /\ x.held = {} /\ x.cut
  BY <1>2 DEF Transactions
<1> HIDE DEF x
<1>5. Stands(x, assets, canonical, strays)
  BY <1>1, <1>2, <1>4 DEF Stands
<1> QED BY <1>1, <1>3, <1>4, <1>5, GoesOn DEF StoresOK

LEMMA LockKeeps ==
    ASSUME IndInv, NEW r \in Requests, Lock(r)
    PROVE  IndInv'
<1> DEFINE a == AssetOf(r)
           x == [reqs[r] EXCEPT !.step = "read", !.held = {a}]
<1>1. /\ reqs[r] # Idle /\ reqs[r].op = "complete" /\ reqs[r].step = "lock" /\ Free(a, r)
      /\ UNCHANGED <<assets, source, canonical, late, strays, clientVars>>
  BY DEF Lock, At, storeVars
<1>2. a \in Assets /\ reqs[r].todo = {a} /\ reqs[r] \in Transactions /\ ~reqs[r].cut
  BY <1>1, CompletionForm, RequestForm
<1>3. StoresOK
  BY DEF IndInv
<1>4. CASE Pending(a)
  <2>1. reqs' = [reqs EXCEPT ![r].step = "read", ![r].held = {a}] /\ answers' = answers
    BY <1>4 DEF Lock, Locked
  <2>2. reqs' = [reqs EXCEPT ![r] = x]
    BY <2>1 DEF IndInv, RequestsStand
  <2>3. x \in Transactions /\ x.op = "complete" /\ x.step = "read" /\ x.held = {a} /\ x.todo = {a} /\ ~x.cut
    BY <1>1, <1>2 DEF Transactions, Steps
  <2> HIDE DEF x
  <2>4. Stands(x, assets, canonical, strays)
    BY <1>2, <1>4, <2>3 DEF Stands, Pending
  <2>5. \A q \in Requests \ {r} : reqs[q].held \cap x.held = {}
    BY <1>1, <2>3 DEF Free
  <2> QED BY <1>1, <1>3, <2>1, <2>2, <2>4, <2>5, QuietStep DEF StoresOK
<1>5. CASE ~Pending(a)
  <2>1. Ends(r) /\ answers' \in {answers, [answers EXCEPT ![a] = "verified"]}
    BY <1>5 DEF Lock
  <2>2. answers' \in [Assets -> {"none", "verified", "rejected"}]
    BY <1>3, <2>1 DEF StoresOK
  <2> HIDE DEF a
  <2> QED BY <1>1, <1>3, <2>1, <2>2, Quits DEF StoresOK
<1> QED BY <1>4, <1>5

\* A completion that goes on to its next step.
LEMMA CompletionGoesOn ==
    ASSUME IndInv, NEW r \in Requests, reqs[r] # Idle, reqs[r].op = "complete", reqs[r].step # "lock",
           NEW step \in {"reject", "replace", "mark", "discard", "commit"}, NEW x,
           reqs' = [reqs EXCEPT ![r] = x],
           x \in Transactions, x.op = "complete", x.step = step, x.held = reqs[r].held, x.todo = reqs[r].todo,
           x.cut = reqs[r].cut, step # "reject" => x.bytes \in ValidBytes,
           step \in {"mark", "discard", "commit"} /\ ~x.cut =>
              /\ canonical[AssetOf(r)] # None
              /\ AssetOf(r) \notin strays => canonical[AssetOf(r)] = x.bytes,
           UNCHANGED <<assets, canonical, strays, clientVars, answers>>,
           source' \in [Assets -> Bytes \cup {None}], late' \subseteq LateCalls
    PROVE  IndInv'
<1>1. Stands(x, assets, canonical, strays)
  BY CompletionForm DEF Stands
<1> QED BY <1>1, GoesOn

LEMMA ReadKeeps ==
    ASSUME IndInv, NEW r \in Requests, Read(r)
    PROVE  IndInv'
<1> DEFINE b == source[AssetOf(r)]
<1>1. /\ reqs[r] # Idle /\ reqs[r].op = "complete" /\ reqs[r].step = "read"
      /\ UNCHANGED <<assets, source, canonical, late, strays, clientVars, answers>>
      /\ StoresOK
  BY DEF Read, At, IndInv, storeVars
<1>2. reqs[r] \in Transactions /\ DOMAIN reqs = Requests
  BY <1>1, RequestForm DEF IndInv, RequestsStand
<1>3. CASE Ends(r)
  BY <1>1, <1>3, Quits DEF StoresOK
<1>4. CASE Goes(r, "reject")
  <2> DEFINE x == [reqs[r] EXCEPT !.step = "reject"]
  <2>1. reqs' = [reqs EXCEPT ![r] = x]
    BY <1>2, <1>4 DEF Goes
  <2>2. x \in Transactions /\ x.op = "complete" /\ x.step = "reject" /\ x.held = reqs[r].held
        /\ x.todo = reqs[r].todo /\ x.cut = reqs[r].cut
    BY <1>1, <1>2 DEF Transactions, Steps
  <2> HIDE DEF x
  <2> QED BY <1>1, <2>1, <2>2, CompletionGoesOn DEF StoresOK
<1>5. CASE Accepted(b) /\ reqs' = [reqs EXCEPT ![r].step = "replace", ![r].bytes = b]
  <2> DEFINE x == [reqs[r] EXCEPT !.step = "replace", !.bytes = b]
  <2>1. b \in ValidBytes
    BY <1>5 DEF Accepted
  <2> HIDE DEF b
  <2>2. reqs' = [reqs EXCEPT ![r] = x]
    BY <1>2, <1>5
  <2>3. x \in Transactions /\ x.op = "complete" /\ x.step = "replace" /\ x.held = reqs[r].held
        /\ x.todo = reqs[r].todo /\ x.bytes = b /\ x.cut = reqs[r].cut
    BY <1>1, <1>2, <2>1 DEF Transactions, Steps
  <2> HIDE DEF x
  <2> QED BY <1>1, <2>1, <2>2, <2>3, CompletionGoesOn DEF StoresOK
<1> QED BY <1>3, <1>4, <1>5 DEF Read

LEMMA DeletesForm ==
    ASSUME StoresOK, NEW a \in Assets, Deletes(a)
    PROVE  source' \in [Assets -> Bytes \cup {None}] /\ late' \subseteq LateCalls
BY DEF StoresOK, Deletes, MayComeLate, LateCalls

LEMMA RejectKeeps ==
    ASSUME IndInv, NEW r \in Requests, Reject(r)
    PROVE  IndInv'
<1> DEFINE a == AssetOf(r)
<1>1. /\ reqs[r] # Idle /\ reqs[r].op = "complete" /\ Ends(r) /\ Deletes(a)
      /\ answers' \in {answers, [answers EXCEPT ![a] = "rejected"]}
      /\ assets' \in {assets, [assets EXCEPT ![a] = assets[a]]}
      /\ UNCHANGED <<canonical, strays, clientVars>> /\ StoresOK
  BY DEF Reject, At, AfterRejection, IndInv
<1>2. a \in Assets
  BY <1>1, CompletionForm
<1> HIDE DEF a
<1>3. /\ source' \in [Assets -> Bytes \cup {None}] /\ late' \subseteq LateCalls
      /\ answers' \in [Assets -> {"none", "verified", "rejected"}]
  BY <1>1, <1>2, DeletesForm DEF StoresOK
<1>4. assets' = assets
  BY <1>1, <1>2 DEF StoresOK
<1> QED BY <1>1, <1>3, <1>4, Quits

\* A completion that has its row writes under the key of a record that is pending,
\* and no other request works on that record; one that is cut is a stray.
LEMMA ReplaceKeeps ==
    ASSUME IndInv, NEW r \in Requests, Replace(r)
    PROVE  IndInv'
<1> DEFINE a == AssetOf(r)
           b == reqs[r].bytes
<1>1. /\ reqs[r] # Idle /\ reqs[r].op = "complete" /\ reqs[r].step = "replace"
      /\ UNCHANGED <<assets, source, clientVars, answers>>
      /\ StoresOK /\ VerifiedAreStored /\ DOMAIN reqs = Requests
  BY DEF Replace, At, IndInv, RequestsStand
<1>2. /\ a \in Assets /\ b \in ValidBytes /\ b # None /\ reqs[r].todo = {a} /\ reqs[r] \in Transactions
      /\ reqs[r].cut => reqs[r].held = {}
      /\ ~reqs[r].cut => reqs[r].held = {a} /\ assets[a].status = "pending"
  BY <1>1, CompletionForm, RequestForm, MediaAssumption
<1>3. CASE /\ canonical' = [canonical EXCEPT ![a] = b] /\ strays' = Strays(r, a)
           /\ Goes(r, "mark") /\ UNCHANGED late
  <2> DEFINE x == [reqs[r] EXCEPT !.step = "mark"]
  <2> HIDE DEF a, b
  <2>1. reqs' = [reqs EXCEPT ![r] = x]
    BY <1>1, <1>3 DEF Goes
  <2>2. x \in Transactions /\ x.op = "complete" /\ x.step = "mark" /\ x.held = reqs[r].held
        /\ x.todo = {a} /\ x.bytes = b /\ x.cut = reqs[r].cut
    BY <1>1, <1>2 DEF Transactions, Steps, b
  <2> HIDE DEF x
  <2>3. /\ canonical' \in [Assets -> ValidBytes \cup {None}] /\ canonical'[a] = b
        /\ \A y \in Assets : y # a => canonical'[y] = canonical[y]
    BY <1>1, <1>2, <1>3 DEF StoresOK
  <2>4. /\ strays' \subseteq Assets /\ \A y \in Assets : y # a => (y \in strays' <=> y \in strays)
        /\ reqs[r].cut => a \in strays'
    BY <1>1, <1>2, <1>3 DEF Strays, StoresOK
  <2>5. Stands(x, assets', canonical', strays')
    BY <1>1, <1>2, <2>2, <2>3 DEF Stands
  <2>6. StoresOK'
    BY <1>1, <1>3, <2>3, <2>4 DEF StoresOK, clientVars
  <2>7. VerifiedAreStored'
    BY <1>1, <1>2, <2>3, <2>4 DEF VerifiedAreStored, clientVars
  <2>8. \A q \in Requests \ {r} : reqs[q].held \cap x.held = {} /\ reqs[q].held \subseteq Assets
    <3>1. \A q \in Requests \ {r} : reqs[q].held \cap reqs[r].held = {}
      BY DEF IndInv, RequestsStand
    <3>2. \A q \in Requests : reqs[q].held \subseteq Assets
      BY RequestForm DEF Transactions, Idle
    <3> QED BY <2>2, <3>1, <3>2
  <2>9. ASSUME NEW q \in Requests \ {r}, NEW y \in reqs[q].held
        PROVE  /\ assets[y].status = "pending" => assets'[y].status = "pending"
               /\ canonical[y] # None => canonical'[y] # None
               /\ y \notin strays' => y \notin strays /\ canonical'[y] = canonical[y]
    <3>1. y \in Assets /\ (~reqs[r].cut => y # a)
      BY <1>2, <2>2, <2>8
    <3> QED BY <1>1, <1>2, <2>3, <2>4, <3>1
  <2>10. \A y \in Assets : assets[y].status = "verified" => assets'[y].status = "verified"
    BY <1>1
  <2>11. \A q \in Requests \ {r} : reqs[q].held \cap x.held = {}
    BY <2>8
  <2> QED BY <2>1, <2>5, <2>6, <2>7, <2>9, <2>10, <2>11, OneGoesOn
<1>4. CASE MayComeLate([asset |-> a, bytes |-> b]) /\ Ends(r) /\ UNCHANGED <<canonical, strays>>
  <2>1. late' \subseteq LateCalls
    BY <1>1, <1>2, <1>4 DEF MayComeLate, LateCalls, StoresOK
  <2> HIDE DEF a, b
  <2> QED BY <1>1, <1>4, <2>1, Quits DEF StoresOK
<1> QED BY <1>3, <1>4 DEF Replace

LEMMA MarkKeeps ==
    ASSUME IndInv, NEW r \in Requests, Mark(r)
    PROVE  IndInv'
<1> DEFINE a == AssetOf(r)
           x == [reqs[r] EXCEPT !.step = "discard", !.held = {a}]
<1>1. /\ reqs[r] # Idle /\ reqs[r].op = "complete" /\ reqs[r].step = "mark" /\ ~reqs[r].cut
      /\ UNCHANGED <<assets, source, canonical, late, strays, clientVars, answers>> /\ StoresOK
  BY DEF Mark, At, IndInv, storeVars
<1>2. /\ a \in Assets /\ reqs[r].held = {a} /\ Pending(a) /\ reqs[r].bytes \in ValidBytes
      /\ canonical[a] # None /\ (a \notin strays => canonical[a] = reqs[r].bytes)
      /\ reqs[r] \in Transactions
  BY <1>1, CompletionForm, RequestForm DEF Pending
<1>3. reqs' = [reqs EXCEPT ![r].step = "discard", ![r].held = {a}]
  BY <1>2 DEF Mark
<1>4. reqs' = [reqs EXCEPT ![r] = x]
  BY <1>3 DEF IndInv, RequestsStand
<1>5. x \in Transactions /\ x.op = "complete" /\ x.step = "discard" /\ x.held = reqs[r].held
      /\ x.todo = reqs[r].todo /\ x.bytes = reqs[r].bytes /\ x.cut = reqs[r].cut
  BY <1>1, <1>2 DEF Transactions, Steps
<1> HIDE DEF x
<1> QED BY <1>1, <1>2, <1>4, <1>5, CompletionGoesOn DEF StoresOK

LEMMA DiscardKeeps ==
    ASSUME IndInv, NEW r \in Requests, Discard(r)
    PROVE  IndInv'
<1> DEFINE a == AssetOf(r)
           x == [reqs[r] EXCEPT !.step = "commit"]
<1>1. /\ reqs[r] # Idle /\ reqs[r].op = "complete" /\ reqs[r].step = "discard"
      /\ Deletes(a) /\ Goes(r, "commit")
      /\ UNCHANGED <<assets, canonical, strays, clientVars, answers>> /\ StoresOK
  BY DEF Discard, Discards, At, IndInv
<1>2. /\ a \in Assets /\ reqs[r].bytes \in ValidBytes /\ reqs[r] \in Transactions
      /\ ~reqs[r].cut =>
           canonical[a] # None /\ (a \notin strays => canonical[a] = reqs[r].bytes)
  BY <1>1, CompletionForm, RequestForm
<1>3. reqs' = [reqs EXCEPT ![r] = x]
  BY <1>1 DEF Goes, IndInv, RequestsStand
<1>4. x \in Transactions /\ x.op = "complete" /\ x.step = "commit" /\ x.held = reqs[r].held
      /\ x.todo = reqs[r].todo /\ x.bytes = reqs[r].bytes /\ x.cut = reqs[r].cut
  BY <1>1, <1>2 DEF Transactions, Steps
<1>5. source' \in [Assets -> Bytes \cup {None}] /\ late' \subseteq LateCalls
  BY <1>1, <1>2, DeletesForm
<1> HIDE DEF x
<1> QED BY <1>1, <1>2, <1>3, <1>4, <1>5, CompletionGoesOn

LEMMA CommitVerifiedKeeps ==
    ASSUME IndInv, NEW r \in Requests, CommitVerified(r)
    PROVE  IndInv'
<1> DEFINE a == AssetOf(r)
           row == [status |-> "verified", digest |-> reqs[r].bytes]
<1>1. /\ reqs[r] # Idle /\ reqs[r].op = "complete" /\ reqs[r].step = "commit" /\ ~reqs[r].cut
      /\ assets' = [assets EXCEPT ![a] = row] /\ answers' = [answers EXCEPT ![a] = "verified"]
      /\ reqs' = [reqs EXCEPT ![r] = Idle]
      /\ UNCHANGED <<source, canonical, late, strays, granted, abandoned, covers>>
      /\ StoresOK /\ VerifiedAreStored
  BY DEF CommitVerified, At, Ends, IndInv, storeVars, clientVars
<1>2. /\ a \in Assets /\ reqs[r].held = {a} /\ reqs[r].bytes \in ValidBytes
      /\ canonical[a] # None /\ (a \notin strays => canonical[a] = reqs[r].bytes)
  BY <1>1, CompletionForm
<1>3. row \in Records /\ row.status = "verified" /\ canonical[a] # None
      /\ (a \notin strays => row.digest = canonical[a])
  BY <1>2 DEF Records
<1> HIDE DEF a, row
<1>4. assets' \in [Assets -> Records] /\ \A x \in Assets : assets'[x] = IF x = a THEN row ELSE assets[x]
  BY <1>1, <1>3 DEF StoresOK
<1>5. StoresOK'
  BY <1>1, <1>4 DEF StoresOK
<1>6. VerifiedAreStored'
  BY <1>1, <1>3, <1>4 DEF StoresOK, VerifiedAreStored
<1>7. \A q \in Requests \ {r} : a \notin reqs[q].held /\ reqs[q].held \subseteq Assets
  <2>1. \A q \in Requests \ {r} : reqs[q].held \cap {a} = {}
    BY <1>2 DEF IndInv, RequestsStand
  <2>2. \A q \in Requests : reqs[q].held \subseteq Assets
    BY RequestForm DEF Transactions, Idle
  <2> QED BY <2>1, <2>2
<1>8. \A q \in Requests \ {r} : reqs[q].held \cap Idle.held = {}
  BY DEF Idle
<1>9. \A q \in Requests \ {r} : \A x \in reqs[q].held :
         /\ assets[x].status = "pending" => assets'[x].status = "pending"
         /\ canonical[x] # None => canonical'[x] # None
         /\ x \notin strays' => x \notin strays /\ canonical'[x] = canonical[x]
  BY <1>1, <1>4, <1>7
<1>10. \A x \in Assets : assets[x].status = "verified" => assets'[x].status = "verified"
  BY <1>3, <1>4
<1>11. Idle = Idle \/ Stands(Idle, assets', canonical', strays')
  OBVIOUS
<1>12. reqs' = [reqs EXCEPT ![r] = Idle]
  BY <1>1
<1> QED BY <1>5, <1>6, <1>8, <1>9, <1>10, <1>11, <1>12, OneGoesOn

-----------------------------------------------------------------------------
(***************************************************************************)
(* expire_abandoned, and the use of a verified image.                      *)
(***************************************************************************)
\* The cleanup claims records that no other request holds.
LEMMA ClaimKeeps ==
    ASSUME IndInv, NEW r \in Requests, Claim(r)
    PROVE  IndInv'
<1> DEFINE left == {a \in Assets : Claimable(a) /\ Free(a, r)}
           claim(batch) == [op |-> "cleanup", step |-> "discard", held |-> batch,
                            todo |-> batch, done |-> {}, bytes |-> None, cut |-> FALSE]
<1>1. PICK batch : batch \subseteq left /\ reqs' = [reqs EXCEPT ![r] = claim(batch)]
  BY DEF Claim, kSubset
<1> DEFINE x == claim(batch)
<1>2. /\ x \in Transactions /\ x.op = "cleanup" /\ x.step = "discard" /\ x.held = batch
      /\ x.done = {} /\ x.todo = batch /\ ~x.cut
  BY <1>1 DEF Transactions, Steps
<1>3. reqs' = [reqs EXCEPT ![r] = x]
  BY <1>1
<1> HIDE DEF x
<1>4. Stands(x, assets, canonical, strays)
  BY <1>2 DEF Stands
<1>5. \A q \in Requests \ {r} : reqs[q].held \cap x.held = {}
  BY <1>1, <1>2 DEF Free
<1>6. /\ UNCHANGED <<assets, canonical, strays, clientVars>>
      /\ source' \in [Assets -> Bytes \cup {None}] /\ late' \subseteq LateCalls
      /\ answers' \in [Assets -> {"none", "verified", "rejected"}]
  BY DEF Claim, IndInv, StoresOK, storeVars
<1> QED BY <1>3, <1>4, <1>5, <1>6, QuietStep

LEMMA DiscardOneKeeps ==
    ASSUME IndInv, NEW r \in Requests, DiscardOne(r)
    PROVE  IndInv'
<1>1. /\ reqs[r] # Idle /\ reqs[r].op = "cleanup" /\ reqs[r].step = "discard"
      /\ UNCHANGED <<assets, canonical, strays, clientVars, answers>>
      /\ StoresOK /\ DOMAIN reqs = Requests
  BY DEF DiscardOne, At, IndInv, RequestsStand
<1>2. /\ reqs[r] \in Transactions
      /\ ~reqs[r].cut => reqs[r].done \cup reqs[r].todo \subseteq reqs[r].held
      /\ reqs[r].cut => reqs[r].held = {}
  BY <1>1, RequestForm DEF Stands
<1>3. PICK a \in reqs[r].todo :
        /\ Deletes(a)
        /\ \E marked \in SUBSET {a} :
             reqs' = [reqs EXCEPT ![r].todo = @ \ {a}, ![r].done = @ \cup marked]
  BY DEF DiscardOne
<1>4. PICK marked \in SUBSET {a} :
        reqs' = [reqs EXCEPT ![r].todo = @ \ {a}, ![r].done = @ \cup marked]
  BY <1>3
<1> DEFINE x == [reqs[r] EXCEPT !.todo = reqs[r].todo \ {a}, !.done = reqs[r].done \cup marked]
<1>5. reqs' = [reqs EXCEPT ![r] = x]
  BY <1>1, <1>4
<1>6. /\ x.op = "cleanup" /\ x.step = "discard" /\ x.held = reqs[r].held
      /\ x.cut = reqs[r].cut /\ (~x.cut => x.done \cup x.todo \subseteq x.held)
      /\ x \in Transactions
  BY <1>1, <1>2, <1>3, <1>4 DEF Transactions, Steps
<1> HIDE DEF x
<1>7. Stands(x, assets, canonical, strays)
  BY <1>2, <1>6 DEF Stands
<1>8. a \in Assets
  BY <1>2, <1>3 DEF Transactions
<1>9. source' \in [Assets -> Bytes \cup {None}] /\ late' \subseteq LateCalls
  BY <1>1, <1>3, <1>8, DeletesForm
<1> QED BY <1>1, <1>5, <1>6, <1>7, <1>9, GoesOn

\* Only records that the cleanup holds, and that are still pending, are deleted.
LEMMA CommitCleanupKeeps ==
    ASSUME IndInv, NEW r \in Requests, CommitCleanup(r)
    PROVE  IndInv'
<1>1. /\ reqs[r] # Idle /\ reqs[r].op = "cleanup" /\ ~reqs[r].cut
      /\ reqs' = [reqs EXCEPT ![r] = Idle]
      /\ UNCHANGED <<source, canonical, late, strays, granted, abandoned, covers, answers>>
      /\ StoresOK /\ VerifiedAreStored
  BY DEF CommitCleanup, At, Ends, IndInv, storeVars, clientVars
<1> DEFINE gone == {a \in reqs[r].done : Pending(a)}
<1>2. assets' = [a \in Assets |-> IF a \in gone THEN With("deleted") ELSE assets[a]]
  BY DEF CommitCleanup
<1>3. /\ gone \subseteq reqs[r].held
      /\ \A a \in gone : assets[a].status = "pending"
  BY <1>1, RequestForm DEF Stands, Pending
<1> HIDE DEF gone
<1>4. assets' \in [Assets -> Records]
  BY <1>1, <1>2, WithForm DEF StoresOK
<1>5. \A a \in Assets : \/ assets'[a] = assets[a]
                        \/ /\ a \in gone
                           /\ assets'[a].status = "deleted"
  BY <1>2, WithForm
<1>6. StoresOK'
  BY <1>1, <1>4 DEF StoresOK
<1>7. \A a \in Assets : assets[a].status = "verified" => assets'[a] = assets[a]
  BY <1>3, <1>5
<1>8. VerifiedAreStored'
  <2>1. \A a \in Assets : assets'[a].status = "verified" => assets'[a] = assets[a]
    BY <1>5
  <2> QED BY <1>1, <1>7, <2>1 DEF VerifiedAreStored, StoresOK
<1>9. \A q \in Requests \ {r} : \A a \in reqs[q].held :
         /\ assets[a].status = "pending" => assets'[a].status = "pending"
         /\ canonical[a] # None => canonical'[a] # None
         /\ a \notin strays' => a \notin strays /\ canonical'[a] = canonical[a]
  <2>1. \A q \in Requests \ {r} : reqs[q].held \cap gone = {}
    BY <1>3 DEF IndInv, RequestsStand
  <2>2. \A q \in Requests : reqs[q].held \subseteq Assets
    BY RequestForm DEF Transactions, Idle
  <2> QED BY <1>1, <1>5, <2>1, <2>2
<1>10. \A q \in Requests \ {r} : reqs[q].held \cap Idle.held = {}
  BY DEF Idle
<1>11. \A a \in Assets : assets[a].status = "verified" => assets'[a].status = "verified"
  BY <1>7
<1>12. Idle = Idle \/ Stands(Idle, assets', canonical', strays')
  OBVIOUS
<1>13. reqs' = [reqs EXCEPT ![r] = Idle]
  BY <1>1
<1> QED BY <1>6, <1>8, <1>9, <1>10, <1>11, <1>12, <1>13, OneGoesOn

LEMMA CheckVerifiedKeeps ==
    ASSUME IndInv, NEW r \in Requests, CheckVerified(r)
    PROVE  IndInv'
<1> DEFINE a == AssetOf(r)
           x == [reqs[r] EXCEPT !.step = "commit"]
<1>1. /\ reqs[r] # Idle /\ reqs[r].op = "attach"
      /\ UNCHANGED <<assets, source, canonical, late, strays, clientVars, answers>>
      /\ StoresOK /\ DOMAIN reqs = Requests
  BY DEF CheckVerified, At, IndInv, RequestsStand, storeVars
<1>2. /\ a \in Assets /\ reqs[r].todo = {a} /\ reqs[r] \in Transactions
      /\ Stands(reqs[r], assets, canonical, strays)
  BY <1>1, AssetForm, RequestForm
<1>3. CASE ~Verified(a)
  BY <1>1, <1>3, Quits DEF CheckVerified, StoresOK
<1>4. CASE Verified(a)
  <2>1. reqs' = [reqs EXCEPT ![r] = x]
    BY <1>1, <1>4 DEF CheckVerified, Goes
  <2>2. /\ x.op = "attach" /\ x.step = "commit" /\ x.held = reqs[r].held /\ x.todo = {a}
        /\ x \in Transactions
    BY <1>1, <1>2 DEF Transactions, Steps
  <2> HIDE DEF x
  <2>3. reqs[r].held = {} /\ assets[a].status = "verified"
    BY <1>1, <1>2, <1>4 DEF Stands, Verified
  <2>4. Stands(x, assets, canonical, strays)
    BY <1>2, <2>2, <2>3 DEF Stands
  <2>5. /\ source' \in [Assets -> Bytes \cup {None}] /\ late' \subseteq LateCalls
        /\ x.held \subseteq reqs[r].held
    BY <1>1, <2>2 DEF StoresOK
  <2> QED BY <1>1, <2>1, <2>4, <2>5, GoesOn
<1> QED BY <1>3, <1>4

\* The image that is attached was found verified, and no step takes that back.
LEMMA CommitAttachedKeeps ==
    ASSUME IndInv, NEW r \in Requests, CommitAttached(r)
    PROVE  IndInv'
<1> DEFINE a == AssetOf(r)
<1>1. /\ reqs[r] # Idle /\ reqs[r].op = "attach" /\ reqs[r].step = "commit"
      /\ covers' = covers \cup {a} /\ reqs' = [reqs EXCEPT ![r] = Idle]
      /\ UNCHANGED <<assets, source, canonical, late, strays, granted, abandoned, answers>>
      /\ StoresOK /\ VerifiedAreStored
  BY DEF CommitAttached, At, Ends, IndInv, storeVars
<1>2. a \in Assets /\ reqs[r].todo = {a} /\ Stands(reqs[r], assets, canonical, strays)
  BY <1>1, AssetForm, RequestForm
<1>3. assets[a].status = "verified"
  BY <1>1, <1>2 DEF Stands
<1> HIDE DEF a
<1>4. StoresOK' /\ VerifiedAreStored'
  BY <1>1, <1>2, <1>3 DEF StoresOK, VerifiedAreStored
<1>5. \A q \in Requests \ {r} : \A y \in reqs[q].held :
         /\ assets[y].status = "pending" => assets'[y].status = "pending"
         /\ canonical[y] # None => canonical'[y] # None
         /\ y \notin strays' => y \notin strays /\ canonical'[y] = canonical[y]
  BY <1>1
<1>6. \A q \in Requests \ {r} : reqs[q].held \cap Idle.held = {}
  BY DEF Idle
<1>7. \A y \in Assets : assets[y].status = "verified" => assets'[y].status = "verified"
  BY <1>1
<1>8. Idle = Idle \/ Stands(Idle, assets', canonical', strays')
  OBVIOUS
<1>9. reqs' = [reqs EXCEPT ![r] = Idle]
  BY <1>1
<1> QED BY <1>4, <1>5, <1>6, <1>7, <1>8, <1>9, OneGoesOn

-----------------------------------------------------------------------------
(***************************************************************************)
(* The theorems.                                                           *)
(***************************************************************************)
LEMMA InitInv == MediaInit => IndInv
<1> SUFFICES ASSUME MediaInit PROVE IndInv
  OBVIOUS
<1>1. /\ assets = [a \in Assets |-> With("absent")]
      /\ \A r \in Requests : reqs[r] = Idle
      /\ DOMAIN reqs = Requests
  BY DEF MediaInit
<1>2. StoresOK
  BY WithForm DEF MediaInit, StoresOK
<1>3. VerifiedAreStored
  BY <1>1, WithForm DEF MediaInit, VerifiedAreStored
<1>4. RequestsStand
  BY <1>1 DEF RequestsStand, Idle
<1> QED BY <1>2, <1>3, <1>4 DEF IndInv

LEMMA StepInv == IndInv /\ [MediaNext]_mediaVars => IndInv'
<1> SUFFICES ASSUME IndInv, [MediaNext]_mediaVars PROVE IndInv'
  OBVIOUS
<1>1. CASE UNCHANGED mediaVars
  BY <1>1 DEF mediaVars, IndInv, StoresOK, VerifiedAreStored, RequestsStand
<1>2. ASSUME NEW a \in Assets,
             RequestUpload(a) \/ GrantExpires(a) \/ DayPasses(a) \/ \E b \in Bytes : PutUpload(a, b)
      PROVE  IndInv'
  BY <1>2, ClientKeeps
<1>3. ASSUME NEW r \in Requests,
             \/ Begin(r) \/ Crash(r) \/ LoseConnection(r)
             \/ Lock(r) \/ Read(r) \/ Reject(r) \/ Replace(r) \/ Mark(r) \/ Discard(r)
             \/ CommitVerified(r)
      PROVE  IndInv'
  BY <1>3, BeginKeeps, CrashKeeps, LoseConnectionKeeps, LockKeeps, ReadKeeps, RejectKeeps, ReplaceKeeps, MarkKeeps,
     DiscardKeeps, CommitVerifiedKeeps
<1>4. ASSUME NEW r \in Requests,
             Claim(r) \/ DiscardOne(r) \/ CommitCleanup(r) \/ CheckVerified(r) \/ CommitAttached(r)
      PROVE  IndInv'
  BY <1>4, ClaimKeeps, DiscardOneKeeps, CommitCleanupKeeps, CheckVerifiedKeeps, CommitAttachedKeeps
<1>5. ASSUME NEW call \in late, Arrive(call)
      PROVE  IndInv'
  BY <1>5, ArriveKeeps
<1> QED BY <1>1, <1>2, <1>3, <1>4, <1>5 DEF MediaNext

LEMMA Invariant == MediaSpec => []IndInv
BY InitInv, StepInv, PTL DEF MediaSpec

\* Rows and objects keep their shape, and the transition of a record that a
\* completion verifies is never lost (mark_verified of repository.py): one that
\* has lost its row never gets as far as marking it.
THEOREM VerifierIsAlone == MediaSpec => []MediaInv
<1>1. IndInv => MediaInv
  <2> SUFFICES ASSUME IndInv PROVE MediaInv
    OBVIOUS
  <2>1. \A r \in Requests : reqs[r] \in Transactions \cup {Idle}
    BY RequestForm
  <2>2. MediaTypeOK
    BY <2>1 DEF IndInv, StoresOK, MediaTypeOK
  <2>3. ASSUME NEW r \in Requests, reqs[r] # Idle
        PROVE  reqs[r].step # "lost"
    <3>1. Stands(reqs[r], assets, canonical, strays) /\ reqs[r].op \in {"complete", "cleanup", "attach"}
      BY <2>3, RequestForm DEF Transactions
    <3> QED BY <3>1 DEF Stands
  <2> QED BY <2>2, <2>3 DEF MediaInv, TransitionNeverLost
<1> QED BY <1>1, Invariant, PTL

\* A verified record, and every cover, has an image in the storage, whatever fails,
\* comes late or goes on without its row; and it is the one whose digest the record
\* states unless a call without the row wrote it (get_public of repository.py).
THEOREM VerifiedIsServed == MediaSpec => []CoverIsServed
<1>1. IndInv => CoverIsServed
  <2> SUFFICES ASSUME IndInv PROVE CoverIsServed
    OBVIOUS
  <2>1. StoresOK /\ VerifiedAreStored
    BY DEF IndInv
  <2>2. ASSUME NEW a \in covers
        PROVE  Served(a) # None
    BY <2>1, <2>2 DEF StoresOK, VerifiedAreStored, Served, Servable, Verified
  <2> QED BY <2>1, <2>2 DEF CoverIsServed, VerifiedAreStored, Verified
<1> QED BY <1>1, Invariant, PTL
=============================================================================
