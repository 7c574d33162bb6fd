-------------------------- MODULE AgentCacheProofs --------------------------
(***************************************************************************)
(* Proofs about AgentCache, for any number of CIDs, attestations, changes  *)
(* of the account and pieces of work in progress.                          *)
(***************************************************************************)
EXTENDS AgentCache, FiniteSetTheorems, TLAPS

-----------------------------------------------------------------------------
(* The inductive invariant                                                  *)

\* Attestations are numbered as they are submitted, in seconds that do not run
\* ahead of them.
ChainInv ==
    /\ registry \in RegistryAccount
    /\ submitted \in [Attestations -> Seconds]
    /\ past \in SUBSET RegistryAccount /\ registry \in past
    /\ Submitted = 1..Cardinality(Submitted)
    /\ Cardinality(Submitted) \in Nat
    /\ registry.last_attested_at <= Cardinality(Submitted)

\* The pair of score and time of a cached record is one the registry has had.
HasPair(record) ==
    \E r \in past : /\ r.reputation_score = record.reputationScore
                    /\ r.last_attested_at = record.lastAttestedAt

StoreInv ==
    /\ agent \in CachedAgent
    /\ NameIsOfCid
    /\ ScoreHasItsTime
    /\ attestations \in [Seconds -> StoredAttestation]
    /\ \A s \in Seconds : attestations[s].of \in Submitted \cup {None}
    /\ linkable \subseteq receipts \cap Submitted
    /\ ReceiptIsLinked

LoadedPcs == {"manifest", "batch", "gateway", "refetch", "putFetched", "putAgent"}

\* The operations each kind of work waits for.
Waits(j) ==
    \/ j.kind = "fetchAll" /\ j.pc \in {"fetch", "manifest", "batch"}
    \/ j.kind = "backfill" /\ j.pc \in {"scan", "getAgent", "putAgent"}
    \/ /\ j.kind = "getAgentDetails"
       /\ j.pc \in {"getAgent", "fetch", "manifest", "gateway", "refetch", "putFetched",
                  "putAgent"}
    \/ j.kind = "attestationSubmitted" /\ j.pc \in {"getReceipt", "getAgent", "putAgent"}
    \/ j.kind = "cacheAttestation" /\ j.pc = "putAttestation"
    \/ j.kind = "arweaveCidUpdated" /\ j.pc \in {"getAgent", "putAgent"}
    \/ j.kind = "uploadReceipt" /\ j.pc \in {"pin", "putReceipt"}

\* What a piece of work carries: a record that could have been stored, the
\* content of an event that happened, and for an attestation the receipt it was
\* submitted after.
JobInv(j) ==
    /\ j \in Job
    /\ Waits(j)
    /\ j.read.name \in {None, j.read.arweaveCid}
    /\ j.pc \in LoadedPcs /\ ~backfilled => HasPair(j.read)
    /\ j.kind = "arweaveCidUpdated" => j.of \in 1..MaxCids
    /\ j.kind = "backfill" /\ j.pc # "scan" => j.of \in Submitted
    /\ j.kind \in {"attestationSubmitted", "cacheAttestation"} => j.of \in Submitted
    /\ j.kind = "attestationSubmitted" =>
         \E r \in past : /\ r.reputation_score = j.reputation
                         /\ r.last_attested_at = submitted[j.of]
    /\ j.kind = "cacheAttestation" /\ j.of \in linkable => j.linked

CacheInv == ChainInv /\ StoreInv /\ \A j \in jobs : JobInv(j)

\* The record is what the registry says.
Current(record) ==
    /\ record.arweaveCid = registry.arweave_cid
    /\ record.reputationScore = registry.reputation_score
    /\ record.lastAttestedAt = registry.last_attested_at

IsEvent(j) == j.kind \in {"attestationSubmitted", "arweaveCidUpdated"}

\* Once the handler has put its record, the cached agent is current.
Announces(j) ==
    IF j.pc = "putAgent" THEN Current(Assigned(j))
    ELSE agent # NoAgent => Current(Assigned([j EXCEPT !.read = agent]))

\* As long as nothing was missed or overlapped and the backfill has not written:
\* what was fetched is current, an event is handled alone, and without one the
\* cached agent is current.
QuietInv ==
    /\ phase = "down" => jobs = {}
    /\ ~gap /\ ~backfilled =>
         /\ \A j \in jobs : j.kind \in {"fetchAll", "getAgentDetails"}
                            /\ j.pc \in LoadedPcs => Current(j.read)
         /\ \A j \in jobs : IsEvent(j) => Touching = {j} /\ Announces(j)
         /\ (\A j \in jobs : ~IsEvent(j)) /\ agent # NoAgent => Current(agent)

-----------------------------------------------------------------------------
(* Frames                                                                   *)

\* A piece of work nobody touches keeps its invariant while the chain grows.
LEMMA JobKept ==
    ASSUME NEW j, JobInv(j),
           past \subseteq past', Submitted \subseteq Submitted',
           \A n \in Submitted : submitted'[n] = submitted[n],
           j.pc \in LoadedPcs /\ ~backfilled' => ~backfilled,
           j.of \in Submitted /\ j.of \in linkable' => j.of \in linkable
    PROVE  JobInv(j)'
<1>1. j.pc \in LoadedPcs /\ ~backfilled' => HasPair(j.read)'
  BY DEF JobInv, HasPair
<1>2. j.kind = "attestationSubmitted" =>
         \E r \in past' : /\ r.reputation_score = j.reputation
                          /\ r.last_attested_at = submitted'[j.of]
  BY DEF JobInv
<1>3. j.kind = "cacheAttestation" /\ j.of \in linkable' => j.linked
  BY DEF JobInv
<1>4. /\ j.kind = "backfill" /\ j.pc # "scan" => j.of \in Submitted'
      /\ j.kind \in {"attestationSubmitted", "cacheAttestation"} => j.of \in Submitted'
  BY DEF JobInv
<1>5. /\ j \in Job /\ Waits(j)
      /\ j.read.name \in {None, j.read.arweaveCid}
      /\ j.kind = "arweaveCidUpdated" => j.of \in 1..MaxCids
  BY DEF JobInv
<1> QED  BY <1>1, <1>2, <1>3, <1>4, <1>5 DEF JobInv, Waits

\* Work that writes nothing.
LEMMA WorkFrame ==
    ASSUME CacheInv, UNCHANGED <<chainVars, storeVars, backfilled, linkable>>,
           \A k \in jobs' : k \in jobs \/ JobInv(k)
    PROVE  CacheInv'
<1>1. Submitted' = Submitted
  BY DEF chainVars, Submitted
<1>2. ChainInv'
  BY <1>1 DEF CacheInv, ChainInv, chainVars
<1>3. StoreInv'
  BY <1>1 DEF CacheInv, StoreInv, chainVars, storeVars, NameIsOfCid,
              ScoreHasItsTime, ReceiptIsLinked
<1>4. ASSUME NEW k \in jobs' PROVE JobInv(k)'
  <2>1. JobInv(k)
    BY DEF CacheInv
  <2> QED  BY <1>1, <2>1, JobKept DEF chainVars
<1> QED  BY <1>2, <1>3, <1>4 DEF CacheInv

-----------------------------------------------------------------------------
(* The chain                                                                *)

\* A change keeps what the store and the work hold.
LEMMA ChangeFrame ==
    ASSUME CacheInv, NEW account, NEW heard, Change(account, heard), ChainInv',
           Submitted \subseteq Submitted',
           \A n \in Submitted : submitted'[n] = submitted[n],
           linkable' \subseteq receipts \cap Submitted',
           linkable' \cap Submitted \subseteq linkable,
           \A k \in jobs' : k \in jobs \/ JobInv(k)'
    PROVE  CacheInv'
<1>1. past \subseteq past' /\ UNCHANGED <<agent, attestations, receipts, backfilled>>
  BY DEF Change, storeVars
<1>2. StoreInv'
  <2>1. agent' \in CachedAgent /\ NameIsOfCid'
    BY <1>1 DEF CacheInv, StoreInv, NameIsOfCid
  <2>2. ScoreHasItsTime'
    BY <1>1 DEF CacheInv, StoreInv, ScoreHasItsTime
  <2>3. /\ attestations' \in [Seconds -> StoredAttestation]
        /\ \A s \in Seconds : attestations'[s].of \in Submitted' \cup {None}
    BY <1>1 DEF CacheInv, StoreInv
  <2>4. None \notin Submitted'
    BY DEF Submitted, Attestations, None
  <2>5. ReceiptIsLinked'
    BY <1>1, <2>4 DEF CacheInv, StoreInv, ReceiptIsLinked
  <2> QED  BY <1>1, <2>1, <2>2, <2>3, <2>5 DEF StoreInv
<1>3. ASSUME NEW k \in jobs' PROVE JobInv(k)'
  <2>1. CASE k \in jobs
    <3>1. JobInv(k)
      BY <2>1 DEF CacheInv
    <3> QED  BY <1>1, <3>1, JobKept
  <2> QED  BY <2>1
<1> QED  BY <1>2, <1>3 DEF CacheInv

\* What is new on chain is a RegistryAccount.
LEMMA SubmittedType ==
    ASSUME ChainInv, registry.reputation_score + registry.arweave_cid < MaxChanges
    PROVE  /\ registry.reputation_score + 1 \in 0..MaxChanges
           /\ registry.arweave_cid \in 0..MaxCids
           /\ registry.last_attested_at \in Seconds
<1>1. /\ registry.reputation_score \in 0..MaxChanges
      /\ registry.arweave_cid \in 0..MaxCids
      /\ registry.last_attested_at \in Seconds
  BY DEF ChainInv, RegistryAccount
<1> QED  BY <1>1, BoundsAssumption

LEMMA NoAgentTyped == NoAgent \in CachedAgent /\ NoAgent.name = None
BY BoundsAssumption DEF NoAgent, CachedAgent, Seconds, Attestations, None

LEMMA SubmitKeeps ==
    ASSUME CacheInv, SubmitAttestation PROVE CacheInv'
<1> DEFINE n == Cardinality(Submitted) + 1
           r == registry.reputation_score + 1
<1>1. PICK s \in {registry.last_attested_at, registry.last_attested_at + 1} \ {0} :
        /\ submitted' = [submitted EXCEPT ![n] = s]
        /\ Change([registry EXCEPT !.reputation_score = r, !.last_attested_at = s], TRUE)
  BY DEF SubmitAttestation
<1> DEFINE account == [registry EXCEPT !.reputation_score = r, !.last_attested_at = s]
<1>2. /\ n \in Attestations
      /\ Emit([NewJob("attestationSubmitted", "getReceipt", n) EXCEPT !.reputation = r])
      /\ linkable' = linkable \cup ({n} \cap receipts)
  BY DEF SubmitAttestation
<1>3. ChainInv
  BY DEF CacheInv
<1>4. /\ r \in 0..MaxChanges /\ r \in Nat
      /\ registry.arweave_cid \in 0..MaxCids
      /\ registry.last_attested_at \in Seconds
  BY <1>1, <1>3, SubmittedType DEF Change
<1>5. s \in Seconds /\ s <= n /\ s # 0
  <2>1. registry.last_attested_at <= Cardinality(Submitted) /\ Cardinality(Submitted) \in Nat
    BY <1>3 DEF ChainInv
  <2>2. s \in {registry.last_attested_at, registry.last_attested_at + 1} \ {0}
    OBVIOUS
  <2> QED  BY <1>2, <1>4, <2>1, <2>2, BoundsAssumption DEF Seconds, Attestations
<1>6. /\ account \in RegistryAccount
      /\ account.reputation_score = r /\ account.last_attested_at = s
  BY <1>3, <1>4, <1>5 DEF ChainInv, RegistryAccount
<1>7. /\ registry' = account /\ past' = past \cup {account}
      /\ UNCHANGED <<storeVars, backfilled>>
  BY <1>1 DEF Change
<1>8. /\ submitted' \in [Attestations -> Seconds]
      /\ submitted'[n] = s
      /\ \A m \in Attestations \ {n} : submitted'[m] = submitted[m]
  BY <1>1, <1>2, <1>3, <1>5 DEF ChainInv
<1>9. Submitted' = Submitted \cup {n} /\ n \notin Submitted
  <2>1. Submitted = 1..Cardinality(Submitted) /\ Cardinality(Submitted) \in Nat
    BY <1>3 DEF ChainInv
  <2>2. n \notin Submitted
    BY <2>1
  <2>3. Submitted' = {m \in Attestations : submitted'[m] # 0}
    BY DEF Submitted
  <2>4. Submitted = {m \in Attestations : submitted[m] # 0}
    BY DEF Submitted
  <2> HIDE DEF n
  <2> QED  BY <1>2, <1>5, <1>8, <2>2, <2>3, <2>4
<1>10. ChainInv'
  <2>1. Submitted = 1..Cardinality(Submitted) /\ Cardinality(Submitted) \in Nat
    BY <1>3 DEF ChainInv
  <2>2. Submitted' = 1..n
    BY <1>9, <2>1
  <2>3. Cardinality(1..n) = n
    <3>1. 1 \in Int /\ n \in Int /\ n >= 1
      BY <2>1
    <3>2. Cardinality(1..n) = IF 1 > n THEN 0 ELSE n - 1 + 1
      BY <3>1, FS_Interval
    <3> QED  BY <3>1, <3>2
  <2>4. Submitted' = 1..Cardinality(Submitted)' /\ Cardinality(Submitted)' = n /\ n \in Nat
    BY <2>1, <2>2, <2>3
  <2>5. past' \in SUBSET RegistryAccount /\ registry' \in past'
    BY <1>3, <1>6, <1>7 DEF ChainInv
  <2>6. registry'.last_attested_at = s
    BY <1>6, <1>7
  <2> HIDE DEF n
  <2> QED  BY <1>5, <1>6, <1>7, <1>8, <2>4, <2>5, <2>6 DEF ChainInv
<1>11. ASSUME NEW k \in jobs' PROVE k \in jobs \/ JobInv(k)'
  <2>0. PICK e : e = [NewJob("attestationSubmitted", "getReceipt", n) EXCEPT !.reputation = r]
    OBVIOUS
  <2>1. k \in jobs \/ k = e
    BY <1>2, <2>0 DEF Emit, Start
  <2>2. /\ e \in Job /\ e.kind = "attestationSubmitted" /\ e.pc = "getReceipt"
        /\ e.of = n /\ e.reputation = r /\ e.read = NoAgent
    <3>1. n \in Nat
      BY <1>2, BoundsAssumption DEF Attestations
    <3> HIDE DEF n, r
    <3> QED  BY <1>4, <2>0, <3>1, NoAgentTyped DEF NewJob, Job
  <2>3. n \in Submitted' /\ account \in past' /\ account.last_attested_at = submitted'[n]
    BY <1>6, <1>7, <1>8, <1>9
  <2> HIDE DEF account, n, r
  <2>4. JobInv(e)'
    BY <1>6, <2>2, <2>3, NoAgentTyped DEF JobInv, Waits, LoadedPcs
  <2> QED  BY <2>1, <2>4
<1>12. /\ linkable' \subseteq receipts \cap Submitted'
       /\ linkable' \cap Submitted \subseteq linkable
  <2>1. linkable \subseteq receipts \cap Submitted
    BY DEF CacheInv, StoreInv
  <2> HIDE DEF n
  <2> QED  BY <1>2, <1>9, <2>1
<1>13. \A m \in Submitted : submitted'[m] = submitted[m]
  <2> HIDE DEF n
  <2> QED  BY <1>8, <1>9 DEF Submitted
<1> HIDE DEF n, r
<1> QED  BY <1>1, <1>9, <1>10, <1>11, <1>12, <1>13, ChangeFrame

\* The other two leave the attestations alone.
LEMMA OtherChangeKeeps ==
    ASSUME CacheInv, WriteArweaveCid \/ RecordSlash PROVE CacheInv'
<1>1. UNCHANGED <<submitted, linkable>> /\ Submitted' = Submitted
  BY DEF WriteArweaveCid, RecordSlash, Submitted
<1>2. ChainInv
  BY DEF CacheInv
<1>3. \A account, heard :
        Change(account, heard) /\ account \in RegistryAccount
        /\ account.last_attested_at = registry.last_attested_at => ChainInv'
  BY <1>1, <1>2 DEF ChainInv, Change
<1>4. linkable \subseteq receipts \cap Submitted
  BY DEF CacheInv, StoreInv
<1>5. CASE WriteArweaveCid
  <2> DEFINE account == [registry EXCEPT !.arweave_cid = @ + 1]
  <2>0. PICK e : e = NewJob("arweaveCidUpdated", "getAgent", registry.arweave_cid + 1)
    OBVIOUS
  <2>1. /\ Change(account, TRUE) /\ Emit(e)
    BY <1>5, <2>0 DEF WriteArweaveCid
  <2>2. registry.arweave_cid + 1 \in 1..MaxCids
    BY <1>2, <1>5, BoundsAssumption DEF WriteArweaveCid, ChainInv, RegistryAccount
  <2>3. account \in RegistryAccount /\ account.last_attested_at = registry.last_attested_at
    BY <1>2, <2>2 DEF ChainInv, RegistryAccount
  <2>4. /\ e \in Job /\ e.kind = "arweaveCidUpdated" /\ e.pc = "getAgent"
        /\ e.of \in 1..MaxCids /\ e.read = NoAgent
    BY <2>0, <2>2, NoAgentTyped DEF NewJob, Job
  <2>5. \A k \in jobs' : k \in jobs \/ k = e
    BY <2>1 DEF Emit, Start
  <2> HIDE DEF account
  <2>6. JobInv(e)'
    BY <2>4, NoAgentTyped DEF JobInv, Waits, LoadedPcs
  <2>7. ChainInv'
    BY <1>3, <2>1, <2>3
  <2> QED  BY <1>1, <1>4, <2>1, <2>5, <2>6, <2>7, ChangeFrame
<1>6. CASE RecordSlash
  <2> DEFINE account == [registry EXCEPT !.reputation_score = @ + 1]
  <2>1. Change(account, FALSE) /\ jobs' = jobs
    BY <1>6 DEF RecordSlash
  <2>2. account \in RegistryAccount /\ account.last_attested_at = registry.last_attested_at
    <3>1. registry.reputation_score + 1 \in 0..MaxChanges
      BY <1>2, <2>1, SubmittedType DEF Change
    <3> QED  BY <1>2, <3>1 DEF ChainInv, RegistryAccount
  <2> HIDE DEF account
  <2>3. ChainInv'
    BY <1>3, <2>1, <2>2
  <2> QED  BY <1>1, <1>4, <2>1, <2>3, ChangeFrame
<1> QED  BY <1>5, <1>6

-----------------------------------------------------------------------------
(* Work that writes nothing                                                 *)

\* An update has the record it read, or there is none.
LEMMA GetAgentKeeps ==
    ASSUME CacheInv, NEW j \in jobs, GetAgentOfUpdate(j) \/ GetAgentOfDetails(j)
    PROVE  CacheInv'
<1>1. JobInv(j)
  BY DEF CacheInv
<1>2. UNCHANGED <<chainVars, storeVars, backfilled, linkable>>
  BY DEF GetAgentOfUpdate, GetAgentOfDetails, historyVars
<1>3. /\ agent \in CachedAgent /\ agent.name \in {None, agent.arweaveCid}
      /\ agent # NoAgent /\ ~backfilled => HasPair(agent)
  BY DEF CacheInv, StoreInv, NameIsOfCid, ScoreHasItsTime, HasPair
<1>4. ASSUME NEW k \in jobs' PROVE k \in jobs \/ JobInv(k)
  <2>1. CASE k \in jobs
    BY <2>1
  <2>2. CASE k \notin jobs /\ GetAgentOfUpdate(j)
    <3>1. k = [j EXCEPT !.pc = "putAgent", !.read = agent] /\ agent # NoAgent
      BY <2>2 DEF GetAgentOfUpdate, Finish, GotoWith
    <3>2. j.kind \in {"attestationSubmitted", "arweaveCidUpdated", "backfill"}
          /\ j.pc = "getAgent"
      BY <2>2 DEF GetAgentOfUpdate, At
    <3>3. /\ k \in Job /\ k.pc = "putAgent" /\ k.read = agent /\ k.kind = j.kind
          /\ k.of = j.of /\ k.reputation = j.reputation /\ k.linked = j.linked
      BY <1>1, <1>3, <3>1 DEF JobInv, Job
    <3> QED  BY <1>1, <1>3, <3>1, <3>2, <3>3 DEF JobInv, Waits
  <2>3. CASE k \notin jobs /\ GetAgentOfDetails(j)
    <3>1. j.kind = "getAgentDetails" /\ j.pc = "getAgent"
      BY <2>3 DEF GetAgentOfDetails, At
    <3>2. CASE k = [j EXCEPT !.pc = "fetch"]
      <4>1. /\ k \in Job /\ k.pc = "fetch" /\ k.read = j.read /\ k.kind = j.kind
        BY <1>1, <3>2 DEF JobInv, Job
      <4> QED  BY <1>1, <3>1, <4>1 DEF JobInv, Waits, LoadedPcs
    <3>3. CASE agent # NoAgent /\ k = [j EXCEPT !.pc = "gateway", !.read = agent]
      <4>1. /\ k \in Job /\ k.pc = "gateway" /\ k.read = agent /\ k.kind = j.kind
        BY <1>1, <1>3, <3>3 DEF JobInv, Job
      <4> QED  BY <1>1, <1>3, <3>1, <3>3, <4>1 DEF JobInv, Waits
    <3> QED  BY <2>3, <3>2, <3>3 DEF GetAgentOfDetails, Goto, GotoWith, Finish
  <2> QED  BY <2>1, <2>2, <2>3
<1> QED  BY <1>2, <1>4, WorkFrame

\* What the chain and the gateway return fits together.
LEMMA FetchKeeps ==
    ASSUME CacheInv, NEW j \in jobs,
           Populate(j) \/ FetchAccounts(j) \/ FetchManifest(j)
    PROVE  CacheInv'
<1>1. JobInv(j) /\ j \in Job /\ j.read \in CachedAgent /\ ChainInv
  BY DEF CacheInv, JobInv, Job
<1>2. UNCHANGED <<chainVars, storeVars, backfilled, linkable>>
  BY DEF Populate, FetchAccounts, FetchManifest, historyVars
<1>3. ASSUME NEW k, NEW read \in CachedAgent, NEW pc,
             k = [j EXCEPT !.pc = pc, !.read = read],
             pc \in {"manifest", "batch", "refetch", "putFetched", "putAgent"},
             read.name \in {None, read.arweaveCid},
             ~backfilled => HasPair(read),
             j.kind \in {"fetchAll", "getAgentDetails"},
             j.kind = "fetchAll" => pc \in {"manifest", "batch"},
             j.kind = "getAgentDetails" => pc # "batch"
      PROVE  JobInv(k)
  <2>1. /\ k \in Job /\ k.pc = pc /\ k.read = read /\ k.kind = j.kind
    BY <1>1, <1>3 DEF Job
  <2> QED  BY <1>3, <2>1 DEF JobInv, Waits
<1>4. ASSUME NEW k \in jobs' PROVE k \in jobs \/ JobInv(k)
  <2>1. CASE Populate(j)
    <3> DEFINE read == [j.read EXCEPT !.name = j.read.arweaveCid]
    <3>0. PICK pc : pc = IF j.pc = "gateway" THEN "putAgent" ELSE "putFetched"
      OBVIOUS
    <3>1. j.kind = "getAgentDetails" /\ j.pc \in {"gateway", "refetch"}
      BY <1>1, <2>1 DEF Populate, At, JobInv, Waits
    <3>2. k \in jobs \/ k = [j EXCEPT !.pc = pc, !.read = read]
      BY <2>1, <3>0 DEF Populate, GotoWith
    <3>3. read \in CachedAgent /\ read.name = read.arweaveCid
      BY <1>1 DEF CachedAgent
    <3>4. ~backfilled => HasPair(read)
      BY <1>1, <3>1 DEF JobInv, LoadedPcs, HasPair, CachedAgent
    <3> HIDE DEF read
    <3>5. CASE k \in jobs
      BY <3>5
    <3>6. CASE k = [j EXCEPT !.pc = pc, !.read = read]
      <4>1. pc \in {"putAgent", "putFetched"}
        BY <3>0
      <4> QED  BY <1>3, <3>1, <3>3, <3>4, <3>6, <4>1
    <3> QED  BY <3>2, <3>5, <3>6
  <2>2. CASE FetchAccounts(j)
    <3> DEFINE read == [arweaveCid      |-> registry.arweave_cid,
                        reputationScore |-> registry.reputation_score,
                        lastAttestedAt  |-> registry.last_attested_at,
                        name |-> None, manifest |-> None]
    <3>1. j.kind \in {"fetchAll", "getAgentDetails"} /\ j.pc = "fetch"
      BY <1>1, <2>2 DEF FetchAccounts, At, JobInv, Waits
    <3>2. k \in jobs \/ k = [j EXCEPT !.pc = "manifest", !.read = read]
      BY <2>2 DEF FetchAccounts, GotoWith, Finish
    <3>3. read \in CachedAgent /\ read.name = None
      BY <1>1, BoundsAssumption DEF ChainInv, RegistryAccount, CachedAgent, None
    <3>4. HasPair(read)
      BY <1>1 DEF ChainInv, HasPair
    <3> HIDE DEF read
    <3> QED  BY <1>3, <3>1, <3>2, <3>3, <3>4
  <2>3. CASE FetchManifest(j)
    <3> DEFINE read == [j.read EXCEPT !.name = j.read.arweaveCid,
                                      !.manifest = j.read.arweaveCid]
    <3>0. PICK pc : pc = IF j.kind = "fetchAll" THEN "batch"
                         ELSE IF Complete(read) THEN "putAgent"
                         ELSE "refetch"
      OBVIOUS
    <3>1. j.kind \in {"fetchAll", "getAgentDetails"} /\ j.pc = "manifest"
      BY <1>1, <2>3 DEF FetchManifest, At, JobInv, Waits
    <3>2. k \in jobs \/ k = [j EXCEPT !.pc = pc, !.read = read]
      BY <2>3, <3>0 DEF FetchManifest, GotoWith
    <3>3. read \in CachedAgent /\ read.name = read.arweaveCid
      BY <1>1 DEF CachedAgent
    <3>4. ~backfilled => HasPair(read)
      BY <1>1, <3>1 DEF JobInv, LoadedPcs, HasPair, CachedAgent
    <3> HIDE DEF read
    <3>5. CASE k \in jobs
      BY <3>5
    <3>6. CASE k = [j EXCEPT !.pc = pc, !.read = read]
      <4>1. IF j.kind = "fetchAll" THEN pc = "batch" ELSE pc \in {"putAgent", "refetch"}
        BY <3>0
      <4> QED  BY <1>3, <3>1, <3>3, <3>4, <3>6, <4>1
    <3> QED  BY <3>2, <3>5, <3>6
  <2> QED  BY <2>1, <2>2, <2>3
<1> QED  BY <1>2, <1>4, WorkFrame

LEMMA ReceiptWorkKeeps ==
    ASSUME CacheInv, NEW j \in jobs,
           Pin(j) \/ GetReceipt(j) \/ ScanAttestations(j) \/ Fail(j)
    PROVE  CacheInv'
<1>1. JobInv(j) /\ j \in Job /\ StoreInv
  BY DEF CacheInv, JobInv
<1>2. UNCHANGED <<chainVars, storeVars, backfilled, linkable>>
  BY DEF Pin, GetReceipt, ScanAttestations, Fail, historyVars
<1>3. ASSUME NEW k \in jobs' PROVE k \in jobs \/ JobInv(k)
  <2>1. CASE k \in jobs
    BY <2>1
  <2>2. CASE k \notin jobs /\ Pin(j)
    <3>1. k = [j EXCEPT !.pc = "putReceipt"] /\ j.pc = "pin"
      BY <2>2 DEF Pin, Goto, At
    <3>2. k \in Job /\ k.pc = "putReceipt" /\ k.kind = j.kind /\ k.read = j.read
      BY <1>1, <3>1 DEF Job
    <3>3. j.kind = "uploadReceipt"
      BY <1>1, <3>1 DEF JobInv, Waits
    <3> QED  BY <1>1, <3>2, <3>3 DEF JobInv, Waits, LoadedPcs
  <2>3. CASE k \notin jobs /\ GetReceipt(j)
    <3>1. j.kind = "attestationSubmitted" /\ j.pc = "getReceipt"
      BY <2>3 DEF GetReceipt, At
    <3>2. CASE k = [j EXCEPT !.pc = "getAgent"]
      <4>1. /\ k \in Job /\ k.pc = "getAgent" /\ k.kind = j.kind /\ k.read = j.read
            /\ k.of = j.of /\ k.reputation = j.reputation
        BY <1>1, <3>2 DEF Job
      <4> QED  BY <1>1, <3>1, <4>1 DEF JobInv, Waits, LoadedPcs
    <3>3. CASE k = [j EXCEPT !.kind = "cacheAttestation", !.pc = "putAttestation",
                             !.linked = j.of \in receipts]
      <4>0. PICK found \in BOOLEAN :
              /\ found <=> j.of \in receipts
              /\ k = [j EXCEPT !.kind = "cacheAttestation", !.pc = "putAttestation",
                              !.linked = found]
        <5>1. CASE j.of \in receipts
          BY <3>3, <5>1
        <5>2. CASE j.of \notin receipts
          <6>1. (j.of \in receipts) = FALSE
            BY <5>2
          <6>2. k = [j EXCEPT !.kind = "cacheAttestation", !.pc = "putAttestation",
                              !.linked = FALSE]
            BY <3>3, <6>1, Zenon
          <6> QED  BY <5>2, <6>2
        <5> QED  BY <5>1, <5>2
      <4>1. /\ k \in Job /\ k.pc = "putAttestation" /\ k.kind = "cacheAttestation"
            /\ k.read = j.read /\ k.of = j.of /\ k.linked = found
        BY <1>1, <4>0 DEF Job
      <4>2. j.of \in linkable => j.of \in receipts
        BY <1>1 DEF StoreInv
      <4> QED  BY <1>1, <3>1, <4>0, <4>1, <4>2 DEF JobInv, Waits, LoadedPcs
    <3> QED  BY <2>3, <3>2, <3>3 DEF GetReceipt
  <2>4. CASE k \notin jobs /\ ScanAttestations(j)
    <3>1. PICK n \in Submitted : k = [j EXCEPT !.pc = "getAgent", !.of = n]
      BY <2>4 DEF ScanAttestations, Finish
    <3>2. j.kind = "backfill"
      BY <1>1, <2>4 DEF ScanAttestations, At, JobInv, Waits
    <3>3. n \in Nat
      BY BoundsAssumption DEF Submitted, Attestations
    <3>4. /\ k \in Job /\ k.pc = "getAgent" /\ k.kind = j.kind /\ k.read = j.read
          /\ k.of = n
      BY <1>1, <3>1, <3>3 DEF Job
    <3> QED  BY <1>1, <3>2, <3>4 DEF JobInv, Waits, LoadedPcs
  <2>5. CASE Fail(j)
    BY <2>5 DEF Fail, Finish
  <2> QED  BY <2>1, <2>2, <2>3, <2>4, <2>5
<1> QED  BY <1>2, <1>3, WorkFrame

\* Requests, and the process.
LEMMA ProcessKeeps ==
    ASSUME CacheInv,
           \/ RequestDetails \/ \E n \in Attestations : RequestUpload(n)
           \/ Boot \/ Listen \/ Stop
    PROVE  CacheInv'
<1>1. UNCHANGED <<chainVars, storeVars, backfilled, linkable>>
  BY DEF RequestDetails, RequestUpload, Boot, Listen, Stop, historyVars
<1>2. ASSUME NEW kind, NEW pc, NEW of \in Nat,
             <<kind, pc>> \in {<<"fetchAll", "fetch">>, <<"backfill", "scan">>,
                               <<"getAgentDetails", "getAgent">>, <<"uploadReceipt", "pin">>}
      PROVE  JobInv(NewJob(kind, pc, of))
  <2> DEFINE k == NewJob(kind, pc, of)
  <2>1. /\ k \in Job /\ k.kind = kind /\ k.pc = pc /\ k.read = NoAgent
    BY <1>2, NoAgentTyped DEF NewJob, Job
  <2> HIDE DEF k
  <2>2. JobInv(k)
    BY <1>2, <2>1, NoAgentTyped DEF JobInv, Waits, LoadedPcs
  <2> QED  BY <2>2 DEF k
<1>3. ASSUME NEW k \in jobs' PROVE k \in jobs \/ JobInv(k)
  <2>1. CASE RequestDetails
    <3>1. \E id \in 1..MaxJobs : k \in jobs \/ k = NewJob("getAgentDetails", "getAgent", id)
      BY <2>1 DEF RequestDetails, Start
    <3> QED  BY <1>2, <3>1, BoundsAssumption
  <2>2. CASE \E n \in Attestations : RequestUpload(n)
    <3>1. \E n \in Attestations : k \in jobs \/ k = NewJob("uploadReceipt", "pin", n)
      BY <2>2 DEF RequestUpload, Start
    <3> QED  BY <1>2, <3>1, BoundsAssumption DEF Attestations
  <2>3. CASE Boot
    <3>1. k = NewJob("fetchAll", "fetch", 0) \/ k = NewJob("backfill", "scan", 0)
      BY <2>3 DEF Boot
    <3> QED  BY <1>2, <3>1
  <2>4. CASE Listen \/ Stop
    BY <2>4 DEF Listen, Stop
  <2> QED  BY <2>1, <2>2, <2>3, <2>4
<1> QED  BY <1>1, <1>3, WorkFrame

-----------------------------------------------------------------------------
(* Writes                                                                   *)

\* What a writer puts has the name of its CID, and a pair of the past unless
\* the backfill made it.
LEMMA AssignedFits ==
    ASSUME NEW j, CacheInv, JobInv(j), j.pc \in {"batch", "putAgent"}
    PROVE  /\ Assigned(j) \in CachedAgent
           /\ Assigned(j).name \in {None, Assigned(j).arweaveCid}
           /\ j.kind # "backfill" /\ ~backfilled => HasPair(Assigned(j))
<1>1. /\ j \in Job /\ j.read \in CachedAgent
      /\ j.read.name \in {None, j.read.arweaveCid}
      /\ ~backfilled => HasPair(j.read)
  BY DEF JobInv, Job, LoadedPcs
<1>2. /\ submitted \in [Attestations -> Seconds] /\ past \in SUBSET RegistryAccount
      /\ Submitted \subseteq Attestations
  BY DEF CacheInv, ChainInv, Submitted
<1>3. CASE j.kind = "attestationSubmitted"
  <2>1. PICK r \in past : r.reputation_score = j.reputation
                          /\ r.last_attested_at = submitted[j.of]
    BY <1>3 DEF JobInv
  <2>2. j.reputation \in 0..MaxChanges /\ submitted[j.of] \in Seconds
    BY <1>2, <2>1 DEF RegistryAccount
  <2>3. PICK a : a = [j.read EXCEPT !.reputationScore = j.reputation,
                                    !.lastAttestedAt = submitted[j.of]]
    OBVIOUS
  <2>4. /\ a \in CachedAgent /\ a.name = j.read.name /\ a.arweaveCid = j.read.arweaveCid
        /\ a.reputationScore = j.reputation /\ a.lastAttestedAt = submitted[j.of]
    BY <1>1, <2>2, <2>3 DEF CachedAgent
  <2>5. Assigned(j) = a
    BY <1>3, <2>3 DEF Assigned
  <2> QED  BY <1>1, <2>1, <2>4, <2>5 DEF HasPair
<1>4. CASE j.kind = "arweaveCidUpdated"
  <2>1. j.of \in 0..MaxCids
    BY <1>4, BoundsAssumption DEF JobInv
  <2>2. PICK a : a = [j.read EXCEPT !.arweaveCid = j.of, !.name = None]
    OBVIOUS
  <2>3. /\ a \in CachedAgent /\ a.name = None
        /\ a.reputationScore = j.read.reputationScore
        /\ a.lastAttestedAt = j.read.lastAttestedAt
    BY <1>1, <2>1, <2>2, NoAgentTyped DEF CachedAgent, None
  <2>4. Assigned(j) = a
    BY <1>4, <2>2 DEF Assigned
  <2> QED  BY <1>1, <2>3, <2>4 DEF HasPair
<1>5. CASE j.kind = "backfill"
  <2>1. submitted[j.of] \in Seconds
    BY <1>2, <1>5 DEF JobInv
  <2>2. PICK a : a = [j.read EXCEPT !.lastAttestedAt = submitted[j.of]]
    OBVIOUS
  <2>3. /\ a \in CachedAgent /\ a.name = j.read.name /\ a.arweaveCid = j.read.arweaveCid
    BY <1>1, <2>1, <2>2 DEF CachedAgent
  <2>4. Assigned(j) = a
    BY <1>5, <2>2 DEF Assigned
  <2> QED  BY <1>1, <1>5, <2>3, <2>4
<1>6. CASE j.kind \notin {"attestationSubmitted", "arweaveCidUpdated", "backfill"}
  <2>1. Assigned(j) = j.read
    BY <1>6 DEF Assigned
  <2> QED  BY <1>1, <2>1
<1> QED  BY <1>3, <1>4, <1>5, <1>6

\* Work that is not on the cached agent carries no record of it.
LEMMA OthersCarryNothing ==
    ASSUME NEW j, NEW k, Touching = {j}, k \in jobs, k # j, JobInv(k)
    PROVE  k.pc \notin LoadedPcs
BY DEF Touching, JobInv, Waits, LoadedPcs

LEMMA WriteAgentKeeps ==
    ASSUME CacheInv, NEW j \in jobs, WriteAgent(j)
    PROVE  CacheInv'
<1>1. JobInv(j) /\ j.pc \in {"batch", "putAgent"}
  BY DEF CacheInv, WriteAgent, At
<1>2. /\ UNCHANGED <<chainVars, attestations, receipts, linkable>>
      /\ agent' = Assigned(j)
      /\ jobs' = jobs \ {j}
      /\ backfilled' = (j.kind = "backfill" \/ (backfilled /\ ~Refreshes(j)))
  BY DEF WriteAgent, PutAgent, Finish
<1>3. Submitted' = Submitted /\ ChainInv'
  BY <1>2 DEF CacheInv, ChainInv, chainVars, Submitted
<1>4. /\ agent' \in CachedAgent
      /\ agent'.name \in {None, agent'.arweaveCid}
      /\ j.kind # "backfill" /\ ~backfilled => HasPair(agent')
  BY <1>1, <1>2, AssignedFits
<1>5. ~backfilled' => HasPair(agent')
  <2>1. CASE Refreshes(j)
    <3>1. /\ j.read.reputationScore = registry.reputation_score
          /\ j.read.lastAttestedAt = registry.last_attested_at
      BY <2>1 DEF Refreshes
    <3>2. Assigned(j) = j.read
      BY <2>1 DEF Refreshes, Assigned
    <3>3. registry \in past
      BY DEF CacheInv, ChainInv
    <3> QED  BY <1>2, <3>1, <3>2, <3>3 DEF HasPair
  <2> QED  BY <1>2, <1>4, <2>1
<1>6. ScoreHasItsTime'
  BY <1>2, <1>5 DEF ScoreHasItsTime, HasPair, chainVars
<1>7. StoreInv'
  <2>1. /\ attestations' \in [Seconds -> StoredAttestation]
        /\ \A s \in Seconds : attestations'[s].of \in Submitted' \cup {None}
        /\ linkable' \subseteq receipts' \cap Submitted'
        /\ ReceiptIsLinked'
    BY <1>2, <1>3 DEF CacheInv, StoreInv, ReceiptIsLinked
  <2> QED  BY <1>4, <1>6, <2>1 DEF StoreInv, NameIsOfCid
<1>8. ASSUME NEW k \in jobs' PROVE JobInv(k)'
  <2>1. k \in jobs /\ k # j /\ JobInv(k)
    BY <1>2 DEF CacheInv
  <2>2. k.pc \in LoadedPcs /\ ~backfilled' => ~backfilled
    <3>1. CASE Touching = {j}
      BY <2>1, <3>1, OthersCarryNothing
    <3>2. CASE Touching # {j}
      BY <1>2, <3>2 DEF Refreshes
    <3> QED  BY <3>1, <3>2
  <2> QED  BY <1>2, <1>3, <2>1, <2>2, JobKept DEF chainVars
<1> QED  BY <1>3, <1>7, <1>8 DEF CacheInv

\* The first of the two puts of a fetched record.
LEMMA WriteFetchedKeeps ==
    ASSUME CacheInv, NEW j \in jobs, WriteFetched(j)
    PROVE  CacheInv'
<1>1. /\ JobInv(j) /\ j \in Job /\ j.pc = "putFetched" /\ j.read \in CachedAgent
      /\ j.kind = "getAgentDetails"
  BY DEF CacheInv, JobInv, Job, Waits, WriteFetched, At
<1>2. PICK k : k = [j EXCEPT !.pc = "putAgent"]
  OBVIOUS
<1>3. /\ UNCHANGED <<chainVars, attestations, receipts, historyVars>>
      /\ agent' = j.read
      /\ jobs' = (jobs \ {j}) \cup {k}
  BY <1>2 DEF WriteFetched, PutAgent, Goto
<1>4. Submitted' = Submitted /\ ChainInv'
  BY <1>3 DEF CacheInv, ChainInv, chainVars, Submitted
<1>5. /\ agent' \in CachedAgent
      /\ agent'.name \in {None, agent'.arweaveCid}
      /\ ~backfilled => HasPair(agent')
  BY <1>1, <1>3 DEF JobInv, LoadedPcs
<1>6. ScoreHasItsTime'
  BY <1>3, <1>5 DEF ScoreHasItsTime, HasPair, chainVars, historyVars
<1>7. StoreInv'
  <2>1. /\ attestations' \in [Seconds -> StoredAttestation]
        /\ \A s \in Seconds : attestations'[s].of \in Submitted' \cup {None}
        /\ linkable' \subseteq receipts' \cap Submitted'
        /\ ReceiptIsLinked'
    BY <1>3, <1>4 DEF CacheInv, StoreInv, ReceiptIsLinked, historyVars
  <2> QED  BY <1>5, <1>6, <2>1 DEF StoreInv, NameIsOfCid
<1>8. JobInv(k)
  <2>1. /\ k \in Job /\ k.pc = "putAgent" /\ k.kind = j.kind /\ k.read = j.read
    BY <1>1, <1>2 DEF Job
  <2> QED  BY <1>1, <2>1 DEF JobInv, Waits, LoadedPcs
<1>9. ASSUME NEW m \in jobs' PROVE JobInv(m)'
  <2>1. JobInv(m)
    BY <1>3, <1>8 DEF CacheInv
  <2> QED  BY <1>3, <1>4, <2>1, JobKept DEF chainVars, historyVars
<1> QED  BY <1>4, <1>7, <1>9 DEF CacheInv

LEMMA PutReceiptKeeps ==
    ASSUME CacheInv, NEW j \in jobs, PutReceipt(j)
    PROVE  CacheInv'
<1>1. /\ UNCHANGED <<chainVars, agent, attestations, historyVars>>
      /\ receipts \subseteq receipts' /\ jobs' \subseteq jobs
  BY DEF PutReceipt, Finish
<1>2. Submitted' = Submitted /\ ChainInv'
  BY <1>1 DEF CacheInv, ChainInv, chainVars, Submitted
<1>3. StoreInv'
  BY <1>1, <1>2 DEF CacheInv, StoreInv, NameIsOfCid, ScoreHasItsTime, ReceiptIsLinked,
                    chainVars, historyVars
<1>4. ASSUME NEW k \in jobs' PROVE JobInv(k)'
  <2>1. JobInv(k)
    BY <1>1 DEF CacheInv
  <2> QED  BY <1>1, <1>2, <2>1, JobKept DEF chainVars, historyVars
<1> QED  BY <1>2, <1>3, <1>4 DEF CacheInv

LEMMA PutAttestationKeeps ==
    ASSUME CacheInv, NEW j \in jobs, PutAttestation(j)
    PROVE  CacheInv'
<1>1. JobInv(j) /\ j \in Job /\ j.kind = "cacheAttestation" /\ j.of \in Submitted
  BY DEF CacheInv, JobInv, PutAttestation, At, Waits
<1>2. /\ UNCHANGED <<chainVars, agent, receipts, gap, backfilled, linkable>>
      /\ attestations' = [attestations EXCEPT ![Key(j.of)] =
                            [of |-> j.of, linked |-> j.linked]]
      /\ jobs' \subseteq jobs
  BY DEF PutAttestation, Finish
<1>3. Submitted' = Submitted /\ ChainInv'
  BY <1>2 DEF CacheInv, ChainInv, chainVars, Submitted
<1>4. PICK a : a = [of |-> j.of, linked |-> j.linked]
  OBVIOUS
<1>5. /\ a \in StoredAttestation /\ a.of \in Submitted
      /\ a.of \in linkable => a.linked
  BY <1>1, <1>4 DEF StoredAttestation, Submitted, Job, JobInv
<1>6. /\ attestations \in [Seconds -> StoredAttestation]
      /\ \A s \in Seconds : attestations[s].of \in Submitted \cup {None}
      /\ linkable \subseteq receipts \cap Submitted
      /\ ReceiptIsLinked
  BY DEF CacheInv, StoreInv
<1>7. attestations' \in [Seconds -> StoredAttestation]
      /\ \A s \in Seconds : attestations'[s] \in {attestations[s], a}
  BY <1>2, <1>4, <1>5, <1>6
<1>8. StoreInv'
  <2>1. \A s \in Seconds : attestations'[s].of \in Submitted' \cup {None}
    BY <1>3, <1>5, <1>6, <1>7
  <2>2. ReceiptIsLinked'
    BY <1>2, <1>5, <1>6, <1>7 DEF ReceiptIsLinked
  <2>3. agent' \in CachedAgent /\ NameIsOfCid' /\ ScoreHasItsTime'
    BY <1>2 DEF CacheInv, StoreInv, NameIsOfCid, ScoreHasItsTime, chainVars
  <2> QED  BY <1>2, <1>3, <1>6, <1>7, <2>1, <2>2, <2>3 DEF StoreInv
<1>9. ASSUME NEW k \in jobs' PROVE JobInv(k)'
  <2>1. JobInv(k)
    BY <1>2 DEF CacheInv
  <2> QED  BY <1>2, <1>3, <2>1, JobKept DEF chainVars
<1> QED  BY <1>3, <1>8, <1>9 DEF CacheInv

-----------------------------------------------------------------------------
(* Induction                                                                *)

LEMMA CacheInit == ASSUME Init PROVE CacheInv
<1>1. Submitted = {}
  BY DEF Init, Submitted
<1>2. Cardinality(Submitted) = 0 /\ 1..0 = {}
  BY <1>1, FS_EmptySet
<1>3. registry \in RegistryAccount /\ registry.last_attested_at = 0
  BY BoundsAssumption DEF Init, RegistryAccount, Seconds, None
<1>4. submitted \in [Attestations -> Seconds]
  BY BoundsAssumption DEF Init, Seconds, Attestations
<1>5. ChainInv
  BY <1>1, <1>2, <1>3, <1>4 DEF Init, ChainInv
<1>6. NoAttestation \in StoredAttestation /\ NoAttestation.of = None
  BY DEF NoAttestation, StoredAttestation
<1>7. StoreInv
  BY <1>6, NoAgentTyped DEF Init, StoreInv, NameIsOfCid, ScoreHasItsTime, ReceiptIsLinked
<1> QED  BY <1>5, <1>7 DEF Init, CacheInv

LEMMA CacheNext == ASSUME CacheInv, [Next]_vars PROVE CacheInv'
<1>1. CASE SubmitAttestation \/ WriteArweaveCid \/ RecordSlash
  BY <1>1, SubmitKeeps, OtherChangeKeeps
<1>2. CASE \/ RequestDetails \/ \E n \in Attestations : RequestUpload(n)
           \/ Boot \/ Listen \/ Stop
  BY <1>2, ProcessKeeps
<1>3. ASSUME NEW j \in jobs, JobStep(j) PROVE CacheInv'
  <2>1. CASE GetAgentOfUpdate(j) \/ GetAgentOfDetails(j)
    BY <2>1, GetAgentKeeps
  <2>2. CASE Populate(j) \/ FetchAccounts(j) \/ FetchManifest(j)
    BY <2>2, FetchKeeps
  <2>3. CASE Pin(j) \/ GetReceipt(j) \/ ScanAttestations(j) \/ Fail(j)
    BY <2>3, ReceiptWorkKeeps
  <2>4. CASE WriteAgent(j)
    BY <2>4, WriteAgentKeeps
  <2>5. CASE PutReceipt(j)
    BY <2>5, PutReceiptKeeps
  <2>6. CASE PutAttestation(j)
    BY <2>6, PutAttestationKeeps
  <2>7. CASE WriteFetched(j)
    BY <2>7, WriteFetchedKeeps
  <2> QED  BY <1>3, <2>1, <2>2, <2>3, <2>4, <2>5, <2>6, <2>7 DEF JobStep
<1>4. CASE UNCHANGED vars
  BY <1>4, WorkFrame DEF vars, historyVars
<1> QED  BY <1>1, <1>2, <1>3, <1>4 DEF Next

LEMMA CacheInvariant == Spec => []CacheInv
<1>1. Init => CacheInv
  BY CacheInit
<1>2. CacheInv /\ [Next]_vars => CacheInv'
  BY CacheNext
<1> QED  BY <1>1, <1>2, PTL DEF Spec

\* However reads and writes of the cached agent interleave, no put pairs the
\* name of one manifest with the CID of another.
THEOREM NameCorrect == Spec => []NameIsOfCid
<1>1. CacheInv => NameIsOfCid
  BY DEF CacheInv, StoreInv
<1> QED  BY <1>1, CacheInvariant, PTL

\* Whichever writer won, until the backfill has written, score and time are a
\* pair the registry has had.
THEOREM ScoreCorrect == Spec => []ScoreHasItsTime
<1>1. CacheInv => ScoreHasItsTime
  BY DEF CacheInv, StoreInv
<1> QED  BY <1>1, CacheInvariant, PTL

\* A receipt that was stored before its attestation was submitted is linked.
THEOREM LinkCorrect == Spec => []ReceiptIsLinked
<1>1. CacheInv => ReceiptIsLinked
  BY DEF CacheInv, StoreInv
<1> QED  BY <1>1, CacheInvariant, PTL

-----------------------------------------------------------------------------
(* An undisturbed cache is current                                          *)

\* Work with no event in it, M replaced by N: what is current stays so.
LEMMA QuietFrame ==
    ASSUME QuietInv, NEW M, NEW N,
           UNCHANGED chainVars, agent' = agent,
           ~gap' /\ ~backfilled' => ~gap /\ ~backfilled,
           jobs' = (jobs \ M) \cup N,
           phase' = "down" => jobs' = {},
           \A m \in M : m \in jobs /\ ~IsEvent(m),
           \A k \in N : ~IsEvent(k),
           (\E k \in N : k.kind \notin {"uploadReceipt", "cacheAttestation"}) =>
             \E m \in M : m.kind \notin {"uploadReceipt", "cacheAttestation"},
           \A k \in N : (\A e \in jobs : ~IsEvent(e)) /\ ~gap /\ ~backfilled
                        /\ k.kind \in {"fetchAll", "getAgentDetails"}
                        /\ k.pc \in LoadedPcs => Current(k.read)
    PROVE  QuietInv'
<1> SUFFICES ASSUME ~gap', ~backfilled'
             PROVE  /\ \A j \in jobs' : j.kind \in {"fetchAll", "getAgentDetails"}
                                        /\ j.pc \in LoadedPcs => Current(j.read)'
                    /\ \A j \in jobs' : IsEvent(j) => Touching' = {j} /\ Announces(j)'
                    /\ (\A j \in jobs' : ~IsEvent(j)) /\ agent' # NoAgent => Current(agent)'
  BY DEF QuietInv, IsEvent
<1>1. /\ \A j \in jobs : j.kind \in {"fetchAll", "getAgentDetails"}
                         /\ j.pc \in LoadedPcs => Current(j.read)
      /\ \A j \in jobs : IsEvent(j) => Touching = {j} /\ Announces(j)
      /\ (\A j \in jobs : ~IsEvent(j)) /\ agent # NoAgent => Current(agent)
  BY DEF QuietInv
<1>2. \A record : Current(record)' <=> Current(record)
  BY DEF Current, chainVars
<1>3. (\E e \in jobs : IsEvent(e)) =>
        \A k \in N : k.kind \in {"uploadReceipt", "cacheAttestation"}
  BY <1>1 DEF Touching
<1>4. ASSUME NEW j \in jobs', j.kind \in {"fetchAll", "getAgentDetails"}, j.pc \in LoadedPcs
      PROVE  Current(j.read)'
  <2>1. Current(j.read)
    BY <1>1, <1>3, <1>4
  <2> QED  BY <2>1 DEF Current, chainVars
<1>5. ASSUME NEW j \in jobs', IsEvent(j)
      PROVE  Touching' = {j} /\ Announces(j)'
  <2>1. j \in jobs
    BY <1>5
  <2>2. Touching = {j} /\ Announces(j)
    BY <1>1, <1>5, <2>1
  <2>3. \A m \in M : m.kind \in {"uploadReceipt", "cacheAttestation"}
    BY <1>5, <2>2 DEF Touching
  <2>4. Touching' = {j}
    BY <1>5, <2>2, <2>3 DEF Touching, IsEvent
  <2>5. Announces(j)'
    BY <2>2 DEF Announces, Assigned, Current, chainVars
  <2> QED  BY <2>4, <2>5
<1>6. ASSUME \A j \in jobs' : ~IsEvent(j), agent' # NoAgent
      PROVE  Current(agent)'
  <2>1. \A j \in jobs : ~IsEvent(j)
    BY <1>6
  <2>2. Current(agent)
    BY <1>1, <1>6, <2>1
  <2> QED  BY <2>2 DEF Current, chainVars
<1> QED  BY <1>4, <1>5, <1>6

\* An event the listener hears of while nothing goes on is handled alone.
LEMMA EventQuiet ==
    ASSUME CacheInv, QuietInv, NEW account, NEW e,
           Change(account, TRUE), Emit(e), IsEvent(e), e.pc \in {"getReceipt", "getAgent"},
           agent \in CachedAgent /\ agent # NoAgent /\ Current(agent) =>
             Current(Assigned([e EXCEPT !.read = agent]))'
    PROVE  QuietInv'
<1>1. /\ gap' = (gap \/ ~TRUE \/ phase # "up" \/ Touching # {})
      /\ UNCHANGED <<phase, agent, backfilled>>
      /\ phase # "up" => jobs' = jobs
  BY DEF Change, Emit, storeVars
<1>2. phase' = "down" => jobs' = {}
  BY <1>1 DEF QuietInv
<1> SUFFICES ASSUME ~gap', ~backfilled'
             PROVE  /\ \A j \in jobs' : j.kind \in {"fetchAll", "getAgentDetails"}
                                        /\ j.pc \in LoadedPcs => Current(j.read)'
                    /\ \A j \in jobs' : IsEvent(j) => Touching' = {j} /\ Announces(j)'
                    /\ (\A j \in jobs' : ~IsEvent(j)) /\ agent' # NoAgent => Current(agent)'
  BY <1>2 DEF QuietInv, IsEvent
<1>3. ~gap /\ ~backfilled /\ phase = "up" /\ Touching = {}
  BY <1>1
<1>4. jobs' = jobs \cup {e}
  BY <1>3 DEF Emit, Start
<1>5. \A j \in jobs : ~IsEvent(j) /\ j.kind \notin {"fetchAll", "getAgentDetails"}
  BY <1>3 DEF Touching, IsEvent
<1>6. agent # NoAgent => Current(agent)
  BY <1>3, <1>5 DEF QuietInv
<1>7. Touching' = {e}
  BY <1>3, <1>4 DEF Touching, IsEvent
<1>8. agent \in CachedAgent
  BY DEF CacheInv, StoreInv
<1>9. Announces(e)'
  <2>1. CASE agent # NoAgent
    <3>1. Current(Assigned([e EXCEPT !.read = agent]))'
      BY <1>6, <1>8, <2>1
    <3> QED  BY <1>1, <3>1 DEF Announces
  <2>2. CASE agent = NoAgent
    BY <1>1, <2>2 DEF Announces
  <2> QED  BY <2>1, <2>2
<1> QED  BY <1>4, <1>5, <1>7, <1>9 DEF IsEvent

LEMMA ChangeQuiet ==
    ASSUME CacheInv, QuietInv, SubmitAttestation \/ WriteArweaveCid \/ RecordSlash
    PROVE  QuietInv'
<1>1. CASE SubmitAttestation
  <2>0. PICK n, r : /\ n = Cardinality(Submitted) + 1
                    /\ r = registry.reputation_score + 1
    OBVIOUS
  <2>1. /\ n \in Attestations
        /\ \E s \in {registry.last_attested_at, registry.last_attested_at + 1} \ {0} :
             /\ submitted' = [submitted EXCEPT ![n] = s]
             /\ Change([registry EXCEPT !.reputation_score = r, !.last_attested_at = s], TRUE)
        /\ Emit([NewJob("attestationSubmitted", "getReceipt", n) EXCEPT !.reputation = r])
    BY <1>1, <2>0 DEF SubmitAttestation
  <2>2. PICK s : /\ submitted' = [submitted EXCEPT ![n] = s]
                 /\ Change([registry EXCEPT !.reputation_score = r, !.last_attested_at = s], TRUE)
    BY <2>1
  <2>3. PICK e : e = [NewJob("attestationSubmitted", "getReceipt", n) EXCEPT !.reputation = r]
    OBVIOUS
  <2>4. /\ e.kind = "attestationSubmitted" /\ e.pc = "getReceipt"
        /\ e.of = n /\ e.reputation = r
        /\ "read" \in DOMAIN e
        /\ DOMAIN e = {"kind", "pc", "of", "reputation", "linked", "read"}
    BY <2>3 DEF NewJob
  <2>5. /\ registry' = [registry EXCEPT !.reputation_score = r, !.last_attested_at = s]
        /\ agent' = agent
    BY <2>2 DEF Change, storeVars
  <2>6. registry \in RegistryAccount /\ submitted'[n] = s
    BY <2>1, <2>2 DEF CacheInv, ChainInv
  <2>7. /\ registry'.arweave_cid = registry.arweave_cid
        /\ registry'.reputation_score = r /\ registry'.last_attested_at = s
    BY <2>5, <2>6 DEF RegistryAccount
  <2>8. ASSUME agent \in CachedAgent, Current(agent)
        PROVE  Current(Assigned([e EXCEPT !.read = agent]))'
    <3>1. PICK k : k = [e EXCEPT !.read = agent]
      OBVIOUS
    <3>2. /\ k.kind = "attestationSubmitted" /\ k.of = n /\ k.reputation = r
          /\ k.read = agent
      BY <2>4, <3>1
    <3>3. PICK a : a = [agent EXCEPT !.reputationScore = r, !.lastAttestedAt = s]
      OBVIOUS
    <3>4. /\ a.arweaveCid = agent.arweaveCid
          /\ a.reputationScore = r /\ a.lastAttestedAt = s
      BY <2>8, <3>3 DEF CachedAgent
    <3>5. Assigned(k)' = a
      BY <2>6, <3>2, <3>3 DEF Assigned
    <3>6. Current(a)'
      BY <2>7, <2>8, <3>4 DEF Current
    <3> QED  BY <2>5, <3>1, <3>5, <3>6 DEF Current
  <2> QED  BY <2>1, <2>2, <2>3, <2>4, <2>8, EventQuiet DEF IsEvent
<1>2. CASE WriteArweaveCid
  <2>0. PICK c : c = registry.arweave_cid + 1
    OBVIOUS
  <2>1. /\ Change([registry EXCEPT !.arweave_cid = c], TRUE)
        /\ Emit(NewJob("arweaveCidUpdated", "getAgent", c))
    BY <1>2, <2>0 DEF WriteArweaveCid
  <2>3. PICK e : e = NewJob("arweaveCidUpdated", "getAgent", c)
    OBVIOUS
  <2>4. /\ e.kind = "arweaveCidUpdated" /\ e.pc = "getAgent" /\ e.of = c
        /\ DOMAIN e = {"kind", "pc", "of", "reputation", "linked", "read"}
    BY <2>3 DEF NewJob
  <2>5. /\ registry' = [registry EXCEPT !.arweave_cid = c]
        /\ agent' = agent
    BY <2>1 DEF Change, storeVars
  <2>6. registry \in RegistryAccount
    BY DEF CacheInv, ChainInv
  <2>7. /\ registry'.arweave_cid = c
        /\ registry'.reputation_score = registry.reputation_score
        /\ registry'.last_attested_at = registry.last_attested_at
    BY <2>5, <2>6 DEF RegistryAccount
  <2>8. ASSUME agent \in CachedAgent, Current(agent)
        PROVE  Current(Assigned([e EXCEPT !.read = agent]))'
    <3>1. PICK k : k = [e EXCEPT !.read = agent]
      OBVIOUS
    <3>2. k.kind = "arweaveCidUpdated" /\ k.of = c /\ k.read = agent
      BY <2>4, <3>1
    <3>3. PICK a : a = [agent EXCEPT !.arweaveCid = c, !.name = None]
      OBVIOUS
    <3>4. /\ a.arweaveCid = c /\ a.reputationScore = agent.reputationScore
          /\ a.lastAttestedAt = agent.lastAttestedAt
      BY <2>8, <3>3 DEF CachedAgent
    <3>5. Assigned(k)' = a
      BY <3>2, <3>3 DEF Assigned
    <3>6. Current(a)'
      BY <2>7, <2>8, <3>4 DEF Current
    <3> QED  BY <2>5, <3>1, <3>5, <3>6 DEF Current
  <2> QED  BY <2>1, <2>3, <2>4, <2>8, EventQuiet DEF IsEvent
<1>3. CASE RecordSlash
  BY <1>3 DEF RecordSlash, Change, QuietInv
<1> QED  BY <1>1, <1>2, <1>3

\* The handler of an event reads, and then puts, the current agent.
LEMMA EventStepQuiet ==
    ASSUME CacheInv, QuietInv, NEW j \in jobs, IsEvent(j),
           GetAgentOfUpdate(j) \/ GetReceipt(j)
    PROVE  QuietInv'
<1>1. /\ UNCHANGED <<chainVars, phase, storeVars, historyVars>>
      /\ phase # "down"
  BY DEF GetAgentOfUpdate, GetReceipt, QuietInv
<1>2. UNCHANGED <<registry, submitted, agent, gap, backfilled>>
  BY <1>1 DEF chainVars, storeVars, historyVars
<1> SUFFICES ASSUME ~gap', ~backfilled'
             PROVE  /\ \A k \in jobs' : k.kind \in {"fetchAll", "getAgentDetails"}
                                        /\ k.pc \in LoadedPcs => Current(k.read)'
                    /\ \A k \in jobs' : IsEvent(k) => Touching' = {k} /\ Announces(k)'
                    /\ (\A k \in jobs' : ~IsEvent(k)) /\ agent' # NoAgent => Current(agent)'
  BY <1>1 DEF QuietInv, IsEvent
<1>3. Touching = {j} /\ Announces(j)
  BY <1>2 DEF QuietInv
<1>4. \A k \in jobs \ {j} : k.kind \in {"uploadReceipt", "cacheAttestation"}
  BY <1>3 DEF Touching
<1>5. j \in Job
  BY DEF CacheInv, JobInv
<1>6. CASE GetAgentOfUpdate(j) /\ agent = NoAgent
  BY <1>2, <1>4, <1>6 DEF GetAgentOfUpdate, Finish, GotoWith, IsEvent
<1>7. ASSUME NEW e, NEW others, e.kind = j.kind, jobs' = (jobs \ {j}) \cup {e} \cup others,
             \A k \in others : k.kind = "cacheAttestation", Announces(e)'
      PROVE  /\ \A k \in jobs' : k.kind \in {"fetchAll", "getAgentDetails"}
                                 /\ k.pc \in LoadedPcs => Current(k.read)'
             /\ \A k \in jobs' : IsEvent(k) => Touching' = {k} /\ Announces(k)'
             /\ (\A k \in jobs' : ~IsEvent(k)) /\ agent' # NoAgent => Current(agent)'
  <2>1. \A k \in jobs' \ {e} : k.kind \in {"uploadReceipt", "cacheAttestation"}
    BY <1>4, <1>7
  <2>2. e \in jobs' /\ IsEvent(e)
    BY <1>7 DEF IsEvent
  <2>3. Touching' = {e}
    BY <2>1, <2>2 DEF Touching, IsEvent
  <2> QED  BY <1>7, <2>1, <2>2, <2>3 DEF IsEvent
<1>8. CASE GetAgentOfUpdate(j) /\ agent # NoAgent
  <2>1. PICK e : e = [j EXCEPT !.pc = "putAgent", !.read = agent]
    OBVIOUS
  <2>0. PICK none : none = {}
    OBVIOUS
  <2>2. jobs' = (jobs \ {j}) \cup {e} \cup none /\ j.pc = "getAgent"
    BY <1>8, <2>0, <2>1 DEF GetAgentOfUpdate, GotoWith, At
  <2>3. /\ e.kind = j.kind /\ e.pc = "putAgent" /\ e.read = agent
        /\ e.of = j.of /\ e.reputation = j.reputation
    BY <1>5, <2>1 DEF Job
  <2>4. PICK k : k = [j EXCEPT !.read = agent]
    OBVIOUS
  <2>5. /\ k.kind = j.kind /\ k.read = agent /\ k.of = j.of
        /\ k.reputation = j.reputation
    BY <1>5, <2>4 DEF Job
  <2>6. Current(Assigned(k))
    BY <1>3, <1>8, <2>2, <2>4 DEF Announces
  <2>7. Assigned(e) = Assigned(k)
    BY <2>3, <2>5 DEF Assigned
  <2>8. Current(Assigned(e))'
    BY <1>2, <2>6, <2>7 DEF Current, Assigned
  <2>9. Announces(e)'
    BY <2>3, <2>8 DEF Announces
  <2>10. \A m \in none : m.kind = "cacheAttestation"
    BY <2>0
  <2> QED  BY <1>7, <2>2, <2>3, <2>9, <2>10
<1>9. CASE GetReceipt(j)
  <2>1. PICK e, c : /\ e = [j EXCEPT !.pc = "getAgent"]
                    /\ c = [j EXCEPT !.kind = "cacheAttestation", !.pc = "putAttestation",
                                     !.linked = j.of \in receipts]
    OBVIOUS
  <2>2. jobs' = (jobs \ {j}) \cup {e} \cup {c} /\ j.pc = "getReceipt"
    BY <1>9, <2>1 DEF GetReceipt, At
  <2>3. /\ e.kind = j.kind /\ e.pc = "getAgent" /\ c.kind = "cacheAttestation"
    BY <1>5, <2>1 DEF Job
  <2>4. Announces(e)'
    <3>1. CASE agent = NoAgent
      BY <1>2, <2>3, <3>1 DEF Announces
    <3>2. CASE agent # NoAgent
      <4>1. PICK k, l : /\ k = [j EXCEPT !.read = agent]
                        /\ l = [e EXCEPT !.read = agent]
        OBVIOUS
      <4>2. /\ k.kind = l.kind /\ k.read = l.read /\ k.of = l.of
            /\ k.reputation = l.reputation
        BY <1>5, <2>1, <4>1 DEF Job
      <4>3. Current(Assigned(k))
        BY <1>3, <2>2, <3>2, <4>1 DEF Announces
      <4>4. Assigned(k) = Assigned(l)
        BY <4>2 DEF Assigned
      <4>5. Current(Assigned(l))'
        BY <1>2, <4>3, <4>4 DEF Current, Assigned
      <4> QED  BY <1>2, <2>3, <4>1, <4>5 DEF Announces
    <3> QED  BY <3>1, <3>2
  <2> QED  BY <1>7, <2>2, <2>3, <2>4
<1> QED  BY <1>6, <1>8, <1>9

\* Work that is not an event, on the cached agent or on receipts.
LEMMA WorkQuiet ==
    ASSUME CacheInv, QuietInv, NEW j \in jobs,
           \/ GetAgentOfUpdate(j) /\ ~IsEvent(j)
           \/ GetAgentOfDetails(j) \/ Populate(j) \/ FetchAccounts(j) \/ FetchManifest(j)
           \/ Pin(j) \/ PutReceipt(j) \/ PutAttestation(j) \/ ScanAttestations(j)
           \/ Fail(j) /\ ~IsEvent(j)
    PROVE  QuietInv'
<1>1. JobInv(j) /\ j \in Job /\ j.read \in CachedAgent
  BY DEF CacheInv, JobInv, Job
<1>2. /\ UNCHANGED chainVars /\ agent' = agent
      /\ ~gap' /\ ~backfilled' => ~gap /\ ~backfilled
      /\ phase' = phase /\ phase # "down"
  <2>1. phase # "down"
    BY DEF QuietInv
  <2>2. CASE UNCHANGED <<chainVars, phase, agent, gap, backfilled>>
    BY <2>1, <2>2
  <2>3. CASE Fail(j)
    BY <2>1, <2>3 DEF Fail, storeVars
  <2>4. CASE PutReceipt(j) \/ PutAttestation(j)
    BY <2>2, <2>4 DEF PutReceipt, PutAttestation, historyVars
  <2> QED
    BY <2>2, <2>3, <2>4
       DEF GetAgentOfUpdate, GetAgentOfDetails, Populate, FetchAccounts, FetchManifest,
           Pin, ScanAttestations, storeVars, historyVars
<1>3. ~IsEvent(j)
  BY <1>1 DEF GetAgentOfDetails, Populate, FetchAccounts, FetchManifest, Pin, PutReceipt,
              PutAttestation, ScanAttestations, At, JobInv, Waits, IsEvent
<1> USE <1>1, <1>2, <1>3
<1>4. CASE jobs' = jobs \ {j}
  <2>1. PICK M, N : M = {j} /\ N = {}
    OBVIOUS
  <2>2. /\ jobs' = (jobs \ M) \cup N
        /\ phase' = "down" => jobs' = {}
        /\ \A m \in M : m \in jobs /\ ~IsEvent(m)
        /\ \A m \in N : FALSE
    BY <1>4, <2>1
  <2> QED  BY <2>2, QuietFrame
<1>5. ASSUME NEW k, jobs' = (jobs \ {j}) \cup {k}, k.kind = j.kind,
             (\A e \in jobs : ~IsEvent(e)) /\ ~gap /\ ~backfilled
             /\ k.kind \in {"fetchAll", "getAgentDetails"} /\ k.pc \in LoadedPcs
               => Current(k.read)
      PROVE  QuietInv'
  <2>1. ~IsEvent(k)
    BY <1>5 DEF IsEvent
  <2>2. PICK M, N : M = {j} /\ N = {k}
    OBVIOUS
  <2>3. /\ jobs' = (jobs \ M) \cup N
        /\ phase' = "down" => jobs' = {}
        /\ \A m \in M : m \in jobs /\ ~IsEvent(m)
        /\ \A m \in N : ~IsEvent(m)
        /\ (\E m \in N : m.kind \notin {"uploadReceipt", "cacheAttestation"}) =>
             \E m \in M : m.kind \notin {"uploadReceipt", "cacheAttestation"}
        /\ \A m \in N : (\A e \in jobs : ~IsEvent(e)) /\ ~gap /\ ~backfilled
                        /\ m.kind \in {"fetchAll", "getAgentDetails"}
                        /\ m.pc \in LoadedPcs => Current(m.read)
    BY <1>5, <2>1, <2>2
  <2> QED  BY <2>3, QuietFrame
<1>6. CASE GetAgentOfUpdate(j)
  <2>1. CASE jobs' = (jobs \ {j}) \cup {[j EXCEPT !.pc = "putAgent", !.read = agent]}
    <3>1. PICK k : k = [j EXCEPT !.pc = "putAgent", !.read = agent]
      OBVIOUS
    <3>2. k.kind = j.kind
      BY <3>1 DEF Job
    <3>3. j.kind \notin {"fetchAll", "getAgentDetails"}
      BY <1>6 DEF GetAgentOfUpdate
    <3> QED  BY <1>5, <2>1, <3>1, <3>2, <3>3
  <2> QED  BY <1>4, <1>6, <2>1 DEF GetAgentOfUpdate, Finish, GotoWith
<1>7. CASE GetAgentOfDetails(j)
  <2>1. CASE jobs' = (jobs \ {j}) \cup {[j EXCEPT !.pc = "fetch"]}
    <3>1. PICK k : k = [j EXCEPT !.pc = "fetch"]
      OBVIOUS
    <3>2. k.kind = j.kind /\ k.pc = "fetch"
      BY <3>1 DEF Job
    <3> QED  BY <1>5, <2>1, <3>1, <3>2 DEF LoadedPcs
  <2>2. CASE agent # NoAgent
             /\ jobs' = (jobs \ {j}) \cup {[j EXCEPT !.pc = "gateway", !.read = agent]}
    <3>1. PICK k : k = [j EXCEPT !.pc = "gateway", !.read = agent]
      OBVIOUS
    <3>2. k.kind = j.kind /\ k.read = agent
      BY <3>1 DEF Job
    <3>3. (\A e \in jobs : ~IsEvent(e)) /\ ~gap /\ ~backfilled => Current(agent)
      BY <2>2 DEF QuietInv
    <3> QED  BY <1>5, <2>2, <3>1, <3>2, <3>3
  <2> QED  BY <1>4, <1>7, <2>1, <2>2 DEF GetAgentOfDetails, Finish, Goto, GotoWith
<1>8. j.kind \in {"fetchAll", "getAgentDetails"} /\ j.pc \in LoadedPcs /\ ~gap /\ ~backfilled
        => Current(j.read)
  BY DEF QuietInv
<1>9. CASE Populate(j)
  <2>1. PICK read : read = [j.read EXCEPT !.name = j.read.arweaveCid]
    OBVIOUS
  <2>2. PICK k, pc : /\ pc = IF j.pc = "gateway" THEN "putAgent" ELSE "putFetched"
                     /\ k = [j EXCEPT !.pc = pc, !.read = read]
    OBVIOUS
  <2>3. k.kind = j.kind /\ k.read = read
    BY <2>2 DEF Job
  <2>4. Current(j.read) => Current(read)
    BY <2>1 DEF Current, CachedAgent
  <2>5. j.pc \in LoadedPcs /\ jobs' = (jobs \ {j}) \cup {k}
    BY <1>9, <2>1, <2>2 DEF Populate, At, GotoWith, LoadedPcs
  <2> QED  BY <1>5, <1>8, <2>3, <2>4, <2>5
<1>10. CASE FetchAccounts(j)
  <2>1. PICK read : read = [arweaveCid      |-> registry.arweave_cid,
                            reputationScore |-> registry.reputation_score,
                            lastAttestedAt  |-> registry.last_attested_at,
                            name |-> None, manifest |-> None]
    OBVIOUS
  <2>2. PICK k : k = [j EXCEPT !.pc = "manifest", !.read = read]
    OBVIOUS
  <2>3. k.kind = j.kind /\ k.read = read
    BY <2>2 DEF Job
  <2>4. Current(read)
    BY <2>1 DEF Current
  <2>5. jobs' = jobs \ {j} \/ jobs' = (jobs \ {j}) \cup {k}
    BY <1>10, <2>1, <2>2 DEF FetchAccounts, GotoWith, Finish
  <2> QED  BY <1>4, <1>5, <2>3, <2>4, <2>5
<1>11. CASE FetchManifest(j)
  <2>1. PICK read : read = [j.read EXCEPT !.name = j.read.arweaveCid,
                                          !.manifest = j.read.arweaveCid]
    OBVIOUS
  <2>2. PICK k, pc : /\ pc = IF j.kind = "fetchAll" THEN "batch"
                             ELSE IF Complete(read) THEN "putAgent"
                             ELSE "refetch"
                     /\ k = [j EXCEPT !.pc = pc, !.read = read]
    OBVIOUS
  <2>3. k.kind = j.kind /\ k.read = read
    BY <2>2 DEF Job
  <2>4. Current(j.read) => Current(read)
    BY <2>1 DEF Current, CachedAgent
  <2>5. j.pc \in LoadedPcs /\ jobs' = (jobs \ {j}) \cup {k}
    BY <1>11, <2>1, <2>2 DEF FetchManifest, At, GotoWith, LoadedPcs
  <2> QED  BY <1>5, <1>8, <2>3, <2>4, <2>5
<1>12. CASE Pin(j)
  <2>1. PICK k : k = [j EXCEPT !.pc = "putReceipt"]
    OBVIOUS
  <2>2. k.kind = j.kind /\ k.pc = "putReceipt"
    BY <2>1 DEF Job
  <2> QED  BY <1>5, <1>12, <2>1, <2>2 DEF Pin, Goto, LoadedPcs
<1>13. CASE ScanAttestations(j)
  <2>1. CASE \E n \in Submitted \cap receipts :
               jobs' = (jobs \ {j}) \cup {[j EXCEPT !.pc = "getAgent", !.of = n]}
    <3>1. PICK n : jobs' = (jobs \ {j}) \cup {[j EXCEPT !.pc = "getAgent", !.of = n]}
      BY <2>1
    <3>2. PICK k : k = [j EXCEPT !.pc = "getAgent", !.of = n]
      OBVIOUS
    <3>3. k.kind = j.kind /\ k.pc = "getAgent"
      BY <3>2 DEF Job
    <3> QED  BY <1>5, <3>1, <3>2, <3>3 DEF LoadedPcs
  <2> QED  BY <1>4, <1>13, <2>1 DEF ScanAttestations, Finish
<1> QED  BY <1>4, <1>6, <1>7, <1>9, <1>10, <1>11, <1>12, <1>13
         DEF PutReceipt, PutAttestation, Fail, Finish

\* A put leaves the cached agent current, or one the history excuses.
LEMMA WriteQuiet ==
    ASSUME CacheInv, QuietInv, NEW j \in jobs, WriteAgent(j)
    PROVE  QuietInv'
<1>1. /\ registry' = registry /\ submitted' = submitted /\ phase' = phase
      /\ agent' = Assigned(j) /\ jobs' = jobs \ {j}
      /\ gap' = (gap /\ ~Refreshes(j))
      /\ backfilled' = (j.kind = "backfill" \/ (backfilled /\ ~Refreshes(j)))
  BY DEF WriteAgent, PutAgent, Finish, chainVars
<1>2. JobInv(j) /\ j.pc \in {"batch", "putAgent"}
  BY DEF CacheInv, WriteAgent, At
<1>3. phase' # "down"
  BY <1>1 DEF QuietInv
<1> SUFFICES ASSUME ~gap', ~backfilled'
             PROVE  /\ \A k \in jobs' : k.kind \in {"fetchAll", "getAgentDetails"}
                                        /\ k.pc \in LoadedPcs => Current(k.read)'
                    /\ \A k \in jobs' : IsEvent(k) => Touching' = {k} /\ Announces(k)'
                    /\ (\A k \in jobs' : ~IsEvent(k)) /\ agent' # NoAgent => Current(agent)'
  BY <1>3 DEF QuietInv, IsEvent
<1>4. j.kind # "backfill"
  BY <1>1
<1>5. Current(Assigned(j)) => Current(agent)'
  <2>1. PICK a : a = Assigned(j)
    OBVIOUS
  <2> QED  BY <1>1, <2>1 DEF Current
<1>6. CASE Touching = {j} /\ Current(Assigned(j))
  BY <1>1, <1>5, <1>6 DEF Touching, IsEvent
<1>7. CASE Refreshes(j)
  <2>1. Touching = {j} /\ Assigned(j) = j.read /\ Current(j.read)
    BY <1>7 DEF Refreshes, Assigned, Current
  <2> QED  BY <1>6, <2>1
<1>8. CASE ~Refreshes(j)
  <2>1. /\ ~gap /\ ~backfilled
    BY <1>1, <1>8
  <2>2. CASE IsEvent(j)
    <3>1. Touching = {j} /\ Announces(j) /\ j.pc = "putAgent"
      BY <1>2, <2>1, <2>2 DEF QuietInv, JobInv, Waits, IsEvent
    <3> QED  BY <1>6, <3>1 DEF Announces
  <2>3. CASE ~IsEvent(j)
    <3>1. j.kind \in {"fetchAll", "getAgentDetails"}
      BY <1>2, <1>4, <2>3 DEF JobInv, Waits, IsEvent
    <3>2. Current(j.read) /\ Assigned(j) = j.read
      BY <1>2, <2>1, <3>1 DEF QuietInv, LoadedPcs, Assigned
    <3>3. \A k \in jobs : ~IsEvent(k)
      BY <2>1, <2>3, <3>1 DEF QuietInv, Touching
    <3>4. \A k \in jobs : k.kind \in {"fetchAll", "getAgentDetails"}
                          /\ k.pc \in LoadedPcs => Current(k.read)
      BY <2>1 DEF QuietInv
    <3> QED  BY <1>1, <1>5, <3>2, <3>3, <3>4 DEF Current
  <2> QED  BY <2>2, <2>3
<1> QED  BY <1>7, <1>8

\* A record that was fetched is put while it is current, or the history knows.
LEMMA WriteFetchedQuiet ==
    ASSUME CacheInv, QuietInv, NEW j \in jobs, WriteFetched(j)
    PROVE  QuietInv'
<1>1. PICK k : k = [j EXCEPT !.pc = "putAgent"]
  OBVIOUS
<1>2. /\ UNCHANGED <<registry, submitted, phase, gap, backfilled>>
      /\ agent' = j.read /\ jobs' = (jobs \ {j}) \cup {k}
  BY <1>1 DEF WriteFetched, PutAgent, Goto, chainVars, historyVars
<1>3. j \in Job /\ j.kind = "getAgentDetails" /\ j.pc \in LoadedPcs
  BY DEF CacheInv, JobInv, Waits, WriteFetched, At, LoadedPcs
<1>4. k.kind = j.kind /\ k.read = j.read
  BY <1>1, <1>3 DEF Job
<1>5. phase' # "down"
  BY <1>2 DEF QuietInv
<1>6. ASSUME ~gap, ~backfilled
      PROVE  /\ \A m \in jobs' : m.kind \in {"fetchAll", "getAgentDetails"}
                                 /\ m.pc \in LoadedPcs => Current(m.read)
             /\ \A m \in jobs' : ~IsEvent(m)
             /\ Current(j.read)
  <2>1. Current(j.read)
    BY <1>3, <1>6 DEF QuietInv
  <2>2. \A m \in jobs : ~IsEvent(m)
    BY <1>3, <1>6 DEF QuietInv, Touching, IsEvent
  <2>3. \A m \in jobs : m.kind \in {"fetchAll", "getAgentDetails"}
                        /\ m.pc \in LoadedPcs => Current(m.read)
    BY <1>6 DEF QuietInv
  <2> QED  BY <1>2, <1>3, <1>4, <2>1, <2>2, <2>3 DEF IsEvent
<1> QED  BY <1>2, <1>5, <1>6 DEF QuietInv, IsEvent, Current

\* A failed event, a stop: the history remembers.
LEMMA ProcessQuiet ==
    ASSUME CacheInv, QuietInv,
           \/ \E j \in jobs : IsEvent(j) /\ Fail(j)
           \/ RequestDetails \/ \E n \in Attestations : RequestUpload(n)
           \/ Boot \/ Listen \/ Stop
    PROVE  QuietInv'
<1>1. CASE \E j \in jobs : IsEvent(j) /\ Fail(j)
  BY <1>1 DEF Fail, IsEvent, QuietInv
<1>2. CASE RequestDetails
  <2>1. PICK id : jobs' = jobs \cup {NewJob("getAgentDetails", "getAgent", id)}
    BY <1>2 DEF RequestDetails, Start
  <2>2. PICK e : e = NewJob("getAgentDetails", "getAgent", id)
    OBVIOUS
  <2>3. e.kind = "getAgentDetails" /\ e.pc = "getAgent"
    BY <2>2 DEF NewJob
  <2>4. /\ UNCHANGED <<registry, agent, phase, backfilled>> /\ phase = "up"
        /\ gap' = (gap \/ Touching # {})
    BY <1>2 DEF RequestDetails, chainVars, storeVars
  <2>5. \A record : Current(record)' <=> Current(record)
    BY <2>4 DEF Current
  <2>6. Touching = {} => \A k \in jobs : ~IsEvent(k)
    BY DEF Touching, IsEvent
  <2> QED  BY <2>1, <2>2, <2>3, <2>4, <2>6 DEF QuietInv, IsEvent, LoadedPcs, Current
<1>3. CASE \E n \in Attestations : RequestUpload(n)
  <2>1. PICK n : jobs' = jobs \cup {NewJob("uploadReceipt", "pin", n)}
    BY <1>3 DEF RequestUpload, Start
  <2>2. PICK e, M, N : e = NewJob("uploadReceipt", "pin", n) /\ M = {} /\ N = {e}
    OBVIOUS
  <2>3. e.kind = "uploadReceipt" /\ ~IsEvent(e)
    BY <2>2 DEF NewJob, IsEvent
  <2>4. /\ UNCHANGED chainVars /\ agent' = agent
        /\ ~gap' /\ ~backfilled' => ~gap /\ ~backfilled
        /\ phase' = "up"
    BY <1>3 DEF RequestUpload, storeVars, historyVars
  <2>5. jobs' = (jobs \ M) \cup N
    BY <2>1, <2>2
  <2> QED  BY <2>2, <2>3, <2>4, <2>5, QuietFrame
<1>4. CASE Boot
  <2>1. PICK e, f : e = NewJob("fetchAll", "fetch", 0) /\ f = NewJob("backfill", "scan", 0)
    OBVIOUS
  <2>2. /\ e.kind = "fetchAll" /\ e.pc = "fetch" /\ f.kind = "backfill" /\ f.pc = "scan"
    BY <2>1 DEF NewJob
  <2>3. /\ UNCHANGED <<registry, agent, gap, backfilled>> /\ phase' = "starting"
        /\ jobs = {} /\ jobs' = {e, f}
    BY <1>4, <2>1 DEF Boot, chainVars, storeVars, historyVars, QuietInv
  <2> QED  BY <2>2, <2>3 DEF QuietInv, IsEvent, LoadedPcs, Current
<1>5. CASE Listen
  <2>1. UNCHANGED <<registry, submitted, agent, gap, backfilled, jobs>> /\ phase' = "up"
    BY <1>5 DEF Listen, chainVars, storeVars, historyVars
  <2> QED  BY <2>1 DEF QuietInv, Current, Announces, Assigned, Touching
<1>6. CASE Stop
  <2>1. /\ UNCHANGED <<registry, agent, backfilled>> /\ jobs' = {}
        /\ gap' = (gap \/ \E j \in jobs : IsEvent(j))
    BY <1>6 DEF Stop, chainVars, storeVars, IsEvent
  <2> QED  BY <2>1 DEF QuietInv, Current
<1> QED  BY <1>1, <1>2, <1>3, <1>4, <1>5, <1>6

\* With no work in progress the cached agent is the agent on chain, unless an
\* event was missed, ignored or overlapped, or the backfill has written.
THEOREM CurrentCorrect == Spec => []CurrentWhenQuiet
<1>1. Init => QuietInv
  BY DEF Init, QuietInv
<1>2. ASSUME CacheInv, QuietInv, [Next]_vars PROVE QuietInv'
  <2>1. CASE SubmitAttestation \/ WriteArweaveCid \/ RecordSlash
    BY <1>2, <2>1, ChangeQuiet
  <2>2. CASE \/ RequestDetails \/ \E n \in Attestations : RequestUpload(n)
             \/ Boot \/ Listen \/ Stop
    BY <1>2, <2>2, ProcessQuiet
  <2>3. ASSUME NEW j \in jobs, JobStep(j) PROVE QuietInv'
    <3>1. CASE GetAgentOfUpdate(j)
      BY <1>2, <3>1, EventStepQuiet, WorkQuiet
    <3>2. CASE GetReceipt(j)
      BY <1>2, <3>2, EventStepQuiet DEF GetReceipt, IsEvent
    <3>3. CASE WriteAgent(j)
      BY <1>2, <3>3, WriteQuiet
    <3>4. CASE Fail(j)
      BY <1>2, <3>4, ProcessQuiet, WorkQuiet
    <3>5. CASE \/ GetAgentOfDetails(j) \/ Populate(j) \/ FetchAccounts(j) \/ FetchManifest(j)
               \/ Pin(j) \/ PutReceipt(j) \/ PutAttestation(j) \/ ScanAttestations(j)
      BY <1>2, <3>5, WorkQuiet
    <3>6. CASE WriteFetched(j)
      BY <1>2, <3>6, WriteFetchedQuiet
    <3> QED  BY <2>3, <3>1, <3>2, <3>3, <3>4, <3>5, <3>6 DEF JobStep
  <2>4. CASE UNCHANGED vars
    BY <1>2, <2>4 DEF vars, chainVars, storeVars, historyVars, QuietInv, Touching, Announces,
                      Assigned, Current
  <2> QED  BY <1>2, <2>1, <2>2, <2>3, <2>4 DEF Next
<1>3. QuietInv => CurrentWhenQuiet
  BY DEF QuietInv, CurrentWhenQuiet, Current
<1> QED  BY <1>1, <1>2, <1>3, CacheInvariant, PTL DEF Spec

=============================================================================
