----------------------------- MODULE AgentCache -----------------------------
(***************************************************************************)
(* The record of one agent in the cache of the API and the attestations    *)
(* stored beside it: AgentsService, AttestationService, ReceiptsService    *)
(* and the registry listener of SyncService.                               *)
(*                                                                         *)
(* Every write of the cached agent is a whole record, put some awaits      *)
(* after the one it was made from was read.  A job is such a piece of work *)
(* between two awaits; its pc is the operation it waits for, whose effect  *)
(* and answer are one step.  A CID and the manifest behind it are a        *)
(* number, a reputation is told by the number of changes that led to it.   *)
(* Manifests have a name; a description may be missing.                    *)
(***************************************************************************)
EXTENDS Integers, FiniteSets

CONSTANT Undescribed      \* CIDs whose manifest has no description

CONSTANTS                \* bounds of the model
    MaxCids,             \* CIDs written for the agent
    MaxAttestations,     \* attestations submitted for it
    MaxChanges,          \* changes of its RegistryAccount
    MaxJobs              \* pieces of work in progress at once

ASSUME BoundsAssumption ==
    /\ MaxCids \in Nat \ {0} /\ MaxAttestations \in Nat
    /\ MaxChanges \in Nat /\ MaxJobs \in Nat

VARIABLES
    registry,            \* the RegistryAccount on chain
    submitted,           \* attestation -> the second it was submitted in
    past,                \* history: contents the RegistryAccount has had
    phase,               \* what the process does
    agent,               \* agent: key of the store
    attestations,        \* attestation: keys of the store
    receipts,            \* receipt-cid: keys of the store
    jobs,                \* work in progress
    gap,                 \* history: the cached agent missed an event, or work
                         \* on it overlapped one
    backfilled,          \* history: the backfill has written the cached agent
    linkable             \* history: attestations submitted after their receipt

chainVars == <<registry, submitted, past>>
storeVars == <<agent, attestations, receipts>>
historyVars == <<gap, backfilled, linkable>>

vars == <<chainVars, phase, storeVars, jobs, historyVars>>

-----------------------------------------------------------------------------
(* Types                                                                    *)

Attestations == 1..MaxAttestations

Seconds == 0..MaxAttestations

None == 0

\* reputation counts the changes of reputation_score.
RegistryAccount ==
    [arweave_cid      : 0..MaxCids,
     reputation_score : 0..MaxChanges,
     last_attested_at : Seconds]

\* name: the CID whose manifest name and description are of; manifest: the CID
\* the manifest and the capabilities are of.
CachedAgent ==
    [arweaveCid      : 0..MaxCids,
     reputationScore : 0..MaxChanges,
     lastAttestedAt  : Seconds,
     name            : 0..MaxCids,
     manifest        : 0..MaxCids]

NoAgent == [arweaveCid |-> None, reputationScore |-> 0, lastAttestedAt |-> 0,
            name |-> None, manifest |-> None]

\* A stored attestation, and whether it has a receiptCid.
StoredAttestation == [of : Attestations \cup {None}, linked : BOOLEAN]

NoAttestation == [of |-> None, linked |-> FALSE]

\* of: the attestation or CID of the event, or the number of a request;
\* reputation: the one the event carries;
\* read: the record a get or a fetch has returned.
Job ==
    [kind       : {"fetchAll", "backfill", "getAgentDetails", "attestationSubmitted",
                   "cacheAttestation", "arweaveCidUpdated", "uploadReceipt"},
     pc         : {"fetch", "manifest", "batch", "scan", "getAgent", "gateway",
                   "refetch", "putFetched", "putAgent", "getReceipt", "putAttestation", "pin", "putReceipt"},
     of         : Nat,
     reputation : Nat,
     linked     : BOOLEAN,
     read       : CachedAgent]

NewJob(kind, pc, of) ==
    [kind |-> kind, pc |-> pc, of |-> of, reputation |-> 0, linked |-> FALSE,
     read |-> NoAgent]

TypeOK ==
    /\ registry \in RegistryAccount
    /\ submitted \in [Attestations -> Seconds]
    /\ past \in SUBSET RegistryAccount /\ registry \in past
    /\ phase \in {"down", "starting", "up"}
    /\ agent \in CachedAgent
    /\ attestations \in [Seconds -> StoredAttestation]
    /\ receipts \in SUBSET Attestations
    /\ jobs \in SUBSET Job /\ Cardinality(jobs) <= 2 * MaxJobs
    /\ gap \in BOOLEAN /\ backfilled \in BOOLEAN
    /\ linkable \in SUBSET Attestations

Init ==
    /\ registry = [arweave_cid |-> None, reputation_score |-> 0, last_attested_at |-> 0]
    /\ submitted = [n \in Attestations |-> 0]
    /\ past = {registry}
    /\ phase = "down"
    /\ agent = NoAgent
    /\ attestations = [s \in Seconds |-> NoAttestation]
    /\ receipts = {}
    /\ jobs = {}
    /\ gap = FALSE
    /\ backfilled = FALSE
    /\ linkable = {}

-----------------------------------------------------------------------------
(* Jobs                                                                     *)

CanStart == Cardinality(jobs) < MaxJobs

Start(j) == CanStart /\ j \notin jobs /\ jobs' = jobs \cup {j}

Goto(j, pc) == jobs' = (jobs \ {j}) \cup {[j EXCEPT !.pc = pc]}

GotoWith(j, pc, read) == jobs' = (jobs \ {j}) \cup {[j EXCEPT !.pc = pc, !.read = read]}

Finish(j) == jobs' = jobs \ {j}

At(j, pc) == j \in jobs /\ j.pc = pc

\* Work on the cached agent.
Touching == {j \in jobs : j.kind \notin {"uploadReceipt", "cacheAttestation"}}

-----------------------------------------------------------------------------
(* The chain, and the listener                                              *)

\* The listener hears of the transaction only when it is attached.
Emit(j) == IF phase = "up" THEN Start(j) ELSE UNCHANGED jobs

\* heard: does a handler of the listener write what has changed?
Change(account, heard) ==
    /\ registry.reputation_score + registry.arweave_cid < MaxChanges
    /\ registry' = account
    /\ past' = past \cup {account}
    /\ gap' = (gap \/ ~heard \/ phase # "up" \/ Touching # {})
    /\ UNCHANGED <<phase, storeVars, backfilled>>

Submitted == {n \in Attestations : submitted[n] # 0}

\* submit_attestation, in the second of the one before it or in a later one.
SubmitAttestation ==
    LET n == Cardinality(Submitted) + 1
        r == registry.reputation_score + 1
    IN  /\ n \in Attestations
        /\ \E s \in {registry.last_attested_at, registry.last_attested_at + 1} \ {0} :
             /\ submitted' = [submitted EXCEPT ![n] = s]
             /\ Change([registry EXCEPT !.reputation_score = r,
                                        !.last_attested_at = s], TRUE)
        /\ Emit([NewJob("attestationSubmitted", "getReceipt", n) EXCEPT !.reputation = r])
        /\ linkable' = linkable \cup ({n} \cap receipts)

WriteArweaveCid ==
    /\ registry.arweave_cid < MaxCids
    /\ Change([registry EXCEPT !.arweave_cid = @ + 1], TRUE)
    /\ Emit(NewJob("arweaveCidUpdated", "getAgent", registry.arweave_cid + 1))
    /\ UNCHANGED <<submitted, linkable>>

\* handleRegistryAgentSlashed logs the event and does nothing else.
RecordSlash ==
    /\ Change([registry EXCEPT !.reputation_score = @ + 1], FALSE)
    /\ UNCHANGED <<submitted, jobs, linkable>>

-----------------------------------------------------------------------------
(* The cached agent                                                         *)

PutAgent(record) == agent' = record

AssignedScoreOnly(j) ==                  \* mutation: the other fields are left
    [j.read EXCEPT !.reputationScore = j.reputation,
                   !.arweaveCid = IF j.kind = "arweaveCidUpdated" THEN j.of ELSE @]

AssignedNothing(j) == j.read             \* mutation: the record is put as read

\* Object.assign of updateAgentCacheFields, and what getAgentDetails has made
\* of the record before it puts it.
Assigned(j) ==
    CASE j.kind = "attestationSubmitted" ->
           [j.read EXCEPT !.reputationScore = j.reputation,
                          !.lastAttestedAt = submitted[j.of]]
      [] j.kind = "arweaveCidUpdated" ->
           [j.read EXCEPT !.arweaveCid = j.of, !.name = None]
      [] j.kind = "backfill" ->
           [j.read EXCEPT !.lastAttestedAt = submitted[j.of]]
      [] OTHER -> j.read

GetAgentOfUpdate(j) ==
    /\ j.kind \in {"attestationSubmitted", "arweaveCidUpdated", "backfill"}
    /\ At(j, "getAgent")
    /\ \/ agent = NoAgent /\ Finish(j)
       \/ agent # NoAgent /\ GotoWith(j, "putAgent", agent)
    /\ UNCHANGED <<chainVars, phase, storeVars, historyVars>>

\* A record made from the chain as it is, with no other work going on, makes up
\* for what was missed.
Refreshes(j) ==
    /\ Touching = {j} /\ j.kind \in {"fetchAll", "getAgentDetails"}
    /\ [arweave_cid      |-> j.read.arweaveCid,
        reputation_score |-> j.read.reputationScore,
        last_attested_at |-> j.read.lastAttestedAt] = registry

\* cacheAgent, or the batch of cacheAgents.
WriteAgent(j) ==
    /\ At(j, "putAgent") \/ At(j, "batch")
    /\ PutAgent(Assigned(j))
    /\ Finish(j)
    /\ gap' = (gap /\ ~Refreshes(j))
    /\ backfilled' = (j.kind = "backfill" \/ (backfilled /\ ~Refreshes(j)))
    /\ UNCHANGED <<chainVars, phase, attestations, receipts, linkable>>

\* GET /agents/:id, and the handlers of AgentRegistered and FundInitialized.
RequestDetails ==
    /\ phase = "up"
    /\ \E id \in 1..MaxJobs :
         /\ \A j \in jobs : j.kind = "getAgentDetails" => j.of # id
         /\ Start(NewJob("getAgentDetails", "getAgent", id))
    /\ gap' = (gap \/ Touching # {})
    /\ UNCHANGED <<chainVars, phase, storeVars, backfilled, linkable>>

\* populateAgentCidDetails asks the gateway unless name and description are there.
Complete(record) == record.name # None /\ record.name \notin Undescribed

\* A complete hit is served as it is; another gets its manifest again.
GetAgentOfDetails(j) ==
    /\ j.kind = "getAgentDetails" /\ At(j, "getAgent")
    /\ \/ agent = NoAgent /\ Goto(j, "fetch")
       \/ agent # NoAgent /\ Complete(agent) /\ Finish(j)
       \/ agent # NoAgent /\ ~Complete(agent) /\ GotoWith(j, "gateway", agent)
    /\ UNCHANGED <<chainVars, phase, storeVars, historyVars>>

\* It refills name and description; manifest and capabilities keep what they had.
\* "refetch" is the same for a record that has just been fetched.
Populate(j) ==
    /\ At(j, "gateway") \/ At(j, "refetch")
    /\ GotoWith(j, IF j.pc = "gateway" THEN "putAgent" ELSE "putFetched",
                [j.read EXCEPT !.name = j.read.arweaveCid])
    /\ UNCHANGED <<chainVars, phase, storeVars, historyVars>>

\* A fetched record that had to be populated is put by populateAgentCidDetails, and
\* then once more by getAgentDetails.
WriteFetched(j) ==
    /\ At(j, "putFetched")
    /\ PutAgent(j.read)
    /\ Goto(j, "putAgent")
    /\ UNCHANGED <<chainVars, phase, attestations, receipts, historyVars>>

\* fetchAgentFromSolana: the accounts first, then the manifest they name.  An agent
\* without a CID is dropped.
FetchAccounts(j) ==
    /\ At(j, "fetch")
    /\ \/ registry.arweave_cid = None /\ Finish(j)
       \/ /\ registry.arweave_cid # None
          /\ GotoWith(j, "manifest",
                      [arweaveCid      |-> registry.arweave_cid,
                       reputationScore |-> registry.reputation_score,
                       lastAttestedAt  |-> registry.last_attested_at,
                       name |-> None, manifest |-> None])
    /\ UNCHANGED <<chainVars, phase, storeVars, historyVars>>

FetchManifest(j) ==
    /\ At(j, "manifest")
    /\ LET record == [j.read EXCEPT !.name = j.read.arweaveCid,
                                    !.manifest = j.read.arweaveCid]
       IN  GotoWith(j, IF j.kind = "fetchAll" THEN "batch"
                       ELSE IF Complete(record) THEN "putAgent"
                       ELSE "refetch", record)
    /\ UNCHANGED <<chainVars, phase, storeVars, historyVars>>

\* A request to the chain, the gateway, the pinning service or the store fails
\* or times out; the error is logged or sent to the caller.
Fail(j) ==
    /\ j \in jobs
    /\ Finish(j)
    /\ gap' = (gap \/ j.kind \in {"attestationSubmitted", "arweaveCidUpdated"})
    /\ UNCHANGED <<chainVars, phase, storeVars, backfilled, linkable>>

-----------------------------------------------------------------------------
(* Attestations and receipts                                                *)

\* POST /receipts/upload for the output the attestation n will be about.
RequestUpload(n) ==
    /\ phase = "up"
    /\ n \notin receipts
    /\ Start(NewJob("uploadReceipt", "pin", n))
    /\ UNCHANGED <<chainVars, phase, storeVars, historyVars>>

Pin(j) ==
    /\ At(j, "pin")
    /\ Goto(j, "putReceipt")
    /\ UNCHANGED <<chainVars, phase, storeVars, historyVars>>

PutReceipt(j) ==
    /\ At(j, "putReceipt")
    /\ receipts' = receipts \cup {j.of}
    /\ Finish(j)
    /\ UNCHANGED <<chainVars, phase, agent, attestations, historyVars>>

GetReceiptNever(j) ==                    \* mutation: the receipt is not looked up
    /\ j.kind = "attestationSubmitted" /\ At(j, "getReceipt")
    /\ jobs' = (jobs \ {j}) \cup {[j EXCEPT !.pc = "getAgent"],
                                  [j EXCEPT !.kind = "cacheAttestation",
                                            !.pc = "putAttestation"]}
    /\ UNCHANGED <<chainVars, phase, storeVars, historyVars>>

\* buildAttestationCacheData looks the receipt up once; Promise.all then starts
\* the update of the agent and the put of the attestation.
GetReceipt(j) ==
    /\ j.kind = "attestationSubmitted" /\ At(j, "getReceipt")
    /\ jobs' = (jobs \ {j}) \cup {[j EXCEPT !.pc = "getAgent"],
                                  [j EXCEPT !.kind = "cacheAttestation",
                                            !.pc = "putAttestation",
                                            !.linked = j.of \in receipts]}
    /\ UNCHANGED <<chainVars, phase, storeVars, historyVars>>

\* AttestationCacheEntity.createKey: the agent and the second.
Key(n) == submitted[n]

PutAttestation(j) ==
    /\ At(j, "putAttestation")
    /\ attestations' = [attestations EXCEPT ![Key(j.of)] =
                          [of |-> j.of, linked |-> j.linked]]
    /\ Finish(j)
    /\ UNCHANGED <<chainVars, phase, agent, receipts, gap, backfilled, linkable>>

-----------------------------------------------------------------------------
(* The process                                                              *)

\* AgentsService fetches all agents and does not wait for the answer;
\* AttestationService scans the transactions of the registry.
Boot ==
    /\ phase = "down"
    /\ phase' = "starting"
    /\ jobs' = {NewJob("fetchAll", "fetch", 0), NewJob("backfill", "scan", 0)}
    /\ UNCHANGED <<chainVars, storeVars, historyVars>>

\* The scan keeps the last attestation whose receipt it could load; any of the
\* loads may fail.  It stores none of the attestations it has collected.
ScanAttestations(j) ==
    /\ At(j, "scan")
    /\ \/ Finish(j)
       \/ \E n \in Submitted \cap receipts :
            jobs' = (jobs \ {j}) \cup {[j EXCEPT !.pc = "getAgent", !.of = n]}
    /\ UNCHANGED <<chainVars, phase, storeVars, historyVars>>

\* The backfill has been awaited: now the listeners are attached.
Listen ==
    /\ phase = "starting"
    /\ \A j \in jobs : j.kind # "backfill"
    /\ phase' = "up"
    /\ UNCHANGED <<chainVars, storeVars, jobs, historyVars>>

Stop ==
    /\ phase # "down"
    /\ phase' = "down"
    /\ jobs' = {}
    /\ gap' = (gap \/ \E j \in jobs : j.kind \in {"attestationSubmitted", "arweaveCidUpdated"})
    /\ UNCHANGED <<chainVars, storeVars, backfilled, linkable>>

JobStep(j) ==
    \/ GetAgentOfUpdate(j) \/ GetAgentOfDetails(j) \/ WriteAgent(j)
    \/ WriteFetched(j) \/ Populate(j) \/ FetchAccounts(j) \/ FetchManifest(j) \/ Fail(j)
    \/ Pin(j) \/ PutReceipt(j) \/ GetReceipt(j) \/ PutAttestation(j)
    \/ ScanAttestations(j)

Next ==
    \/ SubmitAttestation \/ WriteArweaveCid \/ RecordSlash
    \/ RequestDetails
    \/ \E n \in Attestations : RequestUpload(n)
    \/ \E j \in jobs : JobStep(j)
    \/ Boot \/ Listen \/ Stop

Spec == Init /\ [][Next]_vars

-----------------------------------------------------------------------------
(* Properties that hold                                                     *)

\* Every writer puts a whole record it has read at some other time, so a put
\* may bring back an old CID; it never pairs the name of one manifest with the
\* CID of another.
NameIsOfCid == agent.name \in {None, agent.arweaveCid}

\* The score and the time shown with it are a pair the registry has had,
\* whichever writer won; only the backfill may part them.
ScoreHasItsTime ==
    agent # NoAgent /\ ~backfilled =>
      \E r \in past : /\ r.reputation_score = agent.reputationScore
                      /\ r.last_attested_at = agent.lastAttestedAt

\* With no work in progress the cached agent is the agent on chain, unless an
\* event was missed, ignored or overlapped; a refill that nothing disturbs puts
\* an end to that.
CurrentWhenQuiet ==
    agent # NoAgent /\ jobs = {} /\ ~gap /\ ~backfilled =>
      /\ agent.arweaveCid = registry.arweave_cid
      /\ agent.reputationScore = registry.reputation_score
      /\ agent.lastAttestedAt = registry.last_attested_at

\* A receipt uploaded before its output is attested is linked to the attestation.
ReceiptIsLinked ==
    \A s \in Seconds : attestations[s].of \in linkable => attestations[s].linked

-----------------------------------------------------------------------------
(* Properties a comment states, and the code breaks                         *)

\* "Clear stale manifest fields so next getAgentDetails re-fetches from IPFS":
\* a record with a name again has the manifest of its CID again.
ManifestIsOfCid ==
    agent.name # None => agent.manifest = agent.arweaveCid

\* "Process oldest to newest so cache and reputation updates reflect event
\* chronology": also the backfill leaves a score with its time.
BackfillKeepsChronology ==
    agent # NoAgent =>
      \E r \in past : /\ r.reputation_score = agent.reputationScore
                      /\ r.last_attested_at = agent.lastAttestedAt

=============================================================================
