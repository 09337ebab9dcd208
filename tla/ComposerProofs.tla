--------------------------- MODULE ComposerProofs ----------------------------
(***************************************************************************)
(* Proofs about Composer, for every set of texts, number of files and      *)
(* draft ids, and faults: what the user composed becomes one turn at most, *)
(* however often it is sent; its files are claimed before its turn begins; *)
(* and it leaves the page only when its turn is there, with its files.     *)
(***************************************************************************)
EXTENDS Composer, TLAPS, SequenceTheorems

Entry == [key : Key, text : Content, version : Nat, prompt : (SUBSET File) \cup {Null},
          torn : BOOLEAN]
Types == TypeOK /\ turns \in Seq(Entry)

\* localStorage has the draft under its id, and nothing of a draft that was never
\* edited: a reload comes back to the id under which the draft was sent.
StorageIsDraft ==
  \/ storage = Null /\ content = Empty /\ files = {} /\ ~sent
  \/ storage = [content |-> content, files |-> files, id |-> draft]

\* Version v was sent with draft id k: it is in a request, or in a turn.
Carries(x, v, k) == x.version = v /\ x.key = k
Used(v, k) ==
  \/ awaited # Null /\ Carries(awaited, v, k)
  \/ \E c \in strays : Carries(c, v, k)
  \/ \E i \in DOMAIN turns : Carries(turns[i], v, k)

\* A version is sent with one id, the draft's if it is the one in the composer; what
\* the user composes next is another version.
OneKeyPerVersion ==
  \A v, k : Used(v, k) =>
    /\ v \in Nat /\ v <= version
    /\ v = version => sent /\ k = draft
    /\ \A j : Used(v, j) => j = k

\* findByIngress: an id has one turn.
OneTurnPerKey == \A i, k \in DOMAIN turns : turns[i].key = turns[k].key => i = k

IInv == Types /\ StorageIsDraft /\ OneKeyPerVersion /\ OneTurnPerKey

\* What is sent under one id is one draft, and one id is one turn.
LEMMA IInvOneTurn == IInv => OneTurnPerDraft
<1> SUFFICES ASSUME IInv, NEW i \in DOMAIN turns, NEW k \in DOMAIN turns,
                    turns[i].version = turns[k].version
             PROVE  i = k
  BY DEF OneTurnPerDraft
<1>1. Used(turns[i].version, turns[i].key) /\ Used(turns[i].version, turns[k].key)
  BY DEF Used, Carries
<1>2. turns[i].key = turns[k].key
  BY <1>1 DEF IInv, OneKeyPerVersion
<1> QED
  BY <1>2 DEF IInv, OneTurnPerKey

LEMMA InitIInv == Init => IInv
<1> SUFFICES ASSUME Init PROVE IInv
  OBVIOUS
<1>1. turns \in Seq(Entry) /\ Len(turns) = 0 /\ DOMAIN turns = {}
  BY DEF Init
<1>2. TypeOK
  <2>1. owner \in [File -> 0..Len(turns)] /\ faults \in 0..MaxFaults
    BY <1>1, ComposerAssumption DEF Init
  <2>2. status \in [File -> {"none", "available", "expired"}]
    BY DEF Init
  <2>3. draft \in Key /\ keys \in Key /\ version \in Nat
    BY ComposerAssumption DEF Init, Key
  <2> QED
    BY <1>1, <2>1, <2>2, <2>3 DEF Init, TypeOK, Content
<1>3. StorageIsDraft
  BY DEF Init, StorageIsDraft
<1>4. \A v, k : ~Used(v, k)
  BY <1>1 DEF Init, Used
<1> QED
  BY <1>1, <1>2, <1>3, <1>4 DEF IInv, Types, OneKeyPerVersion, OneTurnPerKey

-----------------------------------------------------------------------------
\* What a step shows of the ids: nothing more was sent, and what is in the composer
\* has the id it had, or is new.
LEMMA KeysKept ==
  ASSUME IInv, version' \in Nat,
         \A v, k : Used(v, k)' => Used(v, k),
         \/ version' = version /\ (sent => sent') /\ (sent => draft' = draft)
         \/ Changed
  PROVE  OneKeyPerVersion'
<1> SUFFICES ASSUME NEW v, NEW k, Used(v, k)'
             PROVE  /\ v \in Nat /\ v <= version'
                    /\ v = version' => sent' /\ k = draft'
                    /\ \A j : Used(v, j)' => j = k
  BY DEF OneKeyPerVersion
<1>1. /\ v \in Nat /\ v <= version
      /\ v = version => sent /\ k = draft
      /\ \A j : Used(v, j) => j = k
  BY DEF IInv, OneKeyPerVersion
<1>2. version \in Nat /\ sent \in BOOLEAN
  BY DEF IInv, Types, TypeOK
<1>3. \A j : Used(v, j)' => j = k
  BY <1>1
<1>4. v <= version' /\ (v = version' => sent' /\ k = draft')
  BY <1>1, <1>2 DEF Changed
<1> QED
  BY <1>1, <1>3, <1>4

\* A request makes a turn, or finds it: the turns stay one for each id, and carry what
\* was sent.
LEMMA CreateTurn ==
  ASSUME IInv, NEW c \in Request, NEW torn \in BOOLEAN, Used(c.version, c.key),
         createTurn(c, torn)
  PROVE  /\ turns' \in Seq(Entry) /\ Len(turns) <= Len(turns') /\ Len(turns') \in Nat
         /\ DOMAIN turns' = 1..Len(turns')
         /\ TurnOf(c) \in 1..Len(turns')
         /\ OneTurnPerKey'
         /\ \A i \in DOMAIN turns' : Used(turns'[i].version, turns'[i].key)
<1>1. /\ turns \in Seq(Entry) /\ DOMAIN turns = 1..Len(turns) /\ Len(turns) \in Nat
      /\ OneTurnPerKey
  BY DEF IInv, Types
<1>2. \A i \in DOMAIN turns : Used(turns[i].version, turns[i].key)
  BY DEF Used, Carries
<1>3. CASE ExistingTurns(c) # {}
  <2>1. turns' = turns
    BY <1>3 DEF createTurn
  <2>2. TurnOf(c) \in ExistingTurns(c)
    BY <1>3 DEF TurnOf
  <2> QED
    BY <1>1, <1>2, <2>1, <2>2 DEF OneTurnPerKey, ExistingTurns
<1>4. CASE ExistingTurns(c) = {}
  <2> DEFINE e == [key |-> c.key, text |-> c.text, version |-> c.version,
                   prompt |-> Null, torn |-> torn]
  <2>10. c.key \in Key /\ c.text \in Content /\ c.version \in Nat
    BY DEF Request
  <2>1. e \in Entry
    BY <2>10 DEF Entry
  <2>2. e.key = c.key /\ e.version = c.version
    OBVIOUS
  <2>9. turns' = Append(turns, e)
    BY <1>4 DEF createTurn
  <2> HIDE DEF e
  <2>3. /\ turns' \in Seq(Entry) /\ Len(turns') = Len(turns) + 1
        /\ DOMAIN turns' = 1..Len(turns')
        /\ turns'[Len(turns) + 1] = e
        /\ \A i \in DOMAIN turns : turns'[i] = turns[i]
    BY <1>1, <2>1, <2>9
  <2>4. TurnOf(c) = Len(turns) + 1
    BY <1>4 DEF TurnOf
  <2>5. \A i \in DOMAIN turns : turns[i].key # c.key
    BY <1>4 DEF ExistingTurns
  <2>6. \A i \in DOMAIN turns' : i \in DOMAIN turns \/ i = Len(turns) + 1
    BY <1>1, <2>3
  <2>7. OneTurnPerKey'
    BY <1>1, <2>2, <2>3, <2>5, <2>6 DEF OneTurnPerKey
  <2>8. \A i \in DOMAIN turns' : Used(turns'[i].version, turns'[i].key)
    BY <1>2, <2>2, <2>3, <2>6
  <2> QED
    BY <1>1, <2>3, <2>4, <2>7, <2>8
<1> QED
  BY <1>3, <1>4

-----------------------------------------------------------------------------
\* The user's steps, an upload and its end: a change makes another draft, or leaves
\* one that was never sent.
LEMMA NewIdTypes ==
  ASSUME Types, NewDraftId \/ KeepDraftId, Changed
  PROVE  /\ draft' \in Key /\ keys' \in Key /\ forgotten' \in BOOLEAN
         /\ version' \in Nat /\ sent' \in BOOLEAN
<1>1. draft' \in Key /\ keys' \in Key /\ forgotten' \in BOOLEAN
  <2>1. CASE NewDraftId
    <3>1. keys \in 1..MaxKeys /\ MaxKeys \in Nat
      BY ComposerAssumption DEF Types, TypeOK, Key
    <3>2. draft' \in Key /\ keys' \in Key
      BY <2>1, <3>1 DEF NewDraftId, Key
    <3> QED
      BY <2>1, <3>2 DEF NewDraftId
  <2>2. CASE KeepDraftId
    BY <2>2 DEF Types, TypeOK, KeepDraftId
  <2> QED
    BY <2>1, <2>2
<1>2. version' \in Nat
  <2>1. version \in Nat
    BY DEF Types, TypeOK
  <2> QED
    BY <2>1 DEF Changed
<1>3. sent' \in BOOLEAN
  BY DEF Changed
<1> QED
  BY <1>1, <1>2, <1>3

LEMMA DraftSteps ==
  ASSUME IInv,
         \/ UserStep
         \/ \E f \in File : UploadDone(f)
         \/ UploadFails
  PROVE  IInv'
<1>1. ASSUME NEW value \in Content, updateContent(value) PROVE IInv'
  <2>1. submitted' \in Content \cup {Null} /\ (NewDraftId \/ KeepDraftId)
    BY <1>1 DEF updateContent, IInv, Types, TypeOK
  <2>2. Types'
    BY <1>1, <2>1, NewIdTypes DEF updateContent, persistDraft, network, server, IInv, Types,
       TypeOK, Draft
  <2>3. StorageIsDraft'
    BY <1>1 DEF updateContent, persistDraft, StorageIsDraft
  <2>4. \A v, k : Used(v, k)' => Used(v, k)
    BY <1>1 DEF updateContent, network, server, Used
  <2>5. OneKeyPerVersion'
    BY <1>1, <2>2, <2>4, KeysKept DEF updateContent, Types, TypeOK
  <2> QED
    BY <1>1, <2>2, <2>3, <2>5 DEF updateContent, server, IInv, OneTurnPerKey
<1>2. CASE uploadFiles \/ UploadFails
  <2>1. Types'
    BY <1>2 DEF uploadFiles, UploadFails, network, server, history, IInv, Types, TypeOK
  <2>2. \A v, k : Used(v, k)' => Used(v, k)
    BY <1>2 DEF uploadFiles, UploadFails, network, server, Used
  <2>3. OneKeyPerVersion'
    BY <1>2, <2>1, <2>2, KeysKept DEF uploadFiles, UploadFails, history, Types, TypeOK
  <2> QED
    BY <1>2, <2>1, <2>3 DEF uploadFiles, UploadFails, history, server, IInv, OneTurnPerKey,
       StorageIsDraft
<1>3. CASE executionPreferenceChanged
  <2>1. Types'
    BY <1>3, NewIdTypes DEF executionPreferenceChanged, persistDraft, network, server, IInv,
       Types, TypeOK, Draft
  <2>2. StorageIsDraft'
    BY <1>3 DEF executionPreferenceChanged, persistDraft, StorageIsDraft
  <2>3. \A v, k : Used(v, k)' => Used(v, k)
    BY <1>3 DEF executionPreferenceChanged, network, server, Used
  <2>4. OneKeyPerVersion'
    BY <1>3, <2>1, <2>3, KeysKept DEF executionPreferenceChanged, Types, TypeOK
  <2> QED
    BY <1>3, <2>1, <2>2, <2>4 DEF executionPreferenceChanged, server, IInv, OneTurnPerKey
<1>4. ASSUME NEW f \in File, removePendingAttachment(f) PROVE IInv'
  <2>1. Types'
    BY <1>4, NewIdTypes DEF removePendingAttachment, FilesChanged, persistDraft, network,
       server, IInv, Types, TypeOK, Draft
  <2>2. StorageIsDraft'
    BY <1>4 DEF removePendingAttachment, persistDraft, StorageIsDraft
  <2>3. \A v, k : Used(v, k)' => Used(v, k)
    BY <1>4 DEF removePendingAttachment, network, server, Used
  <2>4. OneKeyPerVersion'
    BY <1>4, <2>1, <2>3, KeysKept DEF removePendingAttachment, Types, TypeOK
  <2> QED
    BY <1>4, <2>1, <2>2, <2>4 DEF removePendingAttachment, server, IInv, OneTurnPerKey
<1>5. ASSUME NEW f \in File, UploadDone(f) PROVE IInv'
  <2>1. status' \in [File -> {"none", "available", "expired"}] /\ files' \subseteq File
    BY <1>5 DEF UploadDone, IInv, Types, TypeOK
  <2>2. Types'
    BY <1>5, <2>1, NewIdTypes DEF UploadDone, FilesChanged, persistDraft, network, IInv,
       Types, TypeOK, Draft
  <2>3. StorageIsDraft'
    BY <1>5 DEF UploadDone, persistDraft, StorageIsDraft
  <2>4. \A v, k : Used(v, k)' => Used(v, k)
    BY <1>5 DEF UploadDone, network, Used
  <2>5. OneKeyPerVersion'
    BY <1>5, <2>2, <2>4, KeysKept DEF UploadDone, Types, TypeOK
  <2> QED
    BY <1>5, <2>2, <2>3, <2>5 DEF UploadDone, IInv, OneTurnPerKey
<1> QED
  BY <1>1, <1>2, <1>3, <1>4, <1>5 DEF UserStep

-----------------------------------------------------------------------------
\* The request and its end on the page: `send' alone adds to what was sent, and it
\* adds the draft in the composer under its id.
LEMMA SendKeeps == ASSUME IInv, send PROVE IInv'
<1> DEFINE c == [key |-> draft, text |-> content, files |-> files, version |-> version,
                 stale |-> forgotten]
<1>1. /\ draft \in Key /\ content \in Content /\ files \in SUBSET File /\ version \in Nat
      /\ forgotten \in BOOLEAN
  BY DEF IInv, Types, TypeOK
<1>2. c \in Request
  BY <1>1 DEF Request
<1>3. awaited' = c /\ c.key = draft /\ c.version = version
  BY DEF send
<1> HIDE DEF c
<1>4. sent' = TRUE /\ submitted' = content
  BY DEF send
<1>5. Types'
  <2>1. submitted' \in Content \cup {Null} /\ sent' \in BOOLEAN
    BY <1>1, <1>4
  <2> QED
    BY <1>2, <1>3, <2>1 DEF send, server, IInv, Types, TypeOK
<1>6. StorageIsDraft'
  BY ComposerAssumption, <1>1 DEF send, IInv, StorageIsDraft
<1>7. \A v, k : Used(v, k)' => Used(v, k) \/ (v = version /\ k = draft)
  BY <1>3 DEF send, server, Used, Carries
<1>8. OneKeyPerVersion'
  <2> SUFFICES ASSUME NEW v, NEW k, Used(v, k)'
               PROVE  /\ v \in Nat /\ v <= version'
                      /\ v = version' => sent' /\ k = draft'
                      /\ \A j : Used(v, j)' => j = k
    BY DEF OneKeyPerVersion
  <2>1. version' = version /\ draft' = draft
    BY DEF send
  <2>2. \A j : Used(v, j) /\ v = version => j = draft
    BY DEF IInv, OneKeyPerVersion
  <2>3. Used(v, k) => v \in Nat /\ v <= version /\ \A j : Used(v, j) => j = k
    BY DEF IInv, OneKeyPerVersion
  <2>4. v \in Nat /\ v <= version
    BY <1>1, <1>7, <2>3
  <2>5. v = version => k = draft
    BY <1>7, <2>2
  <2>6. \A j : Used(v, j)' => j = k
    BY <1>7, <2>2, <2>3
  <2> QED
    BY <1>4, <2>1, <2>4, <2>5, <2>6
<1>9. OneTurnPerKey'
  BY DEF send, server, IInv, OneTurnPerKey
<1> QED
  BY <1>5, <1>6, <1>8, <1>9 DEF IInv

LEMMA AnswerSteps == ASSUME IInv, Created \/ Refused \/ CallFails \/ Reload PROVE IInv'
<1>1. CASE Created
  <2>1. CASE Unchanged
    <3>1. Types'
      BY <1>1, <2>1, NewIdTypes DEF Created, server, IInv, Types, TypeOK, Content
    <3>2. StorageIsDraft'
      BY <1>1, <2>1 DEF Created, Changed, StorageIsDraft
    <3>3. \A v, k : Used(v, k)' => Used(v, k)
      BY <1>1 DEF Created, server, Used
    <3>4. OneKeyPerVersion'
      BY <1>1, <2>1, <3>1, <3>3, KeysKept DEF Created, Types, TypeOK
    <3> QED
      BY <1>1, <3>1, <3>2, <3>4 DEF Created, server, IInv, OneTurnPerKey
  <2>2. CASE ~Unchanged
    <3>1. Types'
      BY <1>1, <2>2 DEF Created, KeepDraftId, server, IInv, Types, TypeOK
    <3>2. StorageIsDraft'
      BY <1>1, <2>2 DEF Created, KeepDraftId, IInv, StorageIsDraft
    <3>3. \A v, k : Used(v, k)' => Used(v, k)
      BY <1>1 DEF Created, server, Used
    <3>4. OneKeyPerVersion'
      BY <1>1, <2>2, <3>1, <3>3, KeysKept DEF Created, KeepDraftId, Types, TypeOK
    <3> QED
      BY <1>1, <3>1, <3>2, <3>4 DEF Created, server, IInv, OneTurnPerKey
  <2> QED
    BY <2>1, <2>2
<1>2. CASE Refused
  <2>1. Types'
    BY <1>2 DEF Refused, page, server, history, IInv, Types, TypeOK
  <2>2. \A v, k : Used(v, k)' => Used(v, k)
    BY <1>2 DEF Refused, server, Used
  <2>3. OneKeyPerVersion'
    BY <1>2, <2>1, <2>2, KeysKept DEF Refused, page, history, Types, TypeOK
  <2> QED
    BY <1>2, <2>1, <2>3 DEF Refused, page, server, history, IInv, OneTurnPerKey,
       StorageIsDraft
<1>3. ASSUME strays' = Abandoned PROVE \A c \in strays' : c \in strays \/ (c = awaited /\ busy)
  BY <1>3 DEF Abandoned
<1>4. ASSUME strays' = Abandoned PROVE \A c \in strays' : c \in Request
  BY <1>3, <1>4 DEF busy, IInv, Types, TypeOK
<1>5. ASSUME strays' = Abandoned, awaited' = Null, turns' = turns
      PROVE  \A v, k : Used(v, k)' => Used(v, k)
  BY <1>3, <1>5 DEF busy, Used, Carries
<1>6. ASSUME NEW kind, Fault(kind) PROVE faults' \in 0..MaxFaults
  BY <1>6, ComposerAssumption DEF Fault, IInv, Types, TypeOK
<1>7. CASE CallFails
  <2>1. Types'
    BY <1>4, <1>6, <1>7 DEF CallFails, page, server, history, IInv, Types, TypeOK
  <2>2. \A v, k : Used(v, k)' => Used(v, k)
    BY <1>5, <1>7 DEF CallFails, server
  <2>3. OneKeyPerVersion'
    BY <1>7, <2>1, <2>2, KeysKept DEF CallFails, page, history, Types, TypeOK
  <2> QED
    BY <1>7, <2>1, <2>3 DEF CallFails, page, server, history, IInv, OneTurnPerKey,
       StorageIsDraft
<1>8. CASE Reload
  <2>1. \A v, k : Used(v, k)' => Used(v, k)
    BY <1>5, <1>8 DEF Reload, server
  <2>2. CASE storage = Null
    <3>1. content = Empty /\ files = {} /\ ~sent
      <4>1. [content |-> content, files |-> files, id |-> draft] \in Draft
        BY DEF Draft, IInv, Types, TypeOK
      <4> QED
        BY <2>2, <4>1, NullAssumption DEF IInv, StorageIsDraft
    <3>2. draft' \in Key /\ keys' \in Key
      <4>1. keys \in 1..MaxKeys /\ MaxKeys \in Nat
        BY ComposerAssumption DEF IInv, Types, TypeOK, Key
      <4> QED
        BY <1>8, <2>2, <4>1 DEF Reload, NewDraftId, Key
    <3>3. Types'
      BY <1>4, <1>6, <1>8, <2>2, <3>2 DEF Reload, NewDraftId, server, IInv, Types, TypeOK,
         Content
    <3>4. StorageIsDraft'
      BY <1>8, <2>2, <3>1 DEF Reload, StorageIsDraft
    <3>5. version' = version /\ sent' = FALSE
      BY <1>8, <3>1 DEF Reload, IInv, Types, TypeOK
    <3>6. OneKeyPerVersion'
      BY <3>1, <2>1, <3>3, <3>5, KeysKept DEF Changed, IInv, Types, TypeOK
    <3> QED
      BY <1>8, <3>3, <3>4, <3>6 DEF Reload, server, IInv, OneTurnPerKey
  <2>3. CASE storage # Null
    <3>1. storage = [content |-> content, files |-> files, id |-> draft]
      BY <2>3 DEF IInv, StorageIsDraft
    <3>2. content' = content /\ files' = files /\ draft' = draft
      BY <1>8, <2>3, <3>1 DEF Reload
    <3>3. forgotten' \in BOOLEAN
      BY <1>8, <2>3 DEF Reload
    <3>4. Types'
      BY <1>4, <1>6, <1>8, <2>3, <3>2, <3>3 DEF Reload, server, IInv, Types, TypeOK
    <3>5. StorageIsDraft'
      BY <1>8, <3>1, <3>2 DEF Reload, StorageIsDraft
    <3>6. OneKeyPerVersion'
      BY <1>8, <2>1, <3>2, <3>4, KeysKept DEF Reload, Types, TypeOK
    <3> QED
      BY <1>8, <3>4, <3>5, <3>6 DEF Reload, server, IInv, OneTurnPerKey
  <2> QED
    BY <2>2, <2>3
<1> QED
  BY <1>1, <1>2, <1>7, <1>8

-----------------------------------------------------------------------------
\* The server: a turn is created from a request, and that request was sent.
LEMMA HandleKeeps ==
  ASSUME IInv, NEW r \in Request, NEW t \in BOOLEAN, Used(r.version, r.key),
         createTurn(r, t),
         claim(r) \/ owner' = owner,
         awaited' \in {awaited, Null}, strays' \subseteq strays,
         answer' \in {"none", "created", "refused"}, faults' \in 0..MaxFaults,
         UNCHANGED <<page, storage, status, history, env>>
  PROVE  IInv'
<1>1. /\ turns' \in Seq(Entry) /\ Len(turns) <= Len(turns') /\ Len(turns') \in Nat
      /\ DOMAIN turns' = 1..Len(turns')
      /\ TurnOf(r) \in 1..Len(turns')
      /\ OneTurnPerKey'
      /\ \A i \in DOMAIN turns' : Used(turns'[i].version, turns'[i].key)
  BY CreateTurn
<1>2. owner' \in [File -> 0..Len(turns')]
  <2>1. owner \in [File -> 0..Len(turns)] /\ Len(turns) \in Nat
    BY DEF IInv, Types, TypeOK
  <2> QED
    BY <1>1, <2>1 DEF claim
<1>3. \A i \in DOMAIN turns' :
        /\ turns'[i].key \in Key /\ turns'[i].text \in Content
        /\ turns'[i].version \in Nat /\ turns'[i].torn \in BOOLEAN
        /\ turns'[i].prompt = Null \/ turns'[i].prompt \subseteq File
  <2>1. \A i \in DOMAIN turns' : turns'[i] \in Entry
    BY <1>1
  <2> QED
    BY <2>1 DEF Entry
<1>4. Types'
  <2>1. (awaited' = Null \/ awaited' \in Request) /\ \A d \in strays' : d \in Request
    BY DEF IInv, Types, TypeOK
  <2> QED
    BY <1>1, <1>2, <1>3, <2>1 DEF page, history, IInv, Types, TypeOK
<1>5. \A v, k : Used(v, k)' => Used(v, k)
  BY <1>1 DEF Used, Carries
<1>6. OneKeyPerVersion'
  BY <1>4, <1>5, KeysKept DEF page, history, Types, TypeOK
<1> QED
  BY <1>1, <1>4, <1>6 DEF page, history, IInv, StorageIsDraft

LEMMA ServerSteps == ASSUME IInv, ServerStep PROVE IInv'
<1>1. faults \in 0..MaxFaults /\ MaxFaults \in Nat /\ answer \in {"none", "created", "refused"}
  BY ComposerAssumption DEF IInv, Types, TypeOK
<1>2. busy => awaited \in Request /\ Used(awaited.version, awaited.key)
  <2>1. busy => awaited # Null /\ awaited \in Request
    BY DEF busy, IInv, Types, TypeOK
  <2>2. awaited # Null => Used(awaited.version, awaited.key)
    BY DEF Used, Carries
  <2> QED
    BY <2>1, <2>2
<1>3. CASE Answered
  <2>1. CASE Handle(awaited)
    BY <1>1, <1>2, <1>3, <2>1, HandleKeeps DEF Answered, Handle
  <2>2. CASE UNCHANGED <<turns, owner>>
    <3>1. Types'
      BY <1>3, <2>2 DEF Answered, page, history, IInv, Types, TypeOK
    <3>2. \A v, k : Used(v, k)' => Used(v, k)
      BY <1>3, <2>2 DEF Answered, Used
    <3>3. OneKeyPerVersion'
      BY <1>3, <3>1, <3>2, KeysKept DEF Answered, page, history, Types, TypeOK
    <3> QED
      BY <1>3, <2>2, <3>1, <3>3 DEF Answered, page, history, IInv, OneTurnPerKey, StorageIsDraft
  <2> QED
    BY <1>3, <2>1, <2>2 DEF Answered
<1>4. CASE Crash
  <2>1. faults' \in 0..MaxFaults
    BY <1>1, <1>4 DEF Crash, Fault
  <2> QED
    BY <1>1, <1>2, <1>4, <2>1, HandleKeeps DEF Crash
<1>5. ASSUME NEW c \in strays, StrayArrives(c) PROVE IInv'
  <2>1. c \in Request /\ Used(c.version, c.key)
    BY DEF IInv, Types, TypeOK, Used, Carries
  <2> QED
    BY <1>1, <1>5, <2>1, HandleKeeps DEF StrayArrives, Handle
<1>6. ASSUME NEW i \in DOMAIN turns, Begin(i) PROVE IInv'
  <2>1. /\ turns \in Seq(Entry) /\ Len(turns) \in Nat /\ DOMAIN turns = 1..Len(turns)
        /\ \A n \in DOMAIN turns : turns[n] \in Entry
    BY DEF IInv, Types
  <2>2. /\ DOMAIN turns' = DOMAIN turns
        /\ \A n \in DOMAIN turns : n # i => turns'[n] = turns[n]
        /\ turns'[i] = [turns[i] EXCEPT !.prompt = promptForTurn(i)]
    BY <1>6, <2>1 DEF Begin
  <2>3. promptForTurn(i) \in SUBSET File
    BY DEF promptForTurn
  <2>4. /\ turns'[i] \in Entry /\ turns'[i].key = turns[i].key
        /\ turns'[i].version = turns[i].version
    BY <2>1, <2>2, <2>3 DEF Entry
  <2>5. \A n \in DOMAIN turns : /\ turns'[n] \in Entry /\ turns'[n].key = turns[n].key
                               /\ turns'[n].version = turns[n].version
    BY <2>1, <2>2, <2>4
  <2>6. turns' \in Seq(Entry) /\ Len(turns') = Len(turns)
    BY <1>6, <2>1, <2>2, <2>5 DEF Begin
  <2>7. Types'
    <3>1. \A n \in DOMAIN turns' :
            /\ turns'[n].key \in Key /\ turns'[n].text \in Content
            /\ turns'[n].version \in Nat /\ turns'[n].torn \in BOOLEAN
            /\ turns'[n].prompt = Null \/ turns'[n].prompt \subseteq File
      BY <2>2, <2>5 DEF Entry
    <3> QED
      BY <1>6, <2>6, <3>1 DEF Begin, page, network, history, IInv, Types, TypeOK
  <2>8. \A v, k : Used(v, k)' => Used(v, k)
    BY <1>6, <2>2, <2>5 DEF Begin, network, Used, Carries
  <2>9. OneKeyPerVersion'
    BY <1>6, <2>7, <2>8, KeysKept DEF Begin, page, history, Types, TypeOK
  <2>10. OneTurnPerKey'
    BY <2>2, <2>5 DEF IInv, OneTurnPerKey
  <2> QED
    BY <1>6, <2>7, <2>9, <2>10 DEF Begin, page, history, IInv, StorageIsDraft
<1>7. ASSUME NEW f \in File, Expire(f) PROVE IInv'
  <2>1. status' \in [File -> {"none", "available", "expired"}]
    BY <1>7 DEF Expire, IInv, Types, TypeOK
  <2>2. Types'
    BY <1>7, <2>1 DEF Expire, page, network, history, IInv, Types, TypeOK
  <2>3. \A v, k : Used(v, k)' => Used(v, k)
    BY <1>7 DEF Expire, network, Used
  <2>4. OneKeyPerVersion'
    BY <1>7, <2>2, <2>3, KeysKept DEF Expire, page, history, Types, TypeOK
  <2> QED
    BY <1>7, <2>2, <2>4 DEF Expire, page, history, IInv, OneTurnPerKey, StorageIsDraft
<1> QED
  BY <1>3, <1>4, <1>5, <1>6, <1>7 DEF ServerStep

LEMMA StutterKeeps == ASSUME IInv, UNCHANGED vars PROVE IInv'
<1> USE DEF vars, page, network, server, history
<1>1. Types'
  BY DEF IInv, Types, TypeOK
<1>2. OneKeyPerVersion'
  BY DEF IInv, OneKeyPerVersion, Used
<1> QED
  BY <1>1, <1>2 DEF IInv, OneTurnPerKey, StorageIsDraft

LEMMA StepIInv == IInv /\ [Next]_vars => IInv'
BY DraftSteps, SendKeeps, AnswerSteps, ServerSteps, StutterKeeps DEF Next, PageStep

-----------------------------------------------------------------------------
\* The draft in the composer, what is kept of it, what is on the network and the turns
\* of the server agree on the ids under which it was sent.
THEOREM Invariant == Spec => []IInv
BY InitIInv, StepIInv, PTL DEF Spec

\* Every variable of the composer keeps its type.
THEOREM TypeCorrect == Spec => []TypeOK
<1>1. IInv => TypeOK
  BY DEF IInv, Types
<1> QED
  BY <1>1, Invariant, PTL

\* What the user composed becomes one turn at most, however often it is sent: after lost
\* answers, reloads, and a crash of the server in the middle of a request.
THEOREM OneTurnPerDraftCorrect == Spec => []OneTurnPerDraft
BY IInvOneTurn, Invariant, PTL

-----------------------------------------------------------------------------
\* The files of the turns

InFlight == (IF awaited = Null THEN {} ELSE {awaited}) \cup strays

\* A draft id stands for one set of files: every request that carries it has the same,
\* that of the draft if it is the draft's, and the turn of that id has claimed them all
\* when it was created, unless the server died before that.
KeyFiles ==
  /\ draft <= keys /\ \A x \in InFlight : x.key <= keys
  /\ \A i \in DOMAIN turns : turns[i].key <= keys
  /\ \A x \in InFlight : x.key = draft => x.files = files
  /\ \A x, y \in InFlight : x.key = y.key => x.files = y.files
  /\ \A i \in DOMAIN turns : ~turns[i].torn =>
       /\ \A x \in InFlight : x.key = turns[i].key => \A f \in x.files : owner[f] = i
       /\ turns[i].key = draft => \A f \in files : owner[f] = i
  /\ \A f \in File : owner[f] # 0 => status[f] # "none"

FInv == KeyFiles /\ FilesReachCodex

\* A step of the page or of the attachments' clean-up that sends and claims nothing: the
\* draft keeps its id and files, or has a new id.
LEMMA FilesKept ==
  ASSUME IInv, IInv', FInv, turns' = turns, owner' = owner, InFlight' \subseteq InFlight,
         \/ draft' = draft /\ files' = files /\ keys' = keys
         \/ draft' = keys + 1 /\ keys' = keys + 1,
         \A f \in File : status[f] # "none" =>
           status'[f] # "none" /\ (status'[f] = "available" => status[f] = "available")
  PROVE  FInv'
<1>0. /\ keys \in Nat /\ draft \in Nat /\ keys' \in Nat /\ draft' \in Nat /\ keys <= keys'
      /\ \A x \in InFlight : x.key \in Nat
      /\ \A i \in DOMAIN turns : turns[i].key \in Nat
      /\ DOMAIN turns = 1..Len(turns)
  BY DEF IInv, Types, TypeOK, Key, InFlight, Request
<1>1. /\ \A x \in InFlight : x.key # keys + 1
      /\ \A i \in DOMAIN turns : turns[i].key # keys + 1
  BY <1>0 DEF FInv, KeyFiles
<1>2. /\ \A x \in InFlight' : x.key <= keys'
      /\ \A i \in DOMAIN turns' : turns'[i].key <= keys'
  BY <1>0 DEF FInv, KeyFiles
<1>3. \A x \in InFlight' : x.key = draft' => x.files = files'
  BY <1>1 DEF FInv, KeyFiles
<1>4. \A i \in DOMAIN turns' : ~turns'[i].torn =>
       /\ \A x \in InFlight' : x.key = turns'[i].key => \A f \in x.files : owner'[f] = i
       /\ turns'[i].key = draft' => \A f \in files' : owner'[f] = i
  BY <1>1 DEF FInv, KeyFiles
<1>5. \A f \in File : owner'[f] # 0 => status'[f] # "none"
  BY DEF FInv, KeyFiles
<1>6. KeyFiles'
  BY <1>0, <1>2, <1>3, <1>4, <1>5 DEF FInv, KeyFiles
<1>7. FilesReachCodex'
  <2> SUFFICES ASSUME NEW f \in File, NEW i \in DOMAIN turns, owner[f] = i,
                      status'[f] = "available", turns[i].prompt # Null, ~turns[i].torn
               PROVE  f \in turns[i].prompt
    BY DEF FilesReachCodex
  <2>1. owner[f] # 0 BY <1>0
  <2>2. status[f] = "available" BY <2>1 DEF FInv, KeyFiles
  <2> QED BY <2>2 DEF FInv, FilesReachCodex
<1> QED BY <1>6, <1>7 DEF FInv

LEMMA InFlightMembers ==
  \A x : x \in InFlight <=> (awaited # Null /\ x = awaited) \/ x \in strays
BY DEF InFlight

LEMMA InFlightRequests == IInv => \A x \in InFlight : x \in Request
BY InFlightMembers DEF IInv, Types, TypeOK

\* A request nobody waits for any more is still on its way, or answered.
LEMMA AbandonedInFlight ==
  ASSUME strays' = Abandoned, awaited' = Null
  PROVE  InFlight' \subseteq InFlight
BY DEF Abandoned, InFlight, busy

LEMMA DraftF ==
  ASSUME IInv, IInv', FInv,
         \/ UserStep
         \/ \E f \in File : UploadDone(f)
         \/ UploadFails
  PROVE  FInv'
<1>1. ASSUME network' = network PROVE InFlight' \subseteq InFlight
  BY <1>1 DEF network, InFlight
<1>2. ASSUME NewDraftId PROVE draft' = keys + 1 /\ keys' = keys + 1
  BY <1>2 DEF NewDraftId
<1>3. ASSUME NEW value \in Content, updateContent(value) PROVE FInv'
  BY <1>1, <1>2, <1>3, FilesKept DEF updateContent, KeepDraftId, server
<1>4. CASE uploadFiles \/ UploadFails
  BY <1>1, <1>4, FilesKept DEF uploadFiles, UploadFails, server, history
<1>5. CASE executionPreferenceChanged
  BY <1>1, <1>2, <1>5, FilesKept DEF executionPreferenceChanged, server
<1>6. ASSUME NEW f \in File, removePendingAttachment(f) PROVE FInv'
  BY <1>1, <1>2, <1>6, FilesKept DEF removePendingAttachment, FilesChanged, server
<1>7. ASSUME NEW f \in File, UploadDone(f) PROVE FInv'
  <2>1. \A g \in File : status[g] # "none" => status'[g] = status[g]
    BY <1>7 DEF UploadDone, IInv, Types, TypeOK
  <2> QED BY <1>1, <1>2, <1>7, <2>1, FilesKept DEF UploadDone, FilesChanged
<1> QED BY <1>3, <1>4, <1>5, <1>6, <1>7 DEF UserStep

\* What is sent under the draft's id are the draft's files.
LEMMA SendF == ASSUME IInv, IInv', FInv, send PROVE FInv'
<1> DEFINE c == [key |-> draft, text |-> content, files |-> files, version |-> version,
                 stale |-> forgotten]
<1>1. c.key = draft /\ c.files = files OBVIOUS
<1>2. awaited = Null /\ awaited' = c /\ strays' = strays BY DEF send, busy
<1> HIDE DEF c
<1>3. \A x \in InFlight' : x \in InFlight \/ x = c BY <1>2 DEF InFlight
<1>4. UNCHANGED <<draft, files, keys, turns, owner, status>> BY DEF send, server
<1>5. KeyFiles'
  <2>1. /\ draft' <= keys' /\ \A x \in InFlight' : x.key <= keys'
        /\ \A i \in DOMAIN turns' : turns'[i].key <= keys'
        /\ \A x \in InFlight' : x.key = draft' => x.files = files'
    BY <1>1, <1>3, <1>4 DEF FInv, KeyFiles
  <2>2. \A x, y \in InFlight' : x.key = y.key => x.files = y.files
    BY <1>1, <1>3 DEF FInv, KeyFiles
  <2>3. \A i \in DOMAIN turns' : ~turns'[i].torn =>
          /\ \A x \in InFlight' : x.key = turns'[i].key => \A f \in x.files : owner'[f] = i
          /\ turns'[i].key = draft' => \A f \in files' : owner'[f] = i
    BY <1>1, <1>3, <1>4 DEF FInv, KeyFiles
  <2> QED BY <1>4, <2>1, <2>2, <2>3 DEF FInv, KeyFiles
<1>6. FilesReachCodex' BY <1>4 DEF FInv, FilesReachCodex
<1> QED BY <1>5, <1>6 DEF FInv

LEMMA AnswerF ==
  ASSUME IInv, IInv', FInv, Created \/ Refused \/ CallFails \/ Reload
  PROVE  FInv'
<1>2. ASSUME NewDraftId PROVE draft' = keys + 1 /\ keys' = keys + 1
  BY <1>2 DEF NewDraftId
<1>3. CASE Created
  <2>1. InFlight' \subseteq InFlight BY <1>3 DEF Created, InFlight
  <2> QED BY <1>2, <1>3, <2>1, FilesKept DEF Created, KeepDraftId, server
<1>4. CASE Refused
  <2>1. InFlight' \subseteq InFlight BY <1>4 DEF Refused, InFlight
  <2> QED BY <1>4, <2>1, FilesKept DEF Refused, page, server, history
<1>5. CASE CallFails
  BY <1>5, AbandonedInFlight, FilesKept DEF CallFails, page, server, history
<1>6. CASE Reload
  <2>1. InFlight' \subseteq InFlight BY <1>6, AbandonedInFlight DEF Reload
  <2>2. CASE storage = Null
    BY <1>2, <1>6, <2>1, <2>2, FilesKept DEF Reload, server
  <2>3. CASE storage # Null
    <3>1. storage = [content |-> content, files |-> files, id |-> draft]
      BY <2>3 DEF IInv, StorageIsDraft
    <3>2. files' = files /\ draft' = draft /\ keys' = keys
      BY <1>6, <2>3, <3>1 DEF Reload
    <3> QED BY <1>6, <2>1, <3>2, FilesKept DEF Reload, server
  <2> QED BY <2>2, <2>3
<1> QED BY <1>3, <1>4, <1>5, <1>6

\* A request that makes a turn claims its files for it; one that finds its turn finds
\* them claimed.
LEMMA HandleF ==
  ASSUME IInv, IInv', FInv, NEW r \in InFlight, NEW t \in BOOLEAN,
         assertClaimable(r), createTurn(r, t),
         claim(r) \/ (t /\ owner' = owner),
         InFlight' \subseteq InFlight,
         UNCHANGED <<draft, files, keys, status>>
  PROVE  FInv'
<1>0. /\ r \in Request /\ r.files \subseteq File
      /\ turns \in Seq(Entry) /\ DOMAIN turns = 1..Len(turns) /\ Len(turns) \in Nat
      /\ owner \in [File -> 0..Len(turns)]
      /\ OneTurnPerKey
  BY InFlightRequests DEF IInv, Types, TypeOK, Request
<1>f. files \subseteq File /\ \A x \in InFlight : x.files \subseteq File
  BY InFlightRequests DEF IInv, Types, TypeOK, Request
<1>k. KeyFiles /\ FilesReachCodex BY DEF FInv
<1>1. \A f \in r.files : status[f] = "available" /\ owner[f] \in {0} \cup ExistingTurns(r)
  BY DEF assertClaimable
<1>2. CASE ExistingTurns(r) # {}
  <2>1. turns' = turns /\ TurnOf(r) \in ExistingTurns(r)
    BY <1>2 DEF createTurn, TurnOf
  <2> DEFINE m == TurnOf(r)
  <2>2. m \in DOMAIN turns /\ turns[m].key = r.key BY <2>1 DEF ExistingTurns
  <2>3. \A i \in ExistingTurns(r) : i = m
    BY <1>0, <2>2 DEF ExistingTurns, OneTurnPerKey
  <2>4. \A f \in File : owner'[f] = owner[f] \/ (f \in r.files /\ owner'[f] = m)
    BY DEF claim
  <2> HIDE DEF m
  <2>5. \A f \in File : owner[f] # 0 => owner'[f] = owner[f]
    BY <1>1, <2>3, <2>4
  <2>6. \A f \in File : owner'[f] # owner[f] => turns[m].torn
    BY <1>k, <2>2, <2>4 DEF KeyFiles
  <2>7. KeyFiles'
    <3>1. \A i \in DOMAIN turns' : ~turns'[i].torn =>
            /\ \A x \in InFlight' : x.key = turns'[i].key => \A f \in x.files : owner'[f] = i
            /\ turns'[i].key = draft' => \A f \in files' : owner'[f] = i
      <4> SUFFICES ASSUME NEW i \in DOMAIN turns, ~turns[i].torn, NEW f \in File, owner[f] = i
                   PROVE  owner'[f] = i
        BY <1>k, <1>f, <2>1 DEF KeyFiles
      <4>1. i # 0 BY <1>0
      <4> QED BY <2>5, <4>1
    <3>2. \A f \in File : owner'[f] # 0 => status'[f] # "none"
      BY <1>k, <1>1, <2>4 DEF KeyFiles
    <3> QED BY <1>k, <2>1, <3>1, <3>2 DEF KeyFiles
  <2>8. FilesReachCodex'
    <3> SUFFICES ASSUME NEW f \in File, NEW i \in DOMAIN turns, owner'[f] = i,
                        status[f] = "available", turns[i].prompt # Null, ~turns[i].torn
                 PROVE  f \in turns[i].prompt
      BY <2>1 DEF FilesReachCodex
    <3>1. owner[f] = i
      <4>1. CASE owner'[f] = owner[f] BY <4>1
      <4>2. CASE owner'[f] # owner[f] BY <2>4, <2>6, <4>2
      <4> QED BY <4>1, <4>2
    <3> QED BY <1>k, <3>1 DEF FilesReachCodex
  <2> QED BY <2>7, <2>8 DEF FInv
<1>3. CASE ExistingTurns(r) = {}
  <2> DEFINE e == [key |-> r.key, text |-> r.text, version |-> r.version,
                   prompt |-> Null, torn |-> t]
             m == Len(turns) + 1
  <2>1. e.key = r.key /\ e.torn = t /\ e.prompt = Null OBVIOUS
  <2>2. turns' = Append(turns, e) /\ TurnOf(r) = m BY <1>3 DEF createTurn, TurnOf
  <2> HIDE DEF e
  <2>3. /\ DOMAIN turns' = 1..m /\ turns'[m] = e
        /\ \A i \in DOMAIN turns : turns'[i] = turns[i] /\ i # m
        /\ \A i \in DOMAIN turns' : i \in DOMAIN turns \/ i = m
    BY <1>0, <2>2
  <2> HIDE DEF m
  <2>4. \A i \in DOMAIN turns : turns[i].key # r.key BY <1>3 DEF ExistingTurns
  <2>5. \A f \in r.files : owner[f] = 0 BY <1>1, <1>3
  <2>6. \A f \in File : owner'[f] = owner[f] \/ (f \in r.files /\ owner'[f] = m)
    BY <2>2 DEF claim
  <2>7. \A f \in File : owner[f] # 0 => owner'[f] = owner[f] BY <2>5, <2>6
  <2>8. ~t => \A f \in r.files : owner'[f] = m BY <1>0, <2>2 DEF claim
  <2>9. KeyFiles'
    <3>1. \A i \in DOMAIN turns' : ~turns'[i].torn =>
            /\ \A x \in InFlight' : x.key = turns'[i].key => \A f \in x.files : owner'[f] = i
            /\ turns'[i].key = draft' => \A f \in files' : owner'[f] = i
      <4> SUFFICES ASSUME NEW i \in DOMAIN turns', ~turns'[i].torn
                   PROVE  /\ \A x \in InFlight : x.key = turns'[i].key =>
                               \A f \in x.files : owner'[f] = i
                          /\ turns'[i].key = draft => \A f \in files : owner'[f] = i
        OBVIOUS
      <4>1. CASE i = m
        <5>1. turns'[i].key = r.key /\ ~t BY <2>1, <2>3, <4>1
        <5>2. \A x \in InFlight : x.key = r.key => x.files = r.files BY <1>k DEF KeyFiles
        <5>3. r.key = draft => r.files = files BY <1>k DEF KeyFiles
        <5> QED BY <2>8, <4>1, <5>1, <5>2, <5>3
      <4>2. CASE i \in DOMAIN turns
        <5>1. turns'[i] = turns[i] /\ i # 0 BY <1>0, <2>3, <4>2
        <5>2. \A f \in File : owner[f] = i => owner'[f] = i BY <2>7, <5>1
        <5> QED BY <1>k, <1>f, <4>2, <5>1, <5>2 DEF KeyFiles
      <4> QED BY <2>3, <4>1, <4>2
    <3>2. \A f \in File : owner'[f] # 0 => status'[f] # "none"
      BY <1>k, <1>1, <2>6 DEF KeyFiles
    <3>3. \A i \in DOMAIN turns' : turns'[i].key <= keys'
      BY <1>k, <2>1, <2>3 DEF KeyFiles
    <3> QED BY <1>k, <3>1, <3>2, <3>3 DEF KeyFiles
  <2>10. FilesReachCodex'
    <3> SUFFICES ASSUME NEW f \in File, NEW i \in DOMAIN turns', owner'[f] = i,
                        status[f] = "available", turns'[i].prompt # Null, ~turns'[i].torn
                 PROVE  f \in turns'[i].prompt
      BY DEF FilesReachCodex
    <3>1. i \in DOMAIN turns /\ i # m /\ turns'[i] = turns[i] BY <2>1, <2>3
    <3>2. owner[f] = i BY <2>6, <3>1
    <3> QED BY <1>k, <3>1, <3>2 DEF FilesReachCodex
  <2> QED BY <2>9, <2>10 DEF FInv
<1> QED BY <1>2, <1>3

LEMMA ServerF == ASSUME IInv, IInv', FInv, ServerStep PROVE FInv'
<1>1. CASE Answered
  <2>0. InFlight' \subseteq InFlight /\ awaited \in InFlight
    BY <1>1 DEF Answered, InFlight, busy
  <2>1. CASE Handle(awaited)
    BY <1>1, <2>0, <2>1, HandleF DEF Answered, Handle, page, history
  <2>2. CASE UNCHANGED <<turns, owner>>
    BY <1>1, <2>0, <2>2, FilesKept DEF Answered, page, history
  <2> QED BY <1>1, <2>1, <2>2 DEF Answered
<1>2. CASE Crash
  <2>0. InFlight' \subseteq InFlight /\ awaited \in InFlight
    BY <1>2 DEF Crash, InFlight, busy
  <2> QED BY <1>2, <2>0, HandleF DEF Crash, page, history
<1>3. ASSUME NEW c \in strays, StrayArrives(c) PROVE FInv'
  <2>0. InFlight' \subseteq InFlight /\ c \in InFlight
    BY <1>3 DEF StrayArrives, InFlight
  <2> QED BY <1>3, <2>0, HandleF DEF StrayArrives, Handle, page, history
<1>4. ASSUME NEW i \in DOMAIN turns, Begin(i) PROVE FInv'
  <2>0. UNCHANGED <<draft, files, keys, owner, status, awaited, strays>>
    BY <1>4 DEF Begin, page, network, history
  <2>1. turns \in Seq(Entry) /\ \A n \in DOMAIN turns : turns[n] \in Entry
    BY DEF IInv, Types
  <2>2. /\ DOMAIN turns' = DOMAIN turns
        /\ \A n \in DOMAIN turns : n # i => turns'[n] = turns[n]
        /\ turns'[i] = [turns[i] EXCEPT !.prompt = promptForTurn(i)]
    BY <1>4, <2>1 DEF Begin
  <2>3. /\ turns'[i].key = turns[i].key /\ turns'[i].torn = turns[i].torn
        /\ turns'[i].prompt = promptForTurn(i)
    BY <2>1, <2>2 DEF Entry
  <2>4. \A n \in DOMAIN turns : turns'[n].key = turns[n].key /\ turns'[n].torn = turns[n].torn
    BY <2>2, <2>3
  <2>5. InFlight' = InFlight BY <2>0 DEF InFlight
  <2>6. KeyFiles' BY <2>0, <2>2, <2>4, <2>5 DEF FInv, KeyFiles
  <2>7. FilesReachCodex'
    <3> SUFFICES ASSUME NEW f \in File, NEW n \in DOMAIN turns, owner[f] = n,
                        status[f] = "available", turns'[n].prompt # Null, ~turns'[n].torn
                 PROVE  f \in turns'[n].prompt
      BY <2>0, <2>2 DEF FilesReachCodex
    <3>1. CASE n = i BY <2>3, <3>1 DEF promptForTurn
    <3>2. CASE n # i BY <2>2, <3>2 DEF FInv, FilesReachCodex
    <3> QED BY <3>1, <3>2
  <2> QED BY <2>6, <2>7 DEF FInv
<1>5. ASSUME NEW f \in File, Expire(f) PROVE FInv'
  <2>1. InFlight' \subseteq InFlight BY <1>5 DEF Expire, network, InFlight
  <2>2. \A g \in File : status[g] # "none" =>
          status'[g] # "none" /\ (status'[g] = "available" => status[g] = "available")
    BY <1>5 DEF Expire, IInv, Types, TypeOK
  <2> QED BY <1>5, <2>1, <2>2, FilesKept DEF Expire, page, history
<1> QED BY <1>1, <1>2, <1>3, <1>4, <1>5 DEF ServerStep

LEMMA InitF == Init => FInv
<1> SUFFICES ASSUME Init PROVE FInv
  OBVIOUS
<1>1. InFlight = {} /\ DOMAIN turns = {} /\ draft <= keys BY DEF Init, InFlight
<1> QED BY <1>1 DEF Init, FInv, KeyFiles, FilesReachCodex

LEMMA StepF == IInv /\ IInv' /\ FInv /\ [Next]_vars => FInv'
<1> SUFFICES ASSUME IInv, IInv', FInv, [Next]_vars PROVE FInv'
  OBVIOUS
<1>1. CASE UNCHANGED vars
  <2>1. InFlight' = InFlight BY <1>1 DEF vars, network, InFlight
  <2> QED BY <1>1, <2>1, FilesKept DEF vars, page, server, history
<1> QED BY <1>1, DraftF, SendF, AnswerF, ServerF DEF Next, PageStep

THEOREM FilesInvariant == Spec => []FInv
BY InitF, StepF, Invariant, PTL DEF Spec

\* No file is added to a turn too late: what a turn that has begun has claimed was in
\* its prompt, however often its draft is sent and whatever answers are lost.
THEOREM FilesReachCodexCorrect == Spec => []FilesReachCodex
<1>1. FInv => FilesReachCodex BY DEF FInv
<1> QED BY <1>1, FilesInvariant, PTL

-----------------------------------------------------------------------------
\* What the answer says of the draft

\* Version v with text w was sent under draft id k.
Carried(k, v, w) ==
  \/ \E x \in InFlight : x.key = k /\ x.version = v /\ x.text = w
  \/ \E i \in DOMAIN turns : turns[i].key = k /\ turns[i].version = v /\ turns[i].text = w

\* While the page knows whether its id was submitted, the id stands for what is in the
\* composer, and what a request waits for is what was sent under its id before.
IdIsText ==
  /\ submitted # Null => submitted = content
  /\ ~forgotten => \A v, w : Carried(draft, v, w) =>
       submitted # Null /\ v = version /\ w = content
  /\ busy /\ ~awaited.stale => \A v, w : Carried(awaited.key, v, w) =>
       v = awaited.version /\ w = awaited.text
  /\ busy /\ awaited.key # draft => \A v, w : ~Carried(draft, v, w)

\* An answer is true: the turn is there, and has the files.
AnswerIsTrue ==
  answer = "created" =>
    /\ busy
    /\ \E i \in DOMAIN turns : /\ turns[i].key = awaited.key
                               /\ \A f \in awaited.files : owner[f] = i

LInv == IdIsText /\ AnswerIsTrue

-----------------------------------------------------------------------------
\* A new draft id is one that nothing carries.
LEMMA NothingCarried ==
  ASSUME IInv, FInv, NewDraftId
  PROVE  \A v, w : ~Carried(draft', v, w)
<1>1. draft' = keys + 1 /\ keys \in Nat
  BY DEF NewDraftId, IInv, Types, TypeOK, Key
<1>2. /\ \A x \in InFlight : x.key <= keys
      /\ \A i \in DOMAIN turns : turns[i].key <= keys
  BY DEF FInv, KeyFiles
<1> QED BY <1>1, <1>2 DEF Carried

LEMMA CarriedKept ==
  ASSUME InFlight' \subseteq InFlight, turns' = turns
  PROVE  \A k, v, w : Carried(k, v, w)' => Carried(k, v, w)
BY DEF Carried

LEMMA NetworkCarried ==
  ASSUME network' = network, turns' = turns
  PROVE  \A k, v, w : Carried(k, v, w)' => Carried(k, v, w)
<1>1. InFlight' = InFlight BY DEF network, InFlight
<1> QED BY <1>1, CarriedKept

\* What is waited for stays; the draft keeps its id and text, or has a new id, or one
\* that was never sent.
LEMMA TextKept ==
  ASSUME LInv, \A k, v, w : Carried(k, v, w)' => Carried(k, v, w),
         awaited' = awaited,
         submitted' # Null => submitted' = content',
         \/ /\ UNCHANGED <<draft, forgotten>>
            /\ \/ UNCHANGED <<submitted, content, version>>
               \/ submitted = Null
         \/ \A v, w : ~Carried(draft', v, w)
  PROVE  IdIsText'
<1>1. /\ ~forgotten => \A v, w : Carried(draft, v, w) =>
           submitted # Null /\ v = version /\ w = content
      /\ busy /\ ~awaited.stale => \A v, w : Carried(awaited.key, v, w) =>
           v = awaited.version /\ w = awaited.text
      /\ busy /\ awaited.key # draft => \A v, w : ~Carried(draft, v, w)
  BY DEF LInv, IdIsText
<1>2. ~forgotten' => \A v, w : Carried(draft, v, w)' =>
        submitted' # Null /\ v = version' /\ w = content'
  BY <1>1
<1>3. busy' /\ ~awaited'.stale => \A v, w : Carried(awaited.key, v, w)' =>
        v = awaited'.version /\ w = awaited'.text
  BY <1>1 DEF busy
<1>4. busy' /\ awaited'.key # draft' => \A v, w : ~Carried(draft, v, w)'
  BY <1>1 DEF busy
<1> QED BY <1>2, <1>3, <1>4 DEF IdIsText

\* Nobody waits any more, and the id of the draft is new, or what it was.
LEMMA TextDone ==
  ASSUME LInv, \A k, v, w : Carried(k, v, w)' => Carried(k, v, w),
         awaited' = Null,
         submitted' # Null => submitted' = content',
         \/ UNCHANGED <<draft, forgotten, submitted, content, version>>
         \/ forgotten'
         \/ \A v, w : ~Carried(draft', v, w)
  PROVE  IdIsText'
<1>1. ~forgotten => \A v, w : Carried(draft, v, w) =>
        submitted # Null /\ v = version /\ w = content
  BY DEF LInv, IdIsText
<1>2. ~forgotten' => \A v, w : Carried(draft, v, w)' =>
        submitted' # Null /\ v = version' /\ w = content'
  BY <1>1
<1> QED BY <1>2 DEF IdIsText, busy

LEMMA DraftL ==
  ASSUME IInv, FInv, LInv,
         \/ UserStep
         \/ \E f \in File : UploadDone(f)
         \/ UploadFails
  PROVE  LInv'
<1>0. submitted # Null => submitted = content BY DEF LInv, IdIsText
<1>1. ASSUME network' = network, turns' = turns, owner' = owner PROVE AnswerIsTrue'
  BY <1>1 DEF LInv, AnswerIsTrue, network, busy
<1>2. ASSUME NEW value \in Content, updateContent(value) PROVE LInv'
  <2>1. network' = network /\ turns' = turns /\ owner' = owner
    BY <1>2 DEF updateContent, server
  <2>2. awaited' = awaited BY <2>1 DEF network
  <2>3. CASE SameMessage(value)
    <3>1. submitted = Null /\ submitted' = Null /\ UNCHANGED <<draft, forgotten>>
      BY <1>0, <1>2, <2>3 DEF updateContent, SameMessage, KeepDraftId
    <3>2. IdIsText' BY <2>1, <2>2, <3>1, NetworkCarried, TextKept
    <3> QED BY <1>1, <2>1, <3>2 DEF LInv
  <2>4. CASE ~SameMessage(value)
    <3>1. submitted' = Null /\ NewDraftId BY <1>2, <2>4 DEF updateContent
    <3>2. IdIsText' BY <2>1, <2>2, <3>1, NothingCarried, NetworkCarried, TextKept
    <3> QED BY <1>1, <2>1, <3>2 DEF LInv
  <2> QED BY <2>3, <2>4
<1>3. CASE uploadFiles \/ UploadFails
  <2>1. /\ network' = network /\ turns' = turns /\ owner' = owner
        /\ UNCHANGED <<draft, forgotten, submitted, content, version>>
    BY <1>3 DEF uploadFiles, UploadFails, server, history
  <2>2. awaited' = awaited BY <2>1 DEF network
  <2>3. IdIsText' BY <1>0, <2>1, <2>2, NetworkCarried, TextKept
  <2> QED BY <1>1, <2>1, <2>3 DEF LInv
<1>4. CASE executionPreferenceChanged
  <2>1. /\ network' = network /\ turns' = turns /\ owner' = owner
        /\ NewDraftId /\ submitted' = Null
    BY <1>4 DEF executionPreferenceChanged, server
  <2>2. awaited' = awaited BY <2>1 DEF network
  <2>3. IdIsText' BY <2>1, <2>2, NothingCarried, NetworkCarried, TextKept
  <2> QED BY <1>1, <2>1, <2>3 DEF LInv
<1>5. ASSUME NEW f \in File, removePendingAttachment(f) \/ UploadDone(f) PROVE LInv'
  <2>1. /\ network' = network /\ turns' = turns /\ owner' = owner
        /\ NewDraftId /\ UNCHANGED <<submitted, content>>
    BY <1>5 DEF removePendingAttachment, UploadDone, FilesChanged, server
  <2>2. awaited' = awaited BY <2>1 DEF network
  <2>3. IdIsText' BY <1>0, <2>1, <2>2, NothingCarried, NetworkCarried, TextKept
  <2> QED BY <1>1, <2>1, <2>3 DEF LInv
<1> QED BY <1>2, <1>3, <1>4, <1>5 DEF UserStep

\* The draft is sent under its id, and with that the id stands for it.
LEMMA SendL == ASSUME IInv, LInv, send PROVE LInv'
<1> DEFINE c == [key |-> draft, text |-> content, files |-> files, version |-> version,
                 stale |-> forgotten]
<1>1. c.key = draft /\ c.text = content /\ c.version = version /\ c.stale = forgotten
  OBVIOUS
<1>2. awaited = Null /\ awaited' = c /\ strays' = strays BY DEF send, busy
<1> HIDE DEF c
<1>3. \A x \in InFlight' : x \in InFlight \/ x = c BY <1>2 DEF InFlight
<1>4. UNCHANGED <<draft, content, version, forgotten, turns, answer>> BY DEF send, server
<1>5. submitted' = content BY DEF send
<1>6. \A v, w : Carried(draft, v, w)' => Carried(draft, v, w) \/ (v = version /\ w = content)
  BY <1>1, <1>3, <1>4 DEF Carried
<1>7. ~forgotten => \A v, w : Carried(draft, v, w) => submitted # Null /\ v = version /\ w = content
  BY DEF LInv, IdIsText
<1>8. ~forgotten => \A v, w : Carried(draft, v, w)' => v = version /\ w = content
  BY <1>6, <1>7
<1>9. content # Null
  BY ComposerAssumption DEF IInv, Types, TypeOK, Content
<1>10. IdIsText'
  BY <1>1, <1>2, <1>4, <1>5, <1>8, <1>9 DEF IdIsText
<1>11. AnswerIsTrue'
  BY <1>2, <1>4 DEF LInv, AnswerIsTrue, busy
<1> QED BY <1>10, <1>11 DEF LInv

LEMMA AnswerL ==
  ASSUME IInv, FInv, LInv, Created \/ Refused \/ CallFails \/ Reload
  PROVE  LInv'
<1>0. /\ submitted # Null => submitted = content
      /\ ~forgotten => \A v, w : Carried(draft, v, w) =>
           submitted # Null /\ v = version /\ w = content
      /\ busy /\ awaited.key # draft => \A v, w : ~Carried(draft, v, w)
  BY DEF LInv, IdIsText
<1>1. AnswerIsTrue' BY DEF Created, Refused, CallFails, Reload, AnswerIsTrue
<1>2. CASE Created
  <2>1. /\ InFlight' \subseteq InFlight /\ turns' = turns
        /\ awaited' = Null /\ submitted' = Null
    BY <1>2 DEF Created, InFlight, server
  <2>2. CASE Unchanged
    <3>1. NewDraftId BY <1>2, <2>2 DEF Created
    <3>2. IdIsText' BY <2>1, <3>1, CarriedKept, NothingCarried, TextDone
    <3> QED BY <1>1, <3>2 DEF LInv
  <2>3. CASE ~Unchanged
    <3>1. UNCHANGED <<draft, forgotten>> BY <1>2, <2>3 DEF Created, KeepDraftId
    <3>2. busy /\ awaited \in InFlight
      BY <1>2 DEF Created, LInv, AnswerIsTrue, busy, InFlight
    <3>3. CASE awaited.key # draft
      <4>1. \A v, w : ~Carried(draft', v, w) BY <1>0, <3>1, <3>2, <3>3
      <4>2. IdIsText' BY <2>1, <4>1, CarriedKept, TextDone
      <4> QED BY <1>1, <4>2 DEF LInv
    <3>4. CASE awaited.key = draft
      <4>1. awaited.files = files BY <3>2, <3>4 DEF FInv, KeyFiles
      <4>2. Carried(draft, awaited.version, awaited.text) BY <3>2, <3>4 DEF Carried
      <4>3. forgotten BY <1>0, <2>3, <4>1, <4>2 DEF Unchanged
      <4>4. IdIsText' BY <2>1, <3>1, <4>3, CarriedKept, TextDone
      <4> QED BY <1>1, <4>4 DEF LInv
    <3> QED BY <3>3, <3>4
  <2> QED BY <2>2, <2>3
<1>3. CASE Refused \/ CallFails
  <2>1. UNCHANGED <<draft, forgotten, submitted, content, version, turns>> /\ awaited' = Null
    BY <1>3 DEF Refused, CallFails, page, history, server
  <2>2. InFlight' \subseteq InFlight
    BY <1>3, AbandonedInFlight DEF Refused, CallFails, InFlight
  <2>3. IdIsText' BY <1>0, <2>1, <2>2, CarriedKept, TextDone
  <2> QED BY <1>1, <2>3 DEF LInv
<1>4. CASE Reload
  <2>1. /\ InFlight' \subseteq InFlight /\ turns' = turns
        /\ awaited' = Null /\ submitted' = Null
    BY <1>4, AbandonedInFlight DEF Reload, server
  <2>2. \/ forgotten'
        \/ \A v, w : ~Carried(draft', v, w)
    <3>1. CASE storage = Null
      <4>1. NewDraftId BY <1>4, <3>1 DEF Reload
      <4> QED BY <4>1, NothingCarried
    <3>2. CASE storage # Null
      <4>1. draft' = draft /\ forgotten' = (forgotten \/ submitted # Null)
        BY <1>4, <3>2 DEF Reload, IInv, StorageIsDraft
      <4>2. CASE ~forgotten /\ submitted = Null BY <1>0, <4>1, <4>2
      <4>3. CASE forgotten \/ submitted # Null BY <4>1, <4>3
      <4> QED BY <4>2, <4>3
    <3> QED BY <3>1, <3>2
  <2>3. IdIsText' BY <2>1, <2>2, CarriedKept, TextDone
  <2> QED BY <1>1, <2>3 DEF LInv
<1> QED BY <1>2, <1>3, <1>4

-----------------------------------------------------------------------------
\* A turn carries what its request carried; turns and the claims on files stay.
LEMMA HandleL ==
  ASSUME IInv, NEW r \in InFlight, NEW t \in BOOLEAN, createTurn(r, t),
         InFlight' \subseteq InFlight
  PROVE  /\ \A k, v, w : Carried(k, v, w)' => Carried(k, v, w)
         /\ \A i \in DOMAIN turns : i \in DOMAIN turns' /\ turns'[i] = turns[i]
         /\ TurnOf(r) \in DOMAIN turns' /\ turns'[TurnOf(r)].key = r.key
<1>0. /\ turns \in Seq(Entry) /\ DOMAIN turns = 1..Len(turns) /\ Len(turns) \in Nat
  BY DEF IInv, Types
<1>1. CASE ExistingTurns(r) # {}
  <2>1. turns' = turns BY <1>1 DEF createTurn
  <2>2. TurnOf(r) \in ExistingTurns(r) BY <1>1 DEF TurnOf
  <2> QED BY <2>1, <2>2, CarriedKept DEF ExistingTurns
<1>2. CASE ExistingTurns(r) = {}
  <2> DEFINE e == [key |-> r.key, text |-> r.text, version |-> r.version,
                   prompt |-> Null, torn |-> t]
             m == Len(turns) + 1
  <2>1. e.key = r.key /\ e.text = r.text /\ e.version = r.version OBVIOUS
  <2>2. turns' = Append(turns, e) /\ TurnOf(r) = m BY <1>2 DEF createTurn, TurnOf
  <2> HIDE DEF e
  <2>3. /\ m \in DOMAIN turns' /\ turns'[m] = e
        /\ \A i \in DOMAIN turns : i \in DOMAIN turns' /\ turns'[i] = turns[i]
        /\ \A i \in DOMAIN turns' : i \in DOMAIN turns \/ i = m
    BY <1>0, <2>2
  <2> HIDE DEF m
  <2>4. \A k, v, w : Carried(k, v, w)' => Carried(k, v, w)
    BY <2>1, <2>3 DEF Carried
  <2> QED BY <2>1, <2>2, <2>3, <2>4
<1> QED BY <1>1, <1>2

LEMMA ServerL == ASSUME IInv, FInv, LInv, ServerStep PROVE LInv'
<1>0. submitted # Null => submitted = content BY DEF LInv, IdIsText
<1>1. CASE Answered
  <2>0. /\ InFlight' \subseteq InFlight /\ awaited \in InFlight /\ awaited' = awaited /\ busy
        /\ UNCHANGED <<draft, forgotten, submitted, content, version>>
    BY <1>1 DEF Answered, InFlight, busy, page, history
  <2>1. CASE answer' = "created" /\ Handle(awaited)
    <3>1. /\ \A k, v, w : Carried(k, v, w)' => Carried(k, v, w)
          /\ TurnOf(awaited) \in DOMAIN turns' /\ turns'[TurnOf(awaited)].key = awaited.key
      BY <2>0, <2>1, HandleL DEF Handle
    <3>2. IdIsText' BY <1>0, <2>0, <3>1, TextKept
    <3>3. awaited.files \subseteq File
      BY <2>0, InFlightRequests DEF Request
    <3>4. \A f \in awaited.files : owner'[f] = TurnOf(awaited)
      BY <2>1, <3>3 DEF Handle, claim
    <3>5. AnswerIsTrue' BY <2>0, <3>1, <3>4 DEF AnswerIsTrue, busy
    <3> QED BY <3>2, <3>5 DEF LInv
  <2>2. CASE answer' = "refused" /\ UNCHANGED <<turns, owner>>
    <3>1. IdIsText' BY <1>0, <2>0, <2>2, CarriedKept, TextKept
    <3> QED BY <2>2, <3>1 DEF LInv, AnswerIsTrue
  <2> QED BY <1>1, <2>1, <2>2 DEF Answered
<1>2. CASE Crash
  <2>0. /\ InFlight' \subseteq InFlight /\ awaited \in InFlight /\ awaited' = Null
        /\ answer' = "none" /\ createTurn(awaited, TRUE)
        /\ UNCHANGED <<draft, forgotten, submitted, content, version>>
    BY <1>2 DEF Crash, InFlight, busy, page, history
  <2>1. IdIsText' BY <1>0, <2>0, HandleL, TextDone
  <2> QED BY <2>0, <2>1 DEF LInv, AnswerIsTrue
<1>3. ASSUME NEW c \in strays, StrayArrives(c) PROVE LInv'
  <2>0. /\ InFlight' \subseteq InFlight /\ c \in InFlight /\ awaited' = awaited
        /\ createTurn(c, FALSE) /\ answer' = answer
        /\ UNCHANGED <<draft, forgotten, submitted, content, version>>
    BY <1>3 DEF StrayArrives, InFlight, Handle, page, history
  <2>1. /\ \A k, v, w : Carried(k, v, w)' => Carried(k, v, w)
        /\ \A i \in DOMAIN turns : i \in DOMAIN turns' /\ turns'[i] = turns[i]
    BY <2>0, HandleL
  <2>2. IdIsText' BY <1>0, <2>0, <2>1, TextKept
  <2>3. ASSUME answer = "created" PROVE AnswerIsTrue'
    <3>1. busy BY <2>3 DEF LInv, AnswerIsTrue
    <3>2. PICK i \in DOMAIN turns : /\ turns[i].key = awaited.key
                                    /\ \A f \in awaited.files : owner[f] = i
      BY <2>3 DEF LInv, AnswerIsTrue
    <3>3. awaited.files \subseteq File
      BY <3>1, InFlightRequests DEF Request, InFlight, busy
    <3>4. i # 0 BY DEF IInv, Types
    <3>5. \A f \in awaited.files : owner'[f] = i
      <4> SUFFICES ASSUME NEW f \in awaited.files PROVE owner'[f] = i
        OBVIOUS
      <4>1. owner[f] = i /\ f \in File BY <3>2, <3>3
      <4>2. owner'[f] = IF f \in c.files THEN TurnOf(c) ELSE owner[f]
        BY <1>3, <4>1 DEF StrayArrives, Handle, claim
      <4>3. CASE f \in c.files
        <5>1. i \in ExistingTurns(c)
          BY <1>3, <3>4, <4>1, <4>3 DEF StrayArrives, Handle, assertClaimable
        <5>2. TurnOf(c) \in ExistingTurns(c) BY <5>1 DEF TurnOf
        <5>3. TurnOf(c) = i BY <5>1, <5>2 DEF IInv, OneTurnPerKey, ExistingTurns
        <5> QED BY <4>2, <4>3, <5>3
      <4> QED BY <4>1, <4>2, <4>3
    <3> QED BY <2>0, <2>1, <3>1, <3>2, <3>5 DEF AnswerIsTrue, busy
  <2>4. AnswerIsTrue'
    <3>1. CASE answer = "created" BY <2>3, <3>1
    <3>2. CASE answer # "created" BY <2>0, <3>2 DEF AnswerIsTrue
    <3> QED BY <3>1, <3>2
  <2> QED BY <2>2, <2>4 DEF LInv
<1>4. ASSUME NEW n \in DOMAIN turns, Begin(n) PROVE LInv'
  <2>0. UNCHANGED <<draft, forgotten, submitted, content, version, owner, awaited, strays,
                    answer>>
    BY <1>4 DEF Begin, page, network, history
  <2>1. turns \in Seq(Entry) /\ \A i \in DOMAIN turns : turns[i] \in Entry
    BY DEF IInv, Types
  <2>2. /\ DOMAIN turns' = DOMAIN turns
        /\ \A i \in DOMAIN turns : i # n => turns'[i] = turns[i]
        /\ turns'[n] = [turns[n] EXCEPT !.prompt = promptForTurn(n)]
    BY <1>4, <2>1 DEF Begin
  <2>3. /\ turns'[n].key = turns[n].key /\ turns'[n].text = turns[n].text
        /\ turns'[n].version = turns[n].version
    BY <2>1, <2>2 DEF Entry
  <2>4. \A i \in DOMAIN turns : /\ turns'[i].key = turns[i].key
                                /\ turns'[i].text = turns[i].text
                                /\ turns'[i].version = turns[i].version
    BY <2>2, <2>3
  <2>5. InFlight' = InFlight BY <2>0 DEF InFlight
  <2>6. \A k, v, w : Carried(k, v, w)' => Carried(k, v, w) BY <2>2, <2>4, <2>5 DEF Carried
  <2>7. IdIsText' BY <1>0, <2>0, <2>6, TextKept
  <2>8. AnswerIsTrue' BY <2>0, <2>2, <2>4 DEF LInv, AnswerIsTrue, busy
  <2> QED BY <2>7, <2>8 DEF LInv
<1>5. ASSUME NEW f \in File, Expire(f) PROVE LInv'
  <2>1. /\ network' = network /\ turns' = turns /\ owner' = owner
        /\ UNCHANGED <<draft, forgotten, submitted, content, version>>
    BY <1>5 DEF Expire, page, history
  <2>2. awaited' = awaited /\ answer' = answer BY <2>1 DEF network
  <2>3. IdIsText' BY <1>0, <2>1, <2>2, NetworkCarried, TextKept
  <2>4. AnswerIsTrue' BY <2>1, <2>2 DEF LInv, AnswerIsTrue, busy
  <2> QED BY <2>3, <2>4 DEF LInv
<1> QED BY <1>1, <1>2, <1>3, <1>4, <1>5 DEF ServerStep

LEMMA InitL == Init => LInv
<1> SUFFICES ASSUME Init PROVE LInv
  OBVIOUS
<1>1. InFlight = {} /\ DOMAIN turns = {} BY DEF Init, InFlight
<1> QED BY <1>1 DEF Init, LInv, IdIsText, AnswerIsTrue, Carried, busy

LEMMA StepL == IInv /\ FInv /\ LInv /\ [Next]_vars => LInv'
<1> SUFFICES ASSUME IInv, FInv, LInv, [Next]_vars PROVE LInv'
  OBVIOUS
<1>1. CASE UNCHANGED vars
  <2>1. /\ network' = network /\ turns' = turns /\ owner' = owner
        /\ UNCHANGED <<draft, forgotten, submitted, content, version>>
    BY <1>1 DEF vars, page, history, server
  <2>2. awaited' = awaited /\ answer' = answer BY <2>1 DEF network
  <2>3. submitted # Null => submitted = content BY DEF LInv, IdIsText
  <2>4. IdIsText' BY <2>1, <2>2, <2>3, NetworkCarried, TextKept
  <2>5. AnswerIsTrue' BY <2>1, <2>2 DEF LInv, AnswerIsTrue, busy
  <2> QED BY <2>4, <2>5 DEF LInv
<1> QED BY <1>1, DraftL, SendL, AnswerL, ServerL DEF Next, PageStep

THEOREM DraftInvariant == Spec => []LInv
BY InitL, StepL, Invariant, FilesInvariant, PTL DEF Spec

-----------------------------------------------------------------------------
\* An answer empties the composer only of what its turn has.
LEMMA CreatedKeeps ==
  ASSUME IInv, LInv, Created
  PROVE  (busy /\ (awaited.stale \/ Kept)) \/ (content' = content /\ files' = files)
<1>1. CASE Unchanged /\ ~awaited.stale
  <2>1. busy BY DEF Created, LInv, AnswerIsTrue
  <2>2. PICK i \in DOMAIN turns : /\ turns[i].key = awaited.key
                                  /\ \A f \in awaited.files : owner[f] = i
    BY DEF Created, LInv, AnswerIsTrue
  <2>3. Carried(awaited.key, turns[i].version, turns[i].text) BY <2>2 DEF Carried
  <2>4. turns[i].version = awaited.version /\ turns[i].text = awaited.text
    BY <1>1, <2>1, <2>3 DEF LInv, IdIsText
  <2>5. Kept BY <1>1, <2>2, <2>4 DEF Unchanged, Kept
  <2> QED BY <2>1, <2>5
<1>2. CASE Unchanged /\ awaited.stale
  BY <1>2 DEF Created, LInv, AnswerIsTrue
<1>3. CASE ~Unchanged
  BY <1>3 DEF Created
<1> QED BY <1>1, <1>2, <1>3

\* The draft leaves the page by the user's hand, or because the server has a turn with
\* it: not by an answer that belongs to an earlier message, and not by a reload.
THEOREM NothingLostCorrect == Spec => NothingLost
<1> DEFINE Lost == UserStep \/ (busy /\ (awaited.stale \/ Kept))
                            \/ (content' = content /\ files \subseteq files')
<1>1. IInv /\ LInv /\ [Next]_vars => [Lost]_vars
  <2> SUFFICES ASSUME IInv, LInv, Next PROVE Lost
    OBVIOUS
  <2>1. CASE PageStep
    <3>1. ASSUME NEW f \in File, UploadDone(f) PROVE Lost BY <3>1 DEF UploadDone
    <3>2. CASE UploadFails \/ send BY <3>2 DEF UploadFails, send
    <3>3. CASE Created BY <3>3, CreatedKeeps
    <3>4. CASE Refused \/ CallFails BY <3>4 DEF Refused, CallFails, page
    <3>5. CASE Reload
      <4>1. CASE storage = Null
        <5>1. content = Empty /\ files = {}
          <6>1. [content |-> content, files |-> files, id |-> draft] \in Draft
            BY DEF Draft, IInv, Types, TypeOK
          <6> QED BY <4>1, <6>1, NullAssumption DEF IInv, StorageIsDraft
        <5> QED BY <3>5, <4>1, <5>1 DEF Reload
      <4>2. CASE storage # Null BY <3>5, <4>2 DEF Reload, IInv, StorageIsDraft
      <4> QED BY <4>1, <4>2
    <3> QED BY <2>1, <3>1, <3>2, <3>3, <3>4, <3>5 DEF PageStep
  <2>2. CASE ServerStep
    <3>1. page' = page
      BY <2>2 DEF ServerStep, Answered, Crash, StrayArrives, Begin, Expire
    <3> QED BY <3>1 DEF page
  <2> QED BY <2>1, <2>2 DEF Next
<1> QED BY <1>1, Invariant, DraftInvariant, PTL DEF Spec, NothingLost
=============================================================================
