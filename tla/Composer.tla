------------------------------ MODULE Composer ------------------------------
(***************************************************************************)
(* The message composer of the web application and what the server makes   *)
(* of its requests: a draft is kept across reloads, uploaded files are     *)
(* attached to it, and it is sent under an id of its own (clientMessageId, *)
(* the ingress key of the turn), so that it can be sent again when the     *)
(* answer was lost.                                                        *)
(*                                                                         *)
(* A text stands for the trimmed content; a file for one uploaded.  The    *)
(* network may lose a request, its answer, or deliver it after the page    *)
(* has given up.  The order in which turns run is TurnDispatch's.          *)
(***************************************************************************)
EXTENDS Naturals, Sequences

CONSTANTS
  Text,       \* trimmed contents other than the empty one
  MaxFiles,   \* bound: files uploaded
  MaxKeys,    \* bound: draft ids
  Faults,     \* sets of events: a behaviour performs those of one of them
  MaxFaults,  \* bound: lost calls, reloads and crashes
  Empty, Null \* the empty content; null

File == 1..MaxFiles
Key == 1..MaxKeys

ASSUME ComposerAssumption ==
  /\ MaxFiles \in Nat /\ MaxKeys \in Nat \ {0} /\ MaxFaults \in Nat
  /\ Empty \notin Text /\ Null \notin Text \cup {Empty}

VARIABLES
  \* the page
  content, files,  \* the draft: text and pendingAttachments
  draft,           \* draftId
  submitted,       \* submittedContent
  uploading,
  \* localStorage
  storage,
  \* the network
  awaited,         \* the request `send' waits for; the composer is busy
  answer,          \* what the server made of it
  strays,          \* requests nobody waits for any more
  \* the database
  turns,           \* the turns created, with the files in the prompt once begun
  status, owner,   \* of an attachment: its status, the turn that claimed it (0: none)
  \* history and bounds
  keys,            \* draft ids drawn
  version,         \* what the user composed; renewed by his first change after it was sent
  sent,            \* this version was sent
  forgotten,       \* the page does not know that its draftId was submitted
  faults, env

page == <<content, files, draft, submitted, uploading>>
network == <<awaited, answer, strays>>
server == <<turns, status, owner>>
history == <<keys, version, sent, forgotten>>
vars == <<page, storage, network, server, history, faults, env>>

Content == Text \cup {Empty}
Request == [key : Key, text : Content, files : SUBSET File, version : Nat,
            stale : BOOLEAN]
Draft == [content : Content, files : SUBSET File, id : Key]

ASSUME NullAssumption == Null \notin Draft

TypeOK ==
  /\ content \in Content /\ files \subseteq File
  /\ draft \in Key /\ submitted \in Content \cup {Null} /\ uploading \in BOOLEAN
  /\ storage = Null \/ storage \in Draft
  /\ awaited = Null \/ awaited \in Request
  /\ answer \in {"none", "created", "refused"}
  /\ \A c \in strays : c \in Request
  /\ \A i \in DOMAIN turns : /\ turns[i].key \in Key /\ turns[i].text \in Content
                             /\ turns[i].version \in Nat /\ turns[i].torn \in BOOLEAN
                             /\ turns[i].prompt = Null \/ turns[i].prompt \subseteq File
  /\ status \in [File -> {"none", "available", "expired"}]
  /\ owner \in [File -> 0..Len(turns)]
  /\ keys \in Key /\ version \in Nat /\ sent \in BOOLEAN /\ forgotten \in BOOLEAN
  /\ faults \in 0..MaxFaults /\ env \in Faults

Init ==
  /\ content = Empty /\ files = {} /\ draft = 1 /\ submitted = Null /\ uploading = FALSE
  /\ storage = Null
  /\ awaited = Null /\ answer = "none" /\ strays = {}
  /\ turns = <<>> /\ status = [f \in File |-> "none"] /\ owner = [f \in File |-> 0]
  /\ keys = 1 /\ version = 1 /\ sent = FALSE /\ forgotten = FALSE
  /\ faults = 0 /\ env \in Faults

Fault(kind) == kind \in env /\ faults < MaxFaults /\ faults' = faults + 1
busy == awaited # Null

-----------------------------------------------------------------------------
\* Operators named ...Mutant are wrong on purpose: each stands for a plausible
\* slip in the operator after it, and shows which property would catch it.

\* draftId = crypto.randomUUID()
NewDraftId ==
  /\ keys < MaxKeys /\ keys' = keys + 1
  /\ draft' = keys + 1
  /\ forgotten' = FALSE
KeepDraftId == UNCHANGED <<keys, draft, forgotten>>

\* The user has changed the draft.
Changed == /\ version' = version + (IF sent THEN 1 ELSE 0)
           /\ sent' = FALSE

\* persistDraft
persistDraft(text, fs) == storage' = [content |-> text, files |-> fs, id |-> draft']

\* updateContent: a text other than the submitted one makes another message.
SameMessageMutant(value) == TRUE
SameMessage(value) == submitted = Null \/ value = submitted
updateContent(value) ==
  /\ value # content
  /\ content' = value
  /\ IF SameMessage(value) THEN KeepDraftId /\ UNCHANGED submitted
     ELSE NewDraftId /\ submitted' = Null
  /\ Changed /\ persistDraft(value, files)
  /\ UNCHANGED <<files, uploading, network, server, faults, env>>

\* uploadFiles, with a file.
uploadFiles ==
  /\ ~busy /\ ~uploading /\ \E f \in File : status[f] = "none"
  /\ uploading' = TRUE
  /\ UNCHANGED <<content, files, draft, submitted, storage, network, server, history,
                 faults, env>>

\* saveBrowserUploads has stored it, and the answer arrives.
SameDraftIdMutant == KeepDraftId
FilesChanged == NewDraftId
UploadDone(f) ==
  /\ uploading /\ status[f] = "none" /\ \A g \in File : g < f => status[g] # "none"
  /\ status' = [status EXCEPT ![f] = "available"]
  /\ uploading' = FALSE
  /\ files' = files \cup {f}
  /\ FilesChanged /\ Changed /\ persistDraft(content, files \cup {f})
  /\ UNCHANGED <<content, submitted, network, turns, owner, faults, env>>

\* The upload is refused, or its answer is lost: a stored file stays unclaimed.
UploadFails ==
  /\ uploading /\ uploading' = FALSE
  /\ UNCHANGED <<content, files, draft, submitted, storage, network, server, history,
                 faults, env>>

removePendingAttachment(f) ==
  /\ ~busy /\ f \in files
  /\ files' = files \ {f}
  /\ FilesChanged /\ Changed /\ persistDraft(content, files \ {f})
  /\ UNCHANGED <<content, submitted, uploading, network, server, faults, env>>

\* selectModel, selectReasoningEffort
executionPreferenceChanged ==
  /\ ~busy
  /\ NewDraftId /\ submitted' = Null
  /\ Changed /\ persistDraft(content, files)
  /\ UNCHANGED <<content, files, uploading, network, server, faults, env>>

\* send, up to its request.
send ==
  /\ ~busy /\ ~uploading
  /\ content # Empty \/ files # {}
  /\ submitted' = content
  /\ awaited' = [key |-> draft, text |-> content, files |-> files, version |-> version,
                 stale |-> forgotten]
  /\ sent' = TRUE
  /\ UNCHANGED <<content, files, draft, uploading, storage, answer, strays, server, keys,
                 version, forgotten, faults, env>>

\* send, after the request: the draft goes if it still is what was sent.
Unchanged == content = awaited.text /\ files = awaited.files
Created ==
  /\ answer = "created"
  /\ IF Unchanged
     THEN /\ content' = Empty /\ files' = {} /\ storage' = Null
          /\ NewDraftId /\ Changed
     ELSE KeepDraftId /\ UNCHANGED <<content, files, storage, version, sent>>
  /\ submitted' = Null
  /\ awaited' = Null /\ answer' = "none"
  /\ UNCHANGED <<uploading, strays, server, faults, env>>

Refused ==
  /\ answer = "refused"
  /\ awaited' = Null /\ answer' = "none"
  /\ UNCHANGED <<page, storage, strays, server, history, faults, env>>

\* What becomes of a request nobody waits for any more.
Abandoned == IF answer = "none" /\ busy THEN strays \cup {awaited} ELSE strays

\* The connection breaks: `action' shows an error.
CallFails ==
  /\ busy /\ Fault("lost")
  /\ strays' = Abandoned
  /\ awaited' = Null /\ answer' = "none"
  /\ UNCHANGED <<page, storage, server, history, env>>

\* The page is loaded again: restoreDraft.
Reload ==
  /\ Fault("reload")
  /\ strays' = Abandoned
  /\ awaited' = Null /\ answer' = "none"
  /\ uploading' = FALSE /\ submitted' = Null
  /\ IF storage = Null
     THEN content' = Empty /\ files' = {} /\ NewDraftId
     ELSE /\ content' = storage.content /\ files' = storage.files /\ draft' = storage.id
          /\ forgotten' = (forgotten \/ submitted # Null)
          /\ UNCHANGED keys
  /\ UNCHANGED <<storage, server, version, sent, env>>

-----------------------------------------------------------------------------
\* The server.  A request is handled in one go, without an await.

\* findByIngress
NotLookedUpMutant(c) == {}
ExistingTurns(c) == {i \in DOMAIN turns : turns[i].key = c.key}
TurnOf(c) == IF ExistingTurns(c) = {} THEN Len(turns) + 1 ELSE CHOOSE i \in ExistingTurns(c) : TRUE

\* assertClaimableBrowserUploads
assertClaimable(c) ==
  \A f \in c.files : status[f] = "available" /\ owner[f] \in {0} \cup ExistingTurns(c)

\* MissionRepository.create.
createTurn(c, torn) ==
  turns' = IF ExistingTurns(c) # {} THEN turns
           ELSE Append(turns, [key |-> c.key, text |-> c.text, version |-> c.version,
                               prompt |-> Null, torn |-> torn])

\* claimBrowserUploads
claim(c) == owner' = [f \in File |-> IF f \in c.files THEN TurnOf(c) ELSE owner[f]]

\* MissionsService.create.  The queue may be full, the context being cleared.
Handle(c) == assertClaimable(c) /\ createTurn(c, FALSE) /\ claim(c)

Answered ==
  /\ busy /\ answer = "none"
  /\ \/ answer' = "created" /\ Handle(awaited)
     \/ answer' = "refused" /\ UNCHANGED <<turns, owner>>
  /\ UNCHANGED <<page, storage, awaited, strays, status, history, faults, env>>

StrayArrives(c) ==
  /\ c \in strays /\ strays' = strays \ {c}
  /\ Handle(c)
  /\ UNCHANGED <<page, storage, awaited, answer, status, history, faults, env>>

\* The process dies between the INSERT of the turn and the claim of its files.
Crash ==
  /\ busy /\ answer = "none" /\ Fault("crash")
  /\ awaited.files # {} /\ assertClaimable(awaited) /\ createTurn(awaited, TRUE)
  /\ awaited' = Null
  /\ UNCHANGED <<page, storage, answer, strays, status, owner, history, env>>

\* startMission with promptForTurn.
promptForTurn(i) == {f \in File : owner[f] = i /\ status[f] = "available"}
Begin(i) ==
  /\ turns[i].prompt = Null
  /\ turns' = [turns EXCEPT ![i].prompt = promptForTurn(i)]
  /\ UNCHANGED <<page, storage, network, status, owner, history, faults, env>>

\* cleanupExpiredAttachments
Expire(f) ==
  /\ "expire" \in env /\ status[f] = "available"
  /\ status' = [status EXCEPT ![f] = "expired"]
  /\ UNCHANGED <<page, storage, network, turns, owner, history, faults, env>>

-----------------------------------------------------------------------------

UserStep ==
  \/ \E value \in Content : updateContent(value)
  \/ uploadFiles \/ executionPreferenceChanged
  \/ \E f \in File : removePendingAttachment(f)

PageStep ==
  \/ \E f \in File : UploadDone(f)
  \/ UploadFails \/ send \/ Created \/ Refused \/ CallFails \/ Reload

ServerStep ==
  \/ Answered \/ Crash
  \/ \E c \in strays : StrayArrives(c)
  \/ \E i \in DOMAIN turns : Begin(i)
  \/ \E f \in File : Expire(f)

Next == UserStep \/ PageStep \/ ServerStep

Spec == Init /\ [][Next]_vars

-----------------------------------------------------------------------------

\* A draft is one turn however often it is sent: again after a lost answer, after a
\* reload, with an earlier request still on its way (send, findByIngress).
OneTurnPerDraft ==
  \A i, k \in DOMAIN turns : turns[i].version = turns[k].version => i = k

\* The draft leaves the page by the user's hand, or because the server has a turn
\* with what he sent last, and that is what is in the composer: not by an answer that
\* belongs to an earlier message, and not by a reload.  (Unless the page had
\* forgotten, in a reload, that its draftId was submitted before.)
Kept ==
  \E i \in DOMAIN turns : /\ turns[i].version = awaited.version
                          /\ turns[i].text = content
                          /\ \A f \in files : owner[f] = i
NothingLost ==
  [][UserStep \/ (busy /\ (awaited.stale \/ Kept))
             \/ (content' = content /\ files \subseteq files')]_vars

\* A file claimed by a turn that has begun was in its prompt: no file is added to a
\* turn too late.  (Unless the server died between the turn and its claim.)
FilesReachCodex ==
  \A f \in File : \A i \in DOMAIN turns :
    owner[f] = i /\ status[f] = "available" /\ turns[i].prompt # Null /\ ~turns[i].torn
      => f \in turns[i].prompt
=============================================================================
