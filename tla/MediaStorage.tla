----------------------------- MODULE MediaStorage -----------------------------
(***************************************************************************)
(* The storage behind the recordings of a handoff day: which uploads the   *)
(* server signs and for how long (app/media/services, config_storage_media *)
(* _config.py), what the fake and the S3 storage do with them, what they   *)
(* say of an object when the upload is completed, and the links they sign  *)
(* for those who watch it (app/integrations/storage_media, the fake        *)
(* storage's routes, the submission's page).                               *)
(*                                                                         *)
(* The fake storage is files shared by the server's processes, an object   *)
(* and a file that describes it beside it, and a memory each process has   *)
(* of the objects it took; without a directory only that memory.  Sizes    *)
(* are megabytes and durations minutes, scaled to the limits; time is in   *)
(* the units of a signed URL's life.  Recordings models the rows' other    *)
(* transitions.                                                            *)
(***************************************************************************)
EXTENDS Naturals

CONSTANTS
  Uploads,        \* number of assets the candidate declares
  Servers,        \* processes that share the storage
  StorageSetups,  \* settings: provider, directory, and life of signed URLs
  MaxBytes,       \* MEDIA_MAX_UPLOAD_BYTES
  MaxDuration,    \* MAX_HANDOFF_RECORDING_DURATION_SECONDS
  MaxLife,        \* the 1800 seconds no signed URL may outlive
  WindowEnd,      \* when the day's window closes
  RetentionEnd,   \* when the retention of the media is over
  LastMinute,     \* bound: time
  StorageFaults   \* bound: crashes of a process, failures of a purge

ASSUME MediaStorageAssumption ==
  /\ {Uploads, MaxBytes, MaxDuration, MaxLife, WindowEnd, LastMinute} \subseteq Nat \ {0}
  /\ RetentionEnd \in Nat /\ RetentionEnd > WindowEnd + MaxLife
  /\ StorageFaults \in Nat

VARIABLES
  setup,    \* the settings of the deployment
  minute,   \* time
  asset,    \* recording_assets rows, with what the upload declared
  object,   \* size of each stored object, 0 when there is none
  sidecar,  \* what the storage keeps to describe each object
  memory,   \* FakeStorageMediaProvider._objects of each process
  writer,   \* the object a process is writing or removing
  link,     \* when each asset's last signed download link ends
  answer,   \* what the last download was answered
  faults_left

mediaVars == <<setup, minute, asset, object, sidecar, memory, writer, link, answer,
               faults_left>>

-----------------------------------------------------------------------------
Assets == 1..Uploads
ContentTypes == {"video/mp4", "application/pdf", "octet-stream"}
Descriptions == [type : ContentTypes, size : Nat, duration : Nat]
NoDescription == [type |-> "octet-stream", size |-> 0, duration |-> 0]

AssetStates == {"none", "uploading", "uploaded", "deleted", "purged"}
DOWNLOADABLE == {"uploaded"}

(* A duration of 0 stands for none; so does a time of 0. *)
AssetRows == [status : AssetStates, kind : {"recording", "supplemental"},
              declared : Descriptions, made : Nat, until : Nat]
NoAsset == [status |-> "none", kind |-> "recording", declared |-> NoDescription,
            made |-> 0, until |-> 0]

Writing == [on : Assets \cup {0}, at : {"idle", "body", "described", "removed"}]
IdleWriter == [on |-> 0, at |-> "idle"]

(* Types of the rows, of the storage and of the links. *)
MediaTypeOK ==
  /\ setup \in StorageSetups
  /\ minute \in 1..LastMinute
  /\ asset \in [Assets -> AssetRows]
  /\ object \in [Assets -> 0..(MaxBytes + 1)]
  /\ sidecar \in [Assets -> Descriptions]
  /\ memory \in [Servers -> [Assets -> Descriptions]]
  /\ writer \in [Servers -> Writing]
  /\ link \in [Assets -> Nat]
  /\ answer \in [to : Assets \cup {0}, code : {200, 403, 404, 422}, late : BOOLEAN]
  /\ faults_left \in 0..StorageFaults

(* The settings a process can start with: the validator refuses a life that is *)
(* not within the limits.                                                      *)
Valid(s) ==
  /\ s.life \in 1..MaxLife
  /\ s.least \in 1..MaxLife /\ s.most \in 1..MaxLife
  /\ s.least <= s.most

MediaInit ==
  /\ setup \in {s \in StorageSetups : Valid(s)}
  /\ minute = 1
  /\ asset = [k \in Assets |-> NoAsset]
  /\ object = [k \in Assets |-> 0]
  /\ sidecar = [k \in Assets |-> NoDescription]
  /\ memory = [p \in Servers |-> [k \in Assets |-> NoDescription]]
  /\ writer = [p \in Servers |-> IdleWriter]
  /\ link = [k \in Assets |-> 0]
  /\ answer = [to |-> 0, code |-> 404, late |-> FALSE]
  /\ faults_left = StorageFaults

Fake == setup.provider = "fake"

(* clamp_expires_seconds. *)
Clamped(life) ==
  IF life < setup.least THEN setup.least
  ELSE IF life > setup.most THEN setup.most ELSE life

(* resolve_signed_url_ttl. *)
Life == Clamped(setup.life)

(* create_signed_upload_url and create_signed_download_url. *)
SignedUntil == minute + Life

-----------------------------------------------------------------------------
(* Uploading. *)

(* _resolve_extension: of the name, or for want of a name of an MP4. *)
ValidName(kind, d, name) ==
  IF name = "none" THEN d.type = "video/mp4" ELSE kind = "recording" => name = "mp4"

(* validate_upload_input: MP4 only for a recording, a size within the limit. *)
ValidUpload(kind, d, name) ==
  /\ kind = "recording" => d.type = "video/mp4"
  /\ d.size \in 1..MaxBytes
  /\ ValidName(kind, d, name)

(* init_handoff_upload: the row, and a URL signed for what was declared. *)
Declare(k, kind, d, name) ==
  /\ minute <= WindowEnd
  /\ asset[k].status = "none" /\ (k > 1 => asset[k - 1].status # "none")
  /\ ValidUpload(kind, d, name)
  /\ asset' = [asset EXCEPT ![k] =
       [status |-> "uploading", kind |-> kind, made |-> minute, until |-> SignedUntil,
        declared |-> [d EXCEPT !.duration = IF kind = "recording" THEN @ ELSE 0]]]
  /\ UNCHANGED <<setup, minute, object, sidecar, memory, writer, link, answer,
                 faults_left>>

(* Mutation: the signature is checked, the end of the URL's life is not. *)
NeverExpires(k) == asset[k].until # 0

(* validate_signed_upload_request: the signature covers what was declared. *)
UrlAccepted(k) == asset[k].until # 0 /\ minute <= asset[k].until

(* The fake storage takes a duration of ten minutes for one it is not told. *)
DescriptionOf(k) ==
  [asset[k].declared EXCEPT !.duration = IF @ = 0 THEN 10 ELSE @]

(* fake_storage_upload_route: the request is checked before its body is awaited. *)
TakeUpload(p, k) ==
  /\ Fake
  /\ writer[p] = IdleWriter
  /\ UrlAccepted(k)
  /\ writer' = [writer EXCEPT ![p] = [on |-> k, at |-> "body"]]
  /\ UNCHANGED <<setup, minute, asset, object, sidecar, memory, link, answer,
                 faults_left>>

(* A body that has not the signed size is refused. *)
RefuseBody(p) ==
  /\ writer[p].at = "body"
  /\ writer' = [writer EXCEPT ![p] = IdleWriter]
  /\ UNCHANGED <<setup, minute, asset, object, sidecar, memory, link, answer,
                 faults_left>>

(* write_object_bytes: the bytes first, when there is a directory for them. *)
WriteBytes(p) ==
  LET k == writer[p].on IN
  /\ writer[p].at = "body"
  /\ memory' = [memory EXCEPT ![p][k] = DescriptionOf(k)]
  /\ object' = IF setup.directory THEN [object EXCEPT ![k] = asset[k].declared.size]
               ELSE object
  /\ writer' = [writer EXCEPT ![p] =
       IF setup.directory THEN [@ EXCEPT !.at = "described"] ELSE IdleWriter]
  /\ UNCHANGED <<setup, minute, asset, sidecar, link, answer, faults_left>>

(* Then the file beside them. *)
WriteDescription(p) ==
  /\ writer[p].at = "described"
  /\ sidecar' = [sidecar EXCEPT ![writer[p].on] = DescriptionOf(writer[p].on)]
  /\ writer' = [writer EXCEPT ![p] = IdleWriter]
  /\ UNCHANGED <<setup, minute, asset, object, memory, link, answer, faults_left>>

(* What S3 checks of a signed request: its method, key, headers and end.  The type *)
(* and the duration are headers of an upload; its size is not part of what is      *)
(* signed.                                                                         *)
Presigned(until) == ~Fake /\ minute <= until

PutToS3(k, size) ==
  /\ asset[k].until # 0
  /\ Presigned(asset[k].until)
  /\ object' = [object EXCEPT ![k] = size]
  /\ sidecar' = [sidecar EXCEPT ![k] = [asset[k].declared EXCEPT !.size = size]]
  /\ UNCHANGED <<setup, minute, asset, memory, writer, link, answer, faults_left>>

-----------------------------------------------------------------------------
(* Completing. *)

(* S3's answer to HEAD: the type and the size; the duration that was signed as a *)
(* header of the upload is not read back.                                        *)
S3Metadata(k) == [found |-> object[k] # 0, is |-> [sidecar[k] EXCEPT !.duration = 0]]

(* FakeStorageMediaProvider.get_object_metadata: the file beside the object, or *)
(* the object alone, or what this process remembers.                            *)
FakeMetadata(p, k) ==
  IF setup.directory /\ sidecar[k] # NoDescription
  THEN [found |-> TRUE, is |-> sidecar[k]]
  ELSE IF setup.directory /\ object[k] # 0
  THEN [found |-> TRUE, is |-> [NoDescription EXCEPT !.size = object[k]]]
  ELSE [found |-> memory[p][k] # NoDescription, is |-> memory[p][k]]

Metadata(p, k) == IF Fake THEN FakeMetadata(p, k) ELSE S3Metadata(k)

(* Mutation: whatever size was uploaded will do. *)
AnySize(p, k) ==
  LET m == Metadata(p, k) IN
  /\ m.found
  /\ m.is.type = asset[k].declared.type
  /\ asset[k].kind = "recording" => m.is.duration \in 1..MaxDuration

(* load_uploaded_object_metadata and the assertions after it. *)
AsDeclared(p, k) ==
  LET m == Metadata(p, k) IN
  /\ m.found
  /\ m.is.size = asset[k].declared.size /\ m.is.size <= MaxBytes
  /\ m.is.type = asset[k].declared.type
  /\ asset[k].kind = "recording" => m.is.duration \in 1..MaxDuration

(* complete_handoff_upload. *)
CompleteUpload(p, k) ==
  /\ minute <= WindowEnd
  /\ asset[k].status = "uploading"
  /\ AsDeclared(p, k)
  /\ asset' = [asset EXCEPT ![k].status = "uploaded"]
  /\ UNCHANGED <<setup, minute, object, sidecar, memory, writer, link, answer,
                 faults_left>>

-----------------------------------------------------------------------------
(* Watching. *)

Watchable(k) == asset[k].status \in DOWNLOADABLE

Latest(S) == {k \in S : \A j \in S : j <= k}
RecordingsIn(S) == {k \in S : asset[k].kind = "recording"}

(* get_latest_playback_safe_for_task_session. *)
PlaybackRecording == Latest(RecordingsIn({k \in Assets : Watchable(k)}))

(* get_latest_for_task_session: whatever became of it. *)
LatestRecording == Latest(RecordingsIn({k \in Assets : asset[k].status # "none"}))

Supplements ==
  {k \in Assets : asset[k].kind = "supplemental"
                    /\ asset[k].status \notin {"none", "deleted", "purged"}}

Sign(k) ==
  /\ Watchable(k)
  /\ link' = [link EXCEPT ![k] = SignedUntil]
  /\ UNCHANGED <<setup, minute, asset, object, sidecar, memory, writer, answer,
                 faults_left>>

(* resolve_media_payload: the talent partner's page of the submission. *)
ShowPartner(k) == k \in PlaybackRecording \cup Supplements /\ Sign(k)

(* handoff_status_route: the candidate's page of the task. *)
ShowCandidate(k) == k \in LatestRecording \cup Supplements /\ Sign(k)

(* validate_signed_download_request. *)
LinkAccepted(k) == minute <= link[k]

(* Mutation: an object the process still remembers is served. *)
FromMemory(p, k) ==
  IF LinkAccepted(k) /\ memory[p][k] # NoDescription THEN 200
  ELSE IF LinkAccepted(k) /\ object[k] # 0 THEN 200 ELSE 404

(* fake_storage_download_route: the signature, what is known of the object, and the *)
(* file; a provider without a directory has no file to serve.                       *)
AnswerTo(p, k) ==
  CASE ~LinkAccepted(k) -> 403
    [] LinkAccepted(k) /\ ~FakeMetadata(p, k).found -> 404
    [] LinkAccepted(k) /\ FakeMetadata(p, k).found /\ ~setup.directory -> 422
    [] OTHER -> IF object[k] # 0 THEN 200 ELSE 404

S3AnswerTo(k) ==
  IF ~Presigned(link[k]) THEN 403 ELSE IF object[k] = 0 THEN 404 ELSE 200

Download(p, k) ==
  /\ link[k] # 0
  /\ answer' = [to |-> k, code |-> IF Fake THEN AnswerTo(p, k) ELSE S3AnswerTo(k),
                late |-> asset[k].status = "purged"]
  /\ UNCHANGED <<setup, minute, asset, object, sidecar, memory, writer, link,
                 faults_left>>

-----------------------------------------------------------------------------
(* Deleting and purging. *)

(* delete_recording_route: the row only; the object waits for the purge. *)
DeleteAsset(k) ==
  /\ asset[k].status \in {"uploading", "uploaded"}
  /\ asset' = [asset EXCEPT ![k].status = "deleted"]
  /\ UNCHANGED <<setup, minute, object, sidecar, memory, writer, link, answer,
                 faults_left>>

Purgeable(k) == minute >= RetentionEnd /\ asset[k].status \in {"uploaded", "deleted"}

(* delete_object of the fake storage forgets the object and removes its bytes, *)
RemoveBytes(p, k) ==
  /\ Fake /\ Purgeable(k)
  /\ writer[p] = IdleWriter /\ \A q \in Servers : writer[q].at # "removed"
  /\ object' = [object EXCEPT ![k] = 0]
  /\ memory' = [memory EXCEPT ![p][k] = NoDescription]
  /\ writer' = [writer EXCEPT ![p] = [on |-> k, at |-> "removed"]]
  /\ UNCHANGED <<setup, minute, asset, sidecar, link, answer, faults_left>>

(* then the file beside them, before _purge_recording commits the row. *)
Purge(p) ==
  /\ writer[p].at = "removed"
  /\ sidecar' = [sidecar EXCEPT ![writer[p].on] = NoDescription]
  /\ asset' = [asset EXCEPT ![writer[p].on].status = "purged"]
  /\ writer' = [writer EXCEPT ![p] = IdleWriter]
  /\ UNCHANGED <<setup, minute, object, memory, link, answer, faults_left>>

(* S3 removes object and description at once; without its answer the purge is *)
(* rolled back and repeated, and an object that is gone is no failure.        *)
RemoveFromS3(k) ==
  /\ ~Fake /\ Purgeable(k)
  /\ object' = [object EXCEPT ![k] = 0]
  /\ sidecar' = [sidecar EXCEPT ![k] = NoDescription]
  /\ \/ /\ asset' = [asset EXCEPT ![k].status = "purged"]
        /\ UNCHANGED faults_left
     \/ /\ faults_left > 0
        /\ faults_left' = faults_left - 1
        /\ UNCHANGED asset
  /\ UNCHANGED <<setup, minute, memory, writer, link, answer>>

(* A process stops, in the middle of a write perhaps; its memory is lost. *)
StorageCrash(p) ==
  /\ faults_left > 0
  /\ writer' = [writer EXCEPT ![p] = IdleWriter]
  /\ memory' = [memory EXCEPT ![p] = [k \in Assets |-> NoDescription]]
  /\ faults_left' = faults_left - 1
  /\ UNCHANGED <<setup, minute, asset, object, sidecar, link, answer>>

(* Retention is weeks: no request that began before its end lasts until then. *)
MinutePasses ==
  /\ minute < LastMinute
  /\ minute + 1 = RetentionEnd => \A p \in Servers : writer[p] = IdleWriter
  /\ minute' = minute + 1
  /\ UNCHANGED <<setup, asset, object, sidecar, memory, writer, link, answer,
                 faults_left>>

-----------------------------------------------------------------------------
DeclaredSizes == 1..(MaxBytes + 1)
Declarations ==
  [type : {"video/mp4", "application/pdf"}, size : {1, MaxBytes + 1},
   duration : {0, MaxDuration, MaxDuration + 1}]

MediaNext ==
  \/ MinutePasses
  \/ \E p \in Servers :
       WriteBytes(p) \/ RefuseBody(p) \/ WriteDescription(p) \/ Purge(p) \/ StorageCrash(p)
  \/ \E k \in Assets :
       \/ ShowPartner(k) \/ ShowCandidate(k) \/ DeleteAsset(k) \/ RemoveFromS3(k)
       \/ \E kind \in {"recording", "supplemental"}, d \in Declarations,
             name \in {"none", "mp4", "pdf"} : Declare(k, kind, d, name)
       \/ \E size \in DeclaredSizes : PutToS3(k, size)
       \/ \E p \in Servers :
            \/ TakeUpload(p, k) \/ CompleteUpload(p, k)
            \/ Download(p, k) \/ RemoveBytes(p, k)

MediaSpec == MediaInit /\ [][MediaNext]_mediaVars

-----------------------------------------------------------------------------
(* Properties. *)

(* An upload is only accepted while the storage really holds an object of the size *)
(* and the type that were declared: a file that was removed, half described or     *)
(* replaced by a body of another size is refused, whichever process is asked       *)
(* (complete_handoff_upload, get_object_metadata of both providers).               *)
AcceptedIsStored ==
  [][\A k \in Assets :
       asset[k].status = "uploading" /\ asset'[k].status = "uploaded"
         => \/ object[k] = asset[k].declared.size
            \/ ~setup.directory /\ \E p \in Servers :
                 memory[p][k].size = asset[k].declared.size]_mediaVars

(* No upload is taken once the longest life a signed URL may have has passed, so   *)
(* that none begins after the purge of what it would replace                       *)
(* (resolve_signed_url_ttl, StorageMediaSettings, _validate_expiry).               *)
UploadsEndInTime ==
  [][\A k \in Assets :
       \/ \E p \in Servers : writer'[p] # writer[p] /\ writer'[p] = [on |-> k, at |-> "body"]
       \/ ~Fake /\ object'[k] \notin {0, object[k]}
       => minute <= asset[k].made + MaxLife]_mediaVars

(* A link never plays what was purged, in no process and whatever they remember    *)
(* (delete_object, fake_storage_download_route).                                   *)
PurgedNeverPlays == [][~(answer'.late /\ answer'.code = 200)]_mediaVars

(* A recording that the storage holds as it was declared, no longer than the limit,  *)
(* can be completed: what the storage tells of it is "Minimal object metadata needed *)
(* to verify uploaded media" (StorageObjectMetadata).                                *)
DeclaredRecordingsAccepted ==
  \A k \in Assets :
    /\ asset[k].status = "uploading" /\ asset[k].kind = "recording"
    /\ object[k] # 0 /\ sidecar[k] = asset[k].declared
    /\ asset[k].declared.duration \in 1..MaxDuration
    => \E p \in Servers : AsDeclared(p, k)
=============================================================================
