--------------------------- MODULE ChunkedPublish ---------------------------
(***************************************************************************)
(* Publishing a package too large for one transaction: the payloads        *)
(* chunk_package_and_create_payloads makes of it (chunked_publish.rs), and *)
(* the staging area they fill and publish from (large_packages.move).      *)
(*                                                                         *)
(* The client is outside this repository: it uploads one package at a      *)
(* time, sends the payloads in order, may see any of them fail, sends it   *)
(* again or gives up at any point, and gets rid of what was staged before  *)
(* it starts anew.                                                         *)
(***************************************************************************)
EXTENDS Integers, Sequences, SequencesExt

CONSTANTS ChunkSize,     \* chunk_size, scaled down
          MaxLength,     \* bound: bytes of the metadata, and of a module
          MaxModules,    \* bound: modules of a package
          MaxUploads     \* bound: uploads

U16 == 65536             \* the values of a code index

ASSUME ChunkedPublishAssumption ==
  ChunkSize \in Nat \ {0} /\ MaxLength \in Nat /\ MaxModules \in 0 .. U16

VARIABLES
  uploading,      \* the package being uploaded, or Nothing
  publish_type,   \* its PublishType
  payloads,       \* what chunk_package_and_create_payloads made of it
  sent,           \* payloads that went through
  staging,        \* the StagingArea of the owner, or Nothing
  published,      \* what the last upload has published, or Nothing
  uploads         \* auxiliary: uploads so far

upload_vars == <<uploading, publish_type, payloads, sent, staging, published, uploads>>

Nothing == <<>>
PublishTypes == {"AccountDeploy", "ObjectDeploy", "ObjectUpgrade"}

\* All bytes of a package differ; neither metadata nor a module is empty.
Bytes(part, length) == [i \in 1 .. length |-> <<part, i>>]
Uploadable == {[metadata |-> Bytes(0, length), code |-> [i \in DOMAIN lengths |-> Bytes(i, lengths[i])]] :
                 length \in 1 .. MaxLength,
                 lengths \in UNION {[1 .. n -> 1 .. MaxLength] : n \in 1 .. MaxModules}}

-----------------------------------------------------------------------------
(* chunked_publish.rs *)

Chunks(data) == (Len(data) + ChunkSize - 1) \div ChunkSize
ChunkEnd(data, k) == IF k * ChunkSize < Len(data) THEN k * ChunkSize ELSE Len(data)
CreateChunks(data) ==
  [k \in 1 .. Chunks(data) |-> SubSeq(data, (k - 1) * ChunkSize + 1, ChunkEnd(data, k))]

StageCodeChunk(metadata, indices, chunks) ==
  [metadata |-> metadata, indices |-> indices, chunks |-> chunks]

\* Bytes of data in a payload.
Size(payload) ==
  LET taken[k \in 0 .. Len(payload.chunks)] ==
        IF k = 0 THEN Len(payload.metadata) ELSE taken[k - 1] + Len(payload.chunks[k])
  IN  taken[Len(payload.chunks)]

\* A chunk goes into the payload being filled, `open', if it fits there, and into a new one otherwise.
AddChunk(made, idx, chunk) ==
  LET full == made.taken_size + Len(chunk) > ChunkSize
      open == IF full THEN StageCodeChunk(<<>>, <<>>, <<>>) ELSE made.open
  IN  [payloads |-> IF full THEN Append(made.payloads, made.open) ELSE made.payloads,
       open |-> StageCodeChunk(open.metadata, Append(open.indices, idx), Append(open.chunks, chunk)),
       taken_size |-> (IF full THEN 0 ELSE made.taken_size) + Len(chunk)]

\* Mutant: indices start from one.
CodeIndexFromOne(i) == i % U16
CodeIndex(i) == (i - 1) % U16

AddModule(made, i, module) ==
  LET added[k \in 0 .. Chunks(module)] ==
        IF k = 0 THEN made ELSE AddChunk(added[k - 1], CodeIndex(i), CreateChunks(module)[k])
  IN  added[Chunks(module)]

\* Chunks of metadata fill payloads of their own, the last one is open for code.
AddMetadata(metadata) ==
  LET n == Chunks(metadata)
  IN  [payloads |-> [k \in 1 .. n - 1 |-> StageCodeChunk(CreateChunks(metadata)[k], <<>>, <<>>)],
       open |-> StageCodeChunk(CreateChunks(metadata)[n], <<>>, <<>>),
       taken_size |-> Len(CreateChunks(metadata)[n])]

ChunkPackageAndCreatePayloads(pack) ==
  LET made[i \in 0 .. Len(pack.code)] ==
        IF i = 0 THEN AddMetadata(pack.metadata) ELSE AddModule(made[i - 1], i, pack.code[i])
      all == made[Len(pack.code)]
  IN  Append(all.payloads, all.open)

-----------------------------------------------------------------------------
(* large_packages.move *)

EmptyStagingArea == [metadata |-> <<>>, code |-> [i \in {} |-> <<>>], last_module_idx |-> 0]

StageChunk(area, idx, chunk) ==
  IF idx \in DOMAIN area.code THEN [area EXCEPT !.code[idx] = @ \o chunk]
  ELSE [area EXCEPT !.code = [i \in DOMAIN area.code \cup {idx} |-> IF i = idx THEN chunk ELSE area.code[i]],
                    !.last_module_idx = IF idx > @ THEN idx ELSE @]

\* stage_code_chunk_internal, which aborts if the lengths differ (ECODE_MISMATCH).
Accepted(payload) == Len(payload.indices) = Len(payload.chunks)
StagedOn(area, payload) ==
  LET staged[k \in 0 .. Len(payload.chunks)] ==
        IF k = 0 THEN [area EXCEPT !.metadata = @ \o payload.metadata]
        ELSE StageChunk(staged[k - 1], payload.indices[k], payload.chunks[k])
  IN  staged[Len(payload.chunks)]

\* The area the payload finds.
Found == IF staging = Nothing THEN EmptyStagingArea ELSE staging

CanAssemble(area) == 0 .. area.last_module_idx \subseteq DOMAIN area.code
AssembleModuleCode(area) == [i \in 1 .. area.last_module_idx + 1 |-> area.code[i - 1]]

-----------------------------------------------------------------------------
(* Transactions *)

UploadInit ==
  /\ uploading = Nothing /\ publish_type = "AccountDeploy" /\ payloads = <<>> /\ sent = 0
  /\ staging = Nothing /\ published = Nothing /\ uploads = 0

StartUpload(pack, t) ==
  /\ uploading = Nothing /\ staging = Nothing
  /\ uploads < MaxUploads
  /\ uploading' = pack /\ publish_type' = t
  /\ payloads' = ChunkPackageAndCreatePayloads(pack) /\ sent' = 0
  /\ published' = Nothing
  /\ uploads' = uploads + 1
  /\ UNCHANGED staging

\* The next payload but the last goes through; one that fails changes nothing.
SendStage ==
  /\ uploading # Nothing /\ sent + 1 < Len(payloads)
  /\ Accepted(payloads[sent + 1])
  /\ staging' = StagedOn(Found, payloads[sent + 1])
  /\ sent' = sent + 1
  /\ UNCHANGED <<uploading, publish_type, payloads, published, uploads>>

\* The last one: stage, publish or upgrade as its type says, clean up.
SendLast ==
  /\ uploading # Nothing /\ sent + 1 = Len(payloads)
  /\ Accepted(Last(payloads))
  /\ LET area == StagedOn(Found, Last(payloads))
     IN  /\ CanAssemble(area)
         /\ published' = [type |-> publish_type, metadata |-> area.metadata, code |-> AssembleModuleCode(area)]
  /\ staging' = Nothing
  /\ sent' = sent + 1
  /\ UNCHANGED <<uploading, publish_type, payloads, uploads>>

\* The upload is over, or the client gives it up.
GiveUp == /\ uploading # Nothing
          /\ uploading' = Nothing
          /\ publish_type' = "AccountDeploy" /\ payloads' = <<>> /\ sent' = 0 /\ published' = Nothing
          /\ UNCHANGED <<staging, uploads>>

CleanupStagingArea == /\ uploading = Nothing /\ staging # Nothing
                      /\ staging' = Nothing
                      /\ UNCHANGED <<uploading, publish_type, payloads, sent, published, uploads>>

UploadNext ==
  \/ \E pack \in Uploadable, t \in PublishTypes : StartUpload(pack, t)
  \/ SendStage \/ SendLast \/ GiveUp \/ CleanupStagingArea

\* A client that does not give up keeps sending what failed.
UploadFairness == WF_upload_vars(SendStage \/ SendLast)
UploadSpec == UploadInit /\ [][UploadNext]_upload_vars

-----------------------------------------------------------------------------
(* Properties *)

\* What is published is the package, byte for byte and as its type says, and then nothing stays
\* behind in the staging area (stage_code_chunk_and_publish_to_account and its variants).
PublishesThePackage ==
  published # Nothing =>
    /\ published = [type |-> publish_type, metadata |-> uploading.metadata, code |-> uploading.code]
    /\ staging = Nothing /\ sent = Len(payloads)

\* A payload that carries no more than a chunk, but something.
Fits(payload) == Size(payload) \in 1 .. ChunkSize

\* No payload carries more than a chunk, each carries something, and none could have been sent
\* with the one before it (chunk_package_and_create_payloads).
PayloadsFit ==
  uploading # Nothing =>
    /\ \A i \in DOMAIN payloads : Fits(payloads[i])
    /\ \A i \in 1 .. Len(payloads) - 1 : Size(payloads[i]) + Size(payloads[i + 1]) > ChunkSize

\* area holds a beginning of the metadata, whole modules without a gap and a beginning of the next,
\* and no module before the metadata is complete.
IsBeginning(area, pack) ==
  /\ IsPrefix(area.metadata, pack.metadata)
  /\ DOMAIN area.code \in {{}, 0 .. area.last_module_idx}
  /\ \A i \in DOMAIN area.code :
       /\ i + 1 \in DOMAIN pack.code
       /\ IF i < area.last_module_idx THEN area.code[i] = pack.code[i + 1]
          ELSE IsPrefix(area.code[i], pack.code[i + 1])
  /\ DOMAIN area.code # {} => area.metadata = pack.metadata

\* In the middle of an upload, the staging area holds a beginning of the package
\* (large_packages.move:stage_code_chunk_internal).
StagingIsAPrefix == uploading # Nothing /\ staging # Nothing => IsBeginning(staging, uploading)

\* No payload aborts when its turn comes, and after the last one there is a module for every index
\* (large_packages.move:ECODE_MISMATCH, assemble_module_code).
PayloadsAreAccepted ==
  uploading # Nothing /\ sent < Len(payloads) =>
    /\ Accepted(payloads[sent + 1])
    /\ sent + 1 = Len(payloads) => CanAssemble(StagedOn(Found, payloads[sent + 1]))

\* An upload in chunks publishes the package byte for byte or is given up; on the way every payload
\* fits, is accepted and leaves a beginning of the package (chunked_publish.rs, large_packages.move).
UploadsPublishTheirPackage ==
  PublishesThePackage /\ PayloadsFit /\ StagingIsAPrefix /\ PayloadsAreAccepted

\* Every upload ends: with the package published, or given up.
UploadsEnd == (uploading # Nothing) ~> (published # Nothing \/ uploading = Nothing)
=============================================================================
