-------------------------- MODULE HlsPublishProofs --------------------------
(***************************************************************************)
(* Proofs about HlsPublish, for every number of runs, sources, prefixes    *)
(* and qualities, and for every (not necessarily injective) PrefixOf.      *)
(***************************************************************************)
EXTENDS HlsPublish, TLAPS, SequenceTheorems

(* The encoding ladder: taking the next quality.                           *)
LEMMA NextQuality ==
    ASSUME NEW s \in Seq(Quality), s # <<>>
    PROVE  Head(s) \in Quality /\ Tail(s) \in Seq(Quality)
  BY HeadTailProperties

(* The variants of a quality are files.                                    *)
LEMMA VariantFiles ==
    ASSUME NEW q \in Quality
    PROVE  Variant(q) \subseteq File
  BY DEF Variant, File

(* The prefix of a run that has begun is a prefix.                         *)
LEMMA OutIsPrefix ==
    ASSUME HlsTypeOK, NEW r \in Run, pc[r] # "unused"
    PROVE  src[r] \in Source /\ Out(r) \in Prefix
  BY HlsAssumption DEF HlsTypeOK, Out

-----------------------------------------------------------------------------
(* The runs and the bucket start well-typed.                               *)
LEMMA HlsInitType == HlsInit => HlsTypeOK
  BY HlsAssumption DEF HlsInit, HlsTypeOK, PCs, Active

(* A step of a run keeps the types.                                        *)
LEMMA StepType ==
    ASSUME HlsTypeOK, NEW r \in Run, Step(r)
    PROVE  HlsTypeOK'
<1> USE DEF HlsTypeOK, PCs, Active, Ended, Becomes, Leave, history
<1>1. CASE Download(r)
  BY <1>1 DEF Download
<1>2. CASE DownloadFails(r)
  BY <1>2 DEF DownloadFails
<1>3. CASE SkipExisting(r)
  BY <1>3 DEF SkipExisting
<1>4. CASE StartEncoding(r)
  BY <1>4, HlsAssumption DEF StartEncoding, Meets
<1>5. CASE EncodeOk(r)
  <2>1. /\ Head(todo[r]) \in Quality
        /\ Tail(todo[r]) \in Seq(Quality)
        /\ Variant(Head(todo[r])) \subseteq File
    BY <1>5, NextQuality, VariantFiles DEF EncodeOk
  <2>2. QED
    BY <1>5, <2>1 DEF EncodeOk
<1>6. CASE GpuFails(r)
  BY <1>6 DEF GpuFails
<1>7. CASE SkipQuality(r)
  <2>1. /\ Tail(todo[r]) \in Seq(Quality)
        /\ Variant(Head(todo[r])) \subseteq File
    BY <1>7, NextQuality, VariantFiles DEF SkipQuality
  <2>2. QED
    BY <1>7, <2>1 DEF SkipQuality
<1>8. CASE WriteMaster(r)
  BY <1>8 DEF WriteMaster, File
<1>9. CASE Abort(r)
  BY <1>9 DEF Abort
<1>10. ASSUME NEW f \in File, PutObject(r, f)
       PROVE  HlsTypeOK'
  <2>1. Out(r) \in Prefix
    BY <1>10, OutIsPrefix DEF PutObject
  <2>2. QED
    BY <1>10, <2>1 DEF PutObject, Stored
<1>11. ASSUME NEW f \in File, PutFails(r, f)
       PROVE  HlsTypeOK'
  <2>1. Out(r) \in Prefix
    BY <1>11, OutIsPrefix DEF PutFails
  <2>2. object' \in [Prefix -> [File -> Run \cup {None}]]
    <3>1. CASE Stored(r, f)
      BY <2>1, <3>1 DEF Stored
    <3>2. CASE UNCHANGED object
      BY <3>2
    <3>3. QED
      BY <1>11, <3>1, <3>2 DEF PutFails
  <2>3. QED
    BY <1>11, <2>2 DEF PutFails
<1>12. CASE Finish(r)
  BY <1>12 DEF Finish
<1>13. QED
  BY <1>1, <1>2, <1>3, <1>4, <1>5, <1>6, <1>7, <1>8, <1>9, <1>10, <1>11,
     <1>12 DEF Step

(* Every step of the program keeps the types.                              *)
LEMMA NextType == HlsTypeOK /\ [HlsNext]_hlsVars => HlsTypeOK'
<1> SUFFICES ASSUME HlsTypeOK, [HlsNext]_hlsVars
             PROVE  HlsTypeOK'
  OBVIOUS
<1>1. ASSUME NEW s \in Source, PutRaw(s)
      PROVE  HlsTypeOK'
  BY <1>1, HlsAssumption DEF PutRaw, HlsTypeOK, history
<1>2. ASSUME NEW r \in Run, NEW s \in Source, Begin(r, s)
      PROVE  HlsTypeOK'
  BY <1>2 DEF Begin, Becomes, HlsTypeOK, PCs, Active, history
<1>3. ASSUME NEW r \in Run, Step(r)
      PROVE  HlsTypeOK'
  BY <1>3, StepType
<1>4. ASSUME NEW r \in Run, Kill(r)
      PROVE  HlsTypeOK'
  BY <1>4 DEF Kill, Becomes, HlsTypeOK, PCs, Active, history
<1>5. CASE UNCHANGED hlsVars
  BY <1>5 DEF hlsVars, history, HlsTypeOK
<1>6. QED
  BY <1>1, <1>2, <1>3, <1>4, <1>5 DEF HlsNext

(* The type invariant of the runs and the bucket.                          *)
THEOREM HlsTypes == HlsSpec => []HlsTypeOK
  BY HlsInitType, NextType, PTL DEF HlsSpec

-----------------------------------------------------------------------------
(* The bucket changes only by an upload of some run, of a file that is     *)
(* next in its output directory.                                           *)
LEMMA BucketStep ==
    ASSUME HlsTypeOK, [HlsNext]_hlsVars
    PROVE  \/ UNCHANGED object
           \/ \E r \in Run, f \in File :
                 /\ pc[r] = "upload" /\ f \in NextFiles(r)
                 /\ Stored(r, f)
  BY DEF HlsNext, Step, PutRaw, Begin, Kill, Download, DownloadFails,
         SkipExisting, StartEncoding, EncodeOk, GpuFails, SkipQuality,
         WriteMaster, Abort, PutObject, PutFails, Finish, hlsVars

(* What an upload does to the bucket.                                      *)
LEMMA StoredEffect ==
    ASSUME HlsTypeOK, NEW r \in Run, NEW f \in File, pc[r] # "unused",
           Stored(r, f)
    PROVE  /\ Out(r) \in Prefix
           /\ object'[Out(r)][f] = r
           /\ \A p \in Prefix, g \in File :
                 p # Out(r) \/ g # f => object'[p][g] = object[p][g]
<1>1. Out(r) \in Prefix
  BY OutIsPrefix
<1>2. QED
  BY <1>1 DEF Stored, HlsTypeOK

(* An object that is in the bucket stays there.                            *)
LEMMA ObjectsStay ==
    ASSUME HlsTypeOK, [HlsNext]_hlsVars, NEW p \in Prefix, NEW f \in File,
           object[p][f] # None
    PROVE  object'[p][f] # None
<1>1. CASE UNCHANGED object
  BY <1>1
<1>2. ASSUME NEW r \in Run, NEW g \in File,
             pc[r] = "upload", Stored(r, g)
      PROVE  object'[p][f] # None
  BY <1>2, StoredEffect, HlsAssumption
<1>3. QED
  BY <1>1, <1>2, BucketStep

(* The runs a step does not concern keep their variables, and a run that   *)
(* has begun keeps its source.                                             *)
LEMMA OtherRuns ==
    ASSUME HlsTypeOK, NEW r \in Run, Step(r) \/ Kill(r), NEW x \in Run
    PROVE  /\ src' = src
           /\ x # r => /\ pc'[x] = pc[x]
                       /\ encoded'[x] = encoded[x]
                       /\ local'[x] = local[x]
  BY DEF HlsTypeOK, Step, Kill, Download, DownloadFails, SkipExisting,
         StartEncoding, EncodeOk, GpuFails, SkipQuality, WriteMaster, Abort,
         PutObject, PutFails, Finish, Becomes, Leave

(* The four parts of UploadInv about the run that takes the step.          *)
LEMMA OwnUpload ==
    ASSUME HlsTypeOK, UploadInv, NEW r \in Run, Step(r) \/ Kill(r)
    PROVE  /\ pc[r] # "unused" /\ pc'[r] # "unused"
           /\ \A f \in encoded'[r] \X Part :
                 f \in local'[r] \/ object'[Out(r)][f] # None
           /\ pc'[r] = "ok" => local'[r] = {}
<1> USE DEF Active, Becomes, Leave
<1>0. Step(r) => [HlsNext]_hlsVars
  BY DEF HlsNext
<1>1. pc[r] # "unused" /\ pc'[r] # "unused"
  BY DEF HlsTypeOK, Step, Kill, Download, DownloadFails, SkipExisting,
         StartEncoding, EncodeOk, GpuFails, SkipQuality, WriteMaster, Abort,
         PutObject, PutFails, Finish
<1>2. Out(r) \in Prefix
  BY <1>1, OutIsPrefix
<1>3. encoded[r] \X Part \subseteq File
  BY DEF HlsTypeOK, File
<1>4. \A f \in encoded[r] \X Part : f \in local[r] \/ object[Out(r)][f] # None
  BY <1>1 DEF UploadInv
<1>5. CASE EncodeOk(r)
  <2>1. encoded'[r] \X Part \subseteq (encoded[r] \X Part) \cup Variant(Head(todo[r]))
    BY <1>5 DEF EncodeOk, Variant, HlsTypeOK
  <2>2. local'[r] = local[r] \cup Variant(Head(todo[r]))
    BY <1>5 DEF EncodeOk, HlsTypeOK
  <2>3. QED
    BY <1>1, <1>4, <1>5, <2>1, <2>2 DEF EncodeOk, HlsTypeOK
<1>6. CASE SkipQuality(r)
  BY <1>1, <1>4, <1>6 DEF SkipQuality, HlsTypeOK
<1>7. CASE WriteMaster(r)
  BY <1>1, <1>4, <1>7 DEF WriteMaster, HlsTypeOK
<1>8. ASSUME NEW f \in File, PutObject(r, f)
      PROVE  /\ \A g \in encoded'[r] \X Part :
                   g \in local'[r] \/ object'[Out(r)][g] # None
             /\ pc'[r] = "ok" => local'[r] = {}
  <2>1. /\ object'[Out(r)][f] = r
        /\ \A g \in File : g # f => object'[Out(r)][g] = object[Out(r)][g]
    BY <1>1, <1>2, <1>8, StoredEffect DEF PutObject
  <2>2. local'[r] = local[r] \ {f} /\ encoded' = encoded /\ pc' = pc
    BY <1>8 DEF PutObject, HlsTypeOK
  <2>3. QED
    BY <1>3, <1>4, <1>8, <2>1, <2>2, HlsAssumption DEF PutObject
<1>9. ASSUME NEW f \in File, PutFails(r, f)
      PROVE  /\ \A g \in encoded'[r] \X Part :
                   g \in local'[r] \/ object'[Out(r)][g] # None
             /\ pc'[r] = "ok" => local'[r] = {}
  <2>1. \A g \in File : object[Out(r)][g] # None => object'[Out(r)][g] # None
    BY <1>0, <1>2, <1>9, ObjectsStay DEF Step
  <2>2. local' = local /\ encoded' = encoded /\ pc'[r] = "failed"
    BY <1>9 DEF PutFails, HlsTypeOK
  <2>3. QED
    BY <1>3, <1>4, <2>1, <2>2
<1>10. CASE Finish(r)
  BY <1>1, <1>4, <1>10 DEF Finish, HlsTypeOK
<1>11. CASE \/ Download(r) \/ DownloadFails(r) \/ SkipExisting(r)
            \/ StartEncoding(r) \/ GpuFails(r) \/ Abort(r) \/ Kill(r)
  <2>1. /\ object' = object /\ local' = local /\ encoded' = encoded
        /\ pc'[r] # "ok"
    BY <1>11 DEF Download, DownloadFails, SkipExisting, StartEncoding,
                 GpuFails, Abort, Kill, HlsTypeOK
  <2>2. QED
    BY <1>1, <1>4, <2>1
<1>12. QED
  BY <1>1, <1>5, <1>6, <1>7, <1>8, <1>9, <1>10, <1>11 DEF Step

(* A step of one run keeps UploadInv.                                      *)
LEMMA StepUpload ==
    ASSUME HlsTypeOK, UploadInv, NEW r \in Run, Step(r) \/ Kill(r)
    PROVE  UploadInv'
<1>0. [HlsNext]_hlsVars
  BY DEF HlsNext
<1>1. /\ pc[r] # "unused" /\ pc'[r] # "unused"
      /\ \A f \in encoded'[r] \X Part :
            f \in local'[r] \/ object'[Out(r)][f] # None
      /\ pc'[r] = "ok" => local'[r] = {}
  BY OwnUpload
<1>2. /\ src' = src
      /\ \A x \in Run : x # r => /\ pc'[x] = pc[x]
                                 /\ encoded'[x] = encoded[x]
                                 /\ local'[x] = local[x]
  BY OtherRuns
<1>3. \A x \in Run : pc'[x] = "unused" => encoded'[x] = {}
  BY <1>1, <1>2 DEF UploadInv
<1>4. ASSUME NEW x \in Run, pc'[x] # "unused", NEW f \in encoded'[x] \X Part
      PROVE  f \in local'[x] \/ object'[PrefixOf[src'[x]]][f] # None
  <2>1. CASE x = r
    BY <1>1, <1>2, <2>1, <1>4 DEF Out
  <2>2. CASE x # r
    <3>1. pc[x] # "unused" /\ f \in encoded[x] \X Part /\ local'[x] = local[x]
      BY <1>2, <1>4, <2>2
    <3>2. f \in local[x] \/ object[Out(x)][f] # None
      BY <3>1 DEF UploadInv
    <3>3. Out(x) \in Prefix /\ f \in File
      BY <3>1, OutIsPrefix DEF HlsTypeOK, File
    <3>4. QED
      BY <1>0, <1>2, <3>1, <3>2, <3>3, ObjectsStay DEF Out
  <2>3. QED
    BY <2>1, <2>2
<1>5. \A x \in Run : pc'[x] = "ok" => local'[x] = {}
  BY <1>1, <1>2 DEF UploadInv
<1>6. ASSUME NEW p \in Prefix, NEW f \in File, NEW x \in Run,
             object'[p][f] = x
      PROVE  pc'[x] # "unused" /\ PrefixOf[src'[x]] = p
  <2>1. CASE object[p][f] = x
    BY <1>1, <1>2, <2>1 DEF UploadInv, Out
  <2>2. CASE object[p][f] # x
    <3>1. PICK y \in Run, g \in File : /\ pc[y] = "upload"
                                       /\ Stored(y, g)
      BY <1>0, <1>6, <2>2, BucketStep
    <3>2. x = y /\ p = Out(y)
      BY <1>6, <2>2, <3>1, StoredEffect
    <3>3. QED
      BY <1>1, <1>2, <3>1, <3>2 DEF Out
  <2>3. QED
    BY <2>1, <2>2
<1>7. QED
  BY <1>3, <1>4, <1>5, <1>6 DEF UploadInv, Out

(* Every step of the program keeps UploadInv.                              *)
LEMMA NextUpload ==
    ASSUME HlsTypeOK, UploadInv, [HlsNext]_hlsVars
    PROVE  UploadInv'
<1>1. ASSUME NEW s \in Source, PutRaw(s)
      PROVE  UploadInv'
  BY <1>1 DEF PutRaw, UploadInv, Out
<1>2. ASSUME NEW r \in Run, NEW s \in Source, Begin(r, s)
      PROVE  UploadInv'
  <2>1. /\ pc[r] = "unused" /\ encoded[r] = {} /\ pc'[r] = "download"
        /\ \A x \in Run : x # r => pc'[x] = pc[x] /\ src'[x] = src[x]
        /\ object' = object /\ encoded' = encoded /\ local' = local
    BY <1>2 DEF Begin, Becomes, HlsTypeOK, UploadInv
  <2>2. \A p \in Prefix, f \in File : object[p][f] # r
    BY <2>1 DEF UploadInv
  <2>3. QED
    BY <2>1, <2>2 DEF UploadInv, Out
<1>3. ASSUME NEW r \in Run, Step(r) \/ Kill(r)
      PROVE  UploadInv'
  BY <1>3, StepUpload
<1>4. CASE UNCHANGED hlsVars
  BY <1>4 DEF hlsVars, UploadInv, Out
<1>5. QED
  BY <1>1, <1>2, <1>3, <1>4 DEF HlsNext

(* At any time, with any number of concurrent runs: what a run encoded is  *)
(* in its output directory or in the bucket, under its own prefix.         *)
THEOREM UploadSafety == HlsSpec => [](HlsTypeOK /\ UploadInv)
<1>1. HlsInit => HlsTypeOK /\ UploadInv
  BY HlsInitType, HlsAssumption DEF HlsInit, UploadInv
<1>2. HlsTypeOK /\ UploadInv /\ [HlsNext]_hlsVars => (HlsTypeOK /\ UploadInv)'
  BY NextType, NextUpload
<1>3. QED
  BY <1>1, <1>2, PTL DEF HlsSpec

(* Any number of concurrent calls of transcode_to_hls, failing, killed or  *)
(* overtaken by new uploads: when the one whose master playlist is in the  *)
(* bucket has returned, no listed file is missing.                         *)
THEOREM NothingListedIsMissing == HlsSpec => []ListedArePresent
<1>1. HlsTypeOK /\ UploadInv => ListedArePresent
  <2> SUFFICES ASSUME HlsTypeOK, UploadInv, NEW p \in Prefix,
                      object[p][Master] # None,
                      pc[object[p][Master]] = "ok",
                      NEW f \in Listed(p)
               PROVE  object[p][f] # None
    BY DEF ListedArePresent
  <2> DEFINE w == object[p][Master]
  <2>1. w \in Run /\ Master \in File
    BY DEF HlsTypeOK, File
  <2>2. Out(w) = p /\ local[w] = {} /\ pc[w] # "unused"
    BY <2>1 DEF UploadInv
  <2>3. QED
    BY <2>1, <2>2 DEF UploadInv, Listed
<1>2. QED
  BY <1>1, UploadSafety, PTL

-----------------------------------------------------------------------------
(* The queue worker makes all the runs: Sequential = Run.                  *)

(* While one call of transcode_to_hls is under way, no other is.           *)
LEMMA OneActive ==
    ASSUME SoleRunInv, NEW r \in Run, pc[r] \in Active,
           NEW x \in Run, pc[x] \in Active
    PROVE  x = r
  BY DEF SoleRunInv

(* An upload by the only run writes into an empty place of its prefix, and *)
(* next to its own master playlist unless it is the master playlist.       *)
LEMMA UploadIntoEmpty ==
    ASSUME HlsTypeOK, SoleRunInv, NEW r \in Run, NEW f \in File,
           pc[r] = "upload", f \in NextFiles(r), Stored(r, f)
    PROVE  /\ Out(r) \in Prefix
           /\ f \in local[r]
           /\ object[Out(r)][f] = None
           /\ object'[Out(r)][f] = r
           /\ \A p \in Prefix, g \in File :
                 p # Out(r) \/ g # f => object'[p][g] = object[p][g]
           /\ object'[Out(r)][Master] = r
           /\ f # Master => Master \notin local[r]
<1>1. f \in local[r] /\ (f # Master => Master \notin local[r])
  BY DEF NextFiles
<1>2. Master \in File
  BY DEF File
<1>3. /\ Out(r) \in Prefix
      /\ object'[Out(r)][f] = r
      /\ \A p \in Prefix, g \in File :
            p # Out(r) \/ g # f => object'[p][g] = object[p][g]
  BY StoredEffect
<1>4. /\ object[Out(r)][f] = None
      /\ object[Out(r)][Master] = (IF Master \in local[r] THEN None ELSE r)
  BY <1>1 DEF SoleRunInv
<1>5. QED
  BY <1>1, <1>2, <1>3, <1>4

(* Such an upload keeps every stream of one origin.                        *)
LEMMA UploadKeepsOrigin ==
    ASSUME HlsTypeOK, SoleRunInv, NEW r \in Run, NEW f \in File,
           pc[r] = "upload", f \in NextFiles(r), Stored(r, f)
    PROVE  OneOrigin'
<1>1. /\ Out(r) \in Prefix
      /\ f \in local[r]
      /\ object[Out(r)][f] = None
      /\ object'[Out(r)][f] = r
      /\ \A p \in Prefix, g \in File :
            p # Out(r) \/ g # f => object'[p][g] = object[p][g]
      /\ object'[Out(r)][Master] = r
      /\ f # Master => Master \notin local[r]
  BY UploadIntoEmpty
<1>2. Master \in File
  BY DEF File
<1>3. object[Out(r)][Master] \in {None, r}
  BY DEF SoleRunInv
<1>4. ASSUME NEW p \in Prefix, NEW g \in File
      PROVE  object'[p][g] \in {None, object'[p][Master]}
  <2>1. object[p][g] \in {None, object[p][Master]}
    BY DEF SoleRunInv, OneOrigin
  <2>2. CASE p = Out(r)
    BY <1>1, <1>3, <2>1, <2>2
  <2>3. CASE p # Out(r)
    BY <1>1, <1>2, <2>1, <2>3
  <2>4. QED
    BY <2>2, <2>3
<1>5. QED
  BY <1>4 DEF OneOrigin

(* A step of the only active run keeps SoleRunInv.                         *)
LEMMA StepSole ==
    ASSUME HlsTypeOK, SoleRunInv, NEW r \in Run, Step(r) \/ Kill(r)
    PROVE  SoleRunInv'
<1> USE DEF Active, Becomes, Leave
<1>1. pc[r] \in Active
  BY DEF Step, Kill, Download, DownloadFails, SkipExisting, StartEncoding,
         EncodeOk, GpuFails, SkipQuality, WriteMaster, Abort, PutObject,
         PutFails, Finish
<1>2. \A x \in Run : x # r => pc[x] \notin Active
  BY <1>1, OneActive
<1>3. /\ src' = src
      /\ \A x \in Run : x # r => pc'[x] = pc[x] /\ local'[x] = local[x]
  BY OtherRuns
<1>4. Out(r) \in Prefix /\ Master \in File
  BY <1>1, OutIsPrefix DEF File
<1>5. \A x, y \in Run : pc'[x] \in Active /\ pc'[y] \in Active => x = y
  BY <1>2, <1>3
<1>6. CASE UNCHANGED object
  <2>1. OneOrigin'
    BY <1>6 DEF SoleRunInv, OneOrigin
  <2>2. \A x \in Run : x # r /\ pc'[x] = "ok" => object'[Out(x)][Master] = x
    BY <1>3, <1>6 DEF SoleRunInv
  <2>3. pc'[r] = "ok" => object'[Out(r)][Master] = r
    BY <1>6 DEF Step, Kill, Download, DownloadFails, SkipExisting,
         StartEncoding, EncodeOk, GpuFails, SkipQuality, WriteMaster, Abort,
         PutObject, PutFails, Finish, SoleRunInv, HlsTypeOK
  <2>4. pc'[r] \in {"encode", "retry"} =>
           \A f \in File : object'[Out(r)][f] = None
    <3>1. CASE pc[r] \in {"encode", "retry"}
      BY <1>6, <3>1 DEF SoleRunInv
    <3>2. CASE StartEncoding(r)
      BY <1>4, <1>6, <3>2 DEF StartEncoding, SoleRunInv, OneOrigin
    <3>3. CASE pc[r] \notin {"encode", "retry"} /\ ~StartEncoding(r)
      BY <1>1, <3>3 DEF Step, Kill, Download, DownloadFails, SkipExisting,
           EncodeOk, GpuFails, SkipQuality, WriteMaster, Abort, PutObject,
           PutFails, Finish, HlsTypeOK
    <3>4. QED
      BY <3>1, <3>2, <3>3
  <2>5. pc'[r] = "upload" =>
           /\ \A f \in local'[r] : object'[Out(r)][f] = None
           /\ object'[Out(r)][Master] = (IF Master \in local'[r] THEN None ELSE r)
    <3>1. CASE WriteMaster(r)
      BY <1>4, <1>6, <3>1 DEF WriteMaster, SoleRunInv, HlsTypeOK
    <3>2. ASSUME NEW f \in File, PutObject(r, f)
          PROVE  FALSE
      BY <1>4, <1>6, <3>2, UploadIntoEmpty, HlsAssumption DEF PutObject
    <3>3. CASE pc'[r] # "upload"
      BY <3>3
    <3>4. QED
      BY <1>1, <3>1, <3>2, <3>3 DEF Step, Kill, Download, DownloadFails,
         SkipExisting, StartEncoding, EncodeOk, GpuFails, SkipQuality,
         Abort, PutFails, Finish, HlsTypeOK
  <2>6. QED
    BY <1>2, <1>3, <1>5, <2>1, <2>2, <2>3, <2>4, <2>5 DEF SoleRunInv, Out
<1>7. ASSUME NEW f \in File, PutObject(r, f) \/ PutFails(r, f), Stored(r, f)
      PROVE  SoleRunInv'
  <2>1. pc[r] = "upload" /\ f \in NextFiles(r)
    BY <1>7 DEF PutObject, PutFails
  <2>2. /\ f \in local[r]
        /\ object[Out(r)][f] = None
        /\ object'[Out(r)][f] = r
        /\ \A p \in Prefix, g \in File :
              p # Out(r) \/ g # f => object'[p][g] = object[p][g]
        /\ object'[Out(r)][Master] = r
        /\ f # Master => Master \notin local[r]
    BY <1>7, <2>1, UploadIntoEmpty
  <2>3. OneOrigin'
    BY <1>7, <2>1, UploadKeepsOrigin
  <2>4. \A x \in Run : pc'[x] = "ok" => object'[Out(x)][Master] = x
    <3> SUFFICES ASSUME NEW x \in Run, pc'[x] = "ok"
                 PROVE  object'[Out(x)][Master] = x
      OBVIOUS
    <3>1. x # r /\ pc[x] = "ok"
      BY <1>3, <1>7, <2>1 DEF PutObject, PutFails, HlsTypeOK
    <3>2. object[Out(x)][Master] = x /\ Out(x) \in Prefix
      BY <3>1, OutIsPrefix DEF SoleRunInv
    <3>3. object[Out(r)][Master] \in {None, r}
      BY <2>1 DEF SoleRunInv
    <3>4. Out(x) # Out(r)
      BY <3>1, <3>2, <3>3, HlsAssumption
    <3>5. QED
      BY <1>4, <2>2, <3>2, <3>4
  <2>5. pc'[r] = "upload" =>
           /\ \A g \in local'[r] : object'[Out(r)][g] = None
           /\ object'[Out(r)][Master] = (IF Master \in local'[r] THEN None ELSE r)
    <3>1. CASE PutObject(r, f)
      <4>1. local'[r] = local[r] \ {f} /\ local[r] \subseteq File
        BY <3>1 DEF PutObject, HlsTypeOK
      <4>2. \A g \in local[r] : object[Out(r)][g] = None
        BY <2>1 DEF SoleRunInv
      <4>3. \A g \in local'[r] : object'[Out(r)][g] = None
        BY <1>4, <2>2, <4>1, <4>2
      <4>4. Master \notin local'[r]
        BY <2>2, <4>1
      <4>5. QED
        BY <2>2, <4>3, <4>4
    <3>2. CASE PutFails(r, f)
      BY <3>2 DEF PutFails, HlsTypeOK
    <3>3. QED
      BY <1>7, <3>1, <3>2
  <2>6. pc'[r] \notin {"encode", "retry"}
    BY <1>7, <2>1 DEF PutObject, PutFails, HlsTypeOK
  <2>7. QED
    BY <1>2, <1>3, <1>5, <2>3, <2>4, <2>5, <2>6 DEF SoleRunInv, Out
<1>8. QED
  BY <1>6, <1>7 DEF Step, Kill, Download, DownloadFails, SkipExisting,
     StartEncoding, EncodeOk, GpuFails, SkipQuality, WriteMaster, Abort,
     PutObject, PutFails, Finish

(* Every step of the program keeps SoleRunInv, when the queue worker makes *)
(* all the runs.                                                           *)
LEMMA NextSole ==
    ASSUME Sequential = Run, HlsTypeOK, UploadInv, SoleRunInv,
           [HlsNext]_hlsVars
    PROVE  SoleRunInv'
<1>1. ASSUME NEW s \in Source, PutRaw(s)
      PROVE  SoleRunInv'
  BY <1>1 DEF PutRaw, SoleRunInv, OneOrigin, Out
<1>2. ASSUME NEW r \in Run, NEW s \in Source, Begin(r, s)
      PROVE  SoleRunInv'
  <2>1. /\ pc[r] = "unused" /\ pc'[r] = "download"
        /\ \A x \in Run : pc[x] \notin Active
        /\ \A x \in Run : x # r => pc'[x] = pc[x] /\ src'[x] = src[x]
        /\ object' = object /\ local' = local
    BY <1>2 DEF Begin, Becomes, HlsTypeOK
  <2>2. \A x, y \in Run : pc'[x] \in Active /\ pc'[y] \in Active => x = y
    BY <2>1
  <2>3. \A x \in Run : pc'[x] \notin {"encode", "retry", "upload"}
    BY <2>1 DEF Active
  <2>4. \A x \in Run : pc'[x] = "ok" =>
           object'[PrefixOf[src'[x]]][Master] = x
    BY <2>1 DEF SoleRunInv, Out
  <2>5. QED
    BY <2>1, <2>2, <2>3, <2>4 DEF SoleRunInv, OneOrigin, Out
<1>3. ASSUME NEW r \in Run, Step(r) \/ Kill(r)
      PROVE  SoleRunInv'
  BY <1>3, StepSole
<1>4. CASE UNCHANGED hlsVars
  BY <1>4 DEF hlsVars, SoleRunInv, OneOrigin, Out
<1>5. QED
  BY <1>1, <1>2, <1>3, <1>4 DEF HlsNext

(* What the queue worker adds to UploadSafety: its runs, whatever fails or *)
(* is killed, find their prefix empty and publish the master first.        *)
THEOREM SoleRunSafety ==
    ASSUME Sequential = Run
    PROVE  HlsSpec => [](HlsTypeOK /\ UploadInv /\ SoleRunInv)
<1>1. HlsInit => HlsTypeOK /\ UploadInv /\ SoleRunInv
  <2>1. HlsInit => SoleRunInv
    BY HlsAssumption DEF HlsInit, SoleRunInv, OneOrigin, Active, File
  <2>2. QED
    BY <2>1, HlsInitType, HlsAssumption DEF HlsInit, UploadInv
<1>2. HlsTypeOK /\ UploadInv /\ SoleRunInv /\ [HlsNext]_hlsVars
         => (HlsTypeOK /\ UploadInv /\ SoleRunInv)'
  BY NextType, NextUpload, NextSole
<1>3. QED
  BY <1>1, <1>2, PTL DEF HlsSpec

(* No stream is stitched together from two runs of the queue worker.       *)
THEOREM StreamsHaveOneOrigin ==
    ASSUME Sequential = Run
    PROVE  HlsSpec => []OneOrigin
<1>1. SoleRunInv => OneOrigin
  BY DEF SoleRunInv
<1>2. QED
  BY <1>1, SoleRunSafety, PTL

(* The queue worker never replaces an object it has uploaded, so a CDN may *)
(* cache the segments for as long as it likes.                             *)
THEOREM WorkerNeverRewrites ==
    ASSUME Sequential = Run
    PROVE  HlsSpec => SegmentsImmutable
<1>1. HlsTypeOK /\ SoleRunInv /\ [HlsNext]_hlsVars =>
         \A p \in Prefix, f \in File :
            object[p][f] # None => object'[p][f] = object[p][f]
  <2> SUFFICES ASSUME HlsTypeOK, SoleRunInv, [HlsNext]_hlsVars,
                      NEW p \in Prefix, NEW f \in File,
                      object[p][f] # None
               PROVE  object'[p][f] = object[p][f]
    OBVIOUS
  <2>1. CASE UNCHANGED object
    BY <2>1
  <2>2. ASSUME NEW r \in Run, NEW g \in File, pc[r] = "upload",
               g \in NextFiles(r), Stored(r, g)
        PROVE  object'[p][f] = object[p][f]
    BY <2>2, UploadIntoEmpty
  <2>3. QED
    BY <2>1, <2>2, BucketStep
<1>2. QED
  BY <1>1, SoleRunSafety, PTL DEF HlsSpec, SegmentsImmutable

(* What the queue worker reports as completed is a stream that plays, and  *)
(* goes on playing whatever later runs do.                                 *)
THEOREM CompletedIsPlayable ==
    ASSUME Sequential = Run
    PROVE  HlsSpec => []OkMeansPlayable
<1>1. HlsTypeOK /\ UploadInv /\ SoleRunInv => OkMeansPlayable
  <2> SUFFICES ASSUME HlsTypeOK, UploadInv, SoleRunInv,
                      NEW r \in Run, pc[r] = "ok"
               PROVE  Playable(Out(r))
    BY DEF OkMeansPlayable
  <2>1. /\ object[Out(r)][Master] = r
        /\ local[r] = {}
    BY DEF SoleRunInv, UploadInv
  <2>2. Out(r) \in Prefix
    BY OutIsPrefix
  <2>3. ASSUME NEW f \in encoded[r] \X Part
        PROVE  object[Out(r)][f] = r
    <3>1. f \in File
      BY DEF HlsTypeOK, File
    <3>2. object[Out(r)][f] # None
      BY <2>1 DEF UploadInv
    <3>3. object[Out(r)][f] \in {None, r}
      BY <2>1, <2>2, <3>1 DEF SoleRunInv, OneOrigin
    <3>4. QED
      BY <3>2, <3>3
  <2>4. \A f \in encoded[r] \X Part : f[1] \in encoded[r]
    OBVIOUS
  <2>5. QED
    BY <2>1, <2>3, <2>4, HlsAssumption DEF Playable, Listed
<1>2. QED
  BY <1>1, SoleRunSafety, PTL

-----------------------------------------------------------------------------
(* Inductive: a run under way has its copy on disk and no refused unlink,  *)
(* and one that has not downloaded anything has no version, so that a      *)
(* failure after the download is told from one before it.                  *)
TempInv ==
    /\ TempReleased
    /\ \A r \in Run : pc[r] \in Active => r \in temp
    /\ \A r \in Run : pc[r] \in Active \cup {"unused"} => r \notin refused
    /\ \A r \in Run : pc[r] \in {"unused", "download"} => version[r] = 0

(* A step of a run, its end or its pod's keep TempInv.                     *)
LEMMA StepTemp ==
    ASSUME HlsTypeOK, TempInv, NEW r \in Run, Step(r) \/ Kill(r)
    PROVE  TempInv'
<1> USE DEF TempInv, TempReleased, HlsTypeOK, Active, Ended, Becomes, Leave, history
<1>1. CASE Download(r)
  BY <1>1 DEF Download
<1>2. CASE DownloadFails(r)
  BY <1>2 DEF DownloadFails
<1>3. CASE SkipExisting(r) \/ Abort(r) \/ Finish(r) \/ Kill(r)
  BY <1>3 DEF SkipExisting, Abort, Finish, Kill
<1>4. CASE StartEncoding(r) \/ GpuFails(r) \/ WriteMaster(r)
  BY <1>4 DEF StartEncoding, GpuFails, WriteMaster
<1>5. CASE EncodeOk(r) \/ SkipQuality(r)
  BY <1>5 DEF EncodeOk, SkipQuality
<1>6. ASSUME NEW f \in File, PutObject(r, f) \/ PutFails(r, f)
      PROVE  TempInv'
  BY <1>6 DEF PutObject, PutFails
<1>7. QED
  BY <1>1, <1>2, <1>3, <1>4, <1>5, <1>6 DEF Step

(* The temporary copies of raw videos that stay on disk are exactly those  *)
(* of failed downloads and of unlinks that raised: whichever other way a   *)
(* call ends, its finally clause has removed the copy.                     *)
THEOREM TempIsReleased == HlsSpec => []TempReleased
<1>1. HlsInit => TempInv
  BY DEF HlsInit, TempInv, TempReleased, Ended, Active
<1>2. HlsTypeOK /\ TempInv /\ [HlsNext]_hlsVars => TempInv'
  <2> SUFFICES ASSUME HlsTypeOK, TempInv, [HlsNext]_hlsVars
               PROVE  TempInv'
    OBVIOUS
  <2> USE DEF TempInv, TempReleased, Active, Ended, history
  <2>1. ASSUME NEW s \in Source, PutRaw(s)
        PROVE  TempInv'
    BY <2>1 DEF PutRaw
  <2>2. ASSUME NEW r \in Run, NEW s \in Source, Begin(r, s)
        PROVE  TempInv'
    BY <2>2 DEF Begin, Becomes, HlsTypeOK
  <2>3. CASE UNCHANGED hlsVars
    BY <2>3 DEF hlsVars
  <2>4. QED
    BY <2>1, <2>2, <2>3, StepTemp DEF HlsNext
<1>3. TempInv => TempReleased
  BY DEF TempInv
<1>4. QED
  BY <1>1, <1>2, <1>3, HlsTypes, PTL DEF HlsSpec

-----------------------------------------------------------------------------
(* Any runs, serialised or not.                                            *)

(* How the place of a run may change in a step of its own.                 *)
LEMMA PlaceStep ==
    ASSUME HlsTypeOK, NEW r \in Run, Step(r) \/ Kill(r), ~StartEncoding(r)
    PROVE  /\ overlapped' = overlapped
           /\ pc'[r] \in Writing => pc[r] \in Writing
           /\ pc'[r] \in {"encode", "retry"} => pc[r] \in {"encode", "retry"}
           /\ pc'[r] = "upload" =>
                 \/ pc[r] = "upload"
                 \/ pc[r] \in {"encode", "retry"} /\ Master \in local'[r]
           /\ pc'[r] = "ok" => pc[r] = "upload" /\ local[r] = {}
  BY DEF HlsTypeOK, Writing, Active, Becomes, Leave, Step, Kill, Download,
         DownloadFails, SkipExisting, EncodeOk, GpuFails, SkipQuality,
         WriteMaster, Abort, PutObject, PutFails, Finish, history

(* A step that writes nothing to the bucket keeps the output directory of  *)
(* a run that is uploading.                                                *)
LEMMA QuietStep ==
    ASSUME HlsTypeOK, NEW r \in Run, Step(r) \/ Kill(r),
           \A f \in File : Stored(r, f) => ~PutObject(r, f) /\ ~PutFails(r, f)
    PROVE  /\ object' = object
           /\ pc[r] = "upload" /\ pc'[r] = "upload" => local'[r] = local[r]
  BY DEF HlsTypeOK, Active, Becomes, Leave, Step, Kill, Download,
         DownloadFails, SkipExisting, StartEncoding, EncodeOk, GpuFails,
         SkipQuality, WriteMaster, Abort, PutObject, PutFails, Finish

(* The check of "HLS already exists" that finds nothing.                   *)
LEMMA StartAlone ==
    ASSUME HlsTypeOK, AloneInv, NEW r \in Run, StartEncoding(r)
    PROVE  AloneInv'
<1>1. /\ src' = src /\ object' = object /\ local' = local
      /\ pc[r] = "check" /\ pc'[r] = "encode"
      /\ \A x \in Run : x # r => pc'[x] = pc[x]
      /\ object[Out(r)][Master] = None
      /\ overlapped' = overlapped \cup Meets(r)
  BY DEF StartEncoding, Becomes, HlsTypeOK
<1>2. ASSUME NEW x \in Run, NEW y \in Run, x # y, Out(x) = Out(y),
             pc'[x] \in Writing, pc'[y] \in Writing
      PROVE  x \in overlapped'
  <2>1. CASE x # r /\ y # r
    BY <1>1, <1>2, <2>1 DEF AloneInv
  <2>2. CASE x = r
    BY <1>1, <1>2, <2>2 DEF Meets
  <2>3. CASE y = r
    BY <1>1, <1>2, <2>3 DEF Meets
  <2>4. QED
    BY <2>1, <2>2, <2>3
<1>3. ASSUME NEW y \in Run, y \notin overlapped', pc'[y] = "ok",
             NEW x \in Run, pc'[x] \in Writing
      PROVE  Out(x) # Out(y)
  <2>1. y # r /\ pc[y] = "ok" /\ y \notin overlapped
    BY <1>1, <1>3
  <2>2. CASE x = r
    BY <1>1, <2>1, <2>2, HlsAssumption DEF AloneInv
  <2>3. CASE x # r
    BY <1>1, <1>3, <2>1, <2>3 DEF AloneInv
  <2>4. QED
    BY <2>2, <2>3
<1>4. \A y \in Run \ overlapped' :
         /\ pc'[y] \in {"encode", "retry"} => object[Out(y)][Master] = None
         /\ pc'[y] \in {"upload", "ok"} =>
               \A f \in File : object[Out(y)][f] \in {None, y}
         /\ pc'[y] = "ok" => object[Out(y)][Master] = y
  BY <1>1 DEF AloneInv
<1>5. \A y \in Run : pc'[y] = "upload" /\ Master \notin local[y] =>
         object[Out(y)][Master] # None
  BY <1>1 DEF AloneInv
<1>6. \A p \in Prefix, f \in File : object[p][f] # None => object[p][Master] # None
  BY DEF AloneInv
<1>7. QED
  BY <1>1, <1>2, <1>3, <1>4, <1>5, <1>6 DEF AloneInv, Out

(* An upload of a file.                                                    *)
LEMMA StoreAlone ==
    ASSUME HlsTypeOK, AloneInv, NEW r \in Run, NEW f \in File,
           PutObject(r, f) \/ PutFails(r, f), Stored(r, f)
    PROVE  AloneInv'
<1>1. /\ src' = src /\ overlapped' = overlapped
      /\ pc[r] = "upload" /\ pc'[r] \in {"upload", "failed"}
      /\ \A x \in Run : x # r => pc'[x] = pc[x] /\ local'[x] = local[x]
      /\ f # Master => Master \notin local[r]
  BY DEF PutObject, PutFails, Leave, Becomes, HlsTypeOK, history, NextFiles
<1>2. /\ Out(r) \in Prefix /\ Master \in File
      /\ object'[Out(r)][f] = r
      /\ \A p \in Prefix, g \in File :
            p # Out(r) \/ g # f => object'[p][g] = object[p][g]
  BY <1>1, StoredEffect DEF File
<1>3. object'[Out(r)][Master] # None
  BY <1>1, <1>2, HlsAssumption DEF AloneInv
<1>4. \A p \in Prefix, g \in File : object'[p][g] # None => object'[p][Master] # None
  BY <1>2, <1>3 DEF AloneInv
<1>5. ASSUME NEW y \in Run, pc'[y] = "upload", Master \notin local'[y]
      PROVE  object'[Out(y)][Master] # None
  <2>1. CASE Out(y) = Out(r)
    BY <1>3, <2>1
  <2>2. CASE Out(y) # Out(r)
    <3>1. y # r /\ pc[y] = "upload" /\ Master \notin local[y]
      BY <1>1, <1>5, <2>2
    <3>2. object[Out(y)][Master] # None /\ Out(y) \in Prefix
      BY <3>1, OutIsPrefix DEF AloneInv
    <3>3. QED
      BY <1>2, <2>2, <3>2
  <2>3. QED
    BY <2>1, <2>2
<1>6. \A x, y \in Run :
         pc'[x] \in Writing /\ pc'[y] \in Writing /\ Out(x) = Out(y) /\ x # y =>
            x \in overlapped
  BY <1>1 DEF AloneInv, Writing
<1>7. ASSUME NEW y \in Run \ overlapped, y # r, pc[y] \in Writing \cup {"ok"}
      PROVE  \A g \in File : object'[Out(y)][g] = object[Out(y)][g]
  <2>1. Out(y) # Out(r)
    BY <1>1, <1>7 DEF AloneInv, Writing
  <2>2. Out(y) \in Prefix
    BY <1>7, OutIsPrefix DEF Writing
  <2>3. QED
    BY <1>2, <2>1, <2>2
<1>8. ASSUME NEW y \in Run \ overlapped
      PROVE  /\ pc'[y] \in {"encode", "retry"} => object'[Out(y)][Master] = None
             /\ pc'[y] \in {"upload", "ok"} =>
                   \A g \in File : object'[Out(y)][g] \in {None, y}
             /\ pc'[y] = "ok" =>
                   /\ object'[Out(y)][Master] = y
                   /\ \A x \in Run : pc'[x] \in Writing => Out(x) # Out(y)
  <2>1. CASE y = r
    <3>1. \A g \in File : object[Out(r)][g] \in {None, r}
      BY <1>1, <1>8, <2>1 DEF AloneInv
    <3>2. \A g \in File : object'[Out(r)][g] \in {None, r}
      BY <1>2, <3>1
    <3>3. QED
      BY <1>1, <2>1, <3>2
  <2>2. CASE y # r
    <3>1. pc'[y] = pc[y]
      BY <1>1, <2>2
    <3>2. \A x \in Run : pc'[x] \in Writing => pc[x] \in Writing
      BY <1>1 DEF Writing
    <3>3. QED
      BY <1>2, <1>7, <1>8, <2>2, <3>1, <3>2 DEF AloneInv, Writing
  <2>3. QED
    BY <2>1, <2>2
<1>9. QED
  BY <1>1, <1>4, <1>5, <1>6, <1>8 DEF AloneInv, Out

(* Any other step of a run.                                                *)
LEMMA QuietAlone ==
    ASSUME HlsTypeOK, AloneInv, NEW r \in Run, Step(r) \/ Kill(r),
           ~StartEncoding(r),
           \A f \in File : Stored(r, f) => ~PutObject(r, f) /\ ~PutFails(r, f)
    PROVE  AloneInv'
<1>1. /\ overlapped' = overlapped
      /\ pc'[r] \in Writing => pc[r] \in Writing
      /\ pc'[r] \in {"encode", "retry"} => pc[r] \in {"encode", "retry"}
      /\ pc'[r] = "upload" =>
            \/ pc[r] = "upload"
            \/ pc[r] \in {"encode", "retry"} /\ Master \in local'[r]
      /\ pc'[r] = "ok" => pc[r] = "upload" /\ local[r] = {}
  BY PlaceStep
<1>2. /\ object' = object
      /\ pc[r] = "upload" /\ pc'[r] = "upload" => local'[r] = local[r]
  BY QuietStep
<1>3. /\ src' = src
      /\ \A x \in Run : x # r => pc'[x] = pc[x] /\ local'[x] = local[x]
  BY OtherRuns
<1>4. \A x \in Run : pc'[x] \in Writing => pc[x] \in Writing
  BY <1>1, <1>3
<1>5. \A y \in Run : pc'[y] = "upload" /\ Master \notin local'[y] =>
         object[Out(y)][Master] # None
  BY <1>1, <1>2, <1>3 DEF AloneInv
<1>6. ASSUME NEW y \in Run \ overlapped
      PROVE  /\ pc'[y] \in {"encode", "retry"} => object[Out(y)][Master] = None
             /\ pc'[y] \in {"upload", "ok"} =>
                   \A g \in File : object[Out(y)][g] \in {None, y}
             /\ pc'[y] = "ok" =>
                   /\ object[Out(y)][Master] = y
                   /\ \A x \in Run : pc'[x] \in Writing => Out(x) # Out(y)
  <2>1. CASE y = r
    <3>1. pc'[r] \in {"encode", "retry"} => object[Out(r)][Master] = None
      BY <1>1, <1>6, <2>1 DEF AloneInv
    <3>2. CASE pc[r] \in {"encode", "retry"} /\ pc'[r] = "upload"
      <4>1. object[Out(r)][Master] = None /\ Out(r) \in Prefix
        BY <1>6, <2>1, <3>2, OutIsPrefix DEF AloneInv
      <4>2. \A g \in File : object[Out(r)][g] = None
        BY <4>1 DEF AloneInv
      <4>3. QED
        BY <2>1, <3>2, <4>2
    <3>3. CASE pc[r] = "upload" /\ pc'[r] \in {"upload", "ok"}
      <4>1. \A g \in File : object[Out(r)][g] \in {None, r}
        BY <1>6, <2>1, <3>3 DEF AloneInv
      <4>2. pc'[r] = "ok" => object[Out(r)][Master] = r
        <5>1. pc'[r] = "ok" => object[Out(r)][Master] # None
          BY <1>1 DEF AloneInv
        <5>2. QED
          BY <4>1, <5>1 DEF File
      <4>3. \A x \in Run : pc'[x] \in Writing /\ x # r => Out(x) # Out(r)
        BY <1>4, <1>6, <2>1, <3>3 DEF AloneInv, Writing
      <4>4. QED
        BY <2>1, <3>3, <4>1, <4>2, <4>3 DEF Writing
    <3>4. QED
      BY <1>1, <2>1, <3>1, <3>2, <3>3
  <2>2. CASE y # r
    BY <1>3, <1>4, <1>6, <2>2 DEF AloneInv
  <2>3. QED
    BY <2>1, <2>2
<1>7. QED
  BY <1>1, <1>2, <1>3, <1>4, <1>5, <1>6 DEF AloneInv, Out

(* Every step of the program keeps AloneInv.                               *)
LEMMA NextAlone ==
    ASSUME HlsTypeOK, AloneInv, [HlsNext]_hlsVars
    PROVE  AloneInv'
<1>1. ASSUME NEW s \in Source, PutRaw(s)
      PROVE  AloneInv'
  BY <1>1 DEF PutRaw, AloneInv, Out, history
<1>2. ASSUME NEW r \in Run, NEW s \in Source, Begin(r, s)
      PROVE  AloneInv'
  <2>1. /\ pc'[r] = "download"
        /\ \A x \in Run : x # r => pc'[x] = pc[x] /\ src'[x] = src[x]
        /\ object' = object /\ local' = local /\ overlapped' = overlapped
    BY <1>2 DEF Begin, Becomes, HlsTypeOK, history
  <2>2. QED
    BY <2>1 DEF AloneInv, Out, Writing
<1>3. ASSUME NEW r \in Run, Step(r) \/ Kill(r)
      PROVE  AloneInv'
  BY <1>3, StartAlone, StoreAlone, QuietAlone
<1>4. CASE UNCHANGED hlsVars
  BY <1>4 DEF hlsVars, history, AloneInv, Out
<1>5. QED
  BY <1>1, <1>2, <1>3, <1>4 DEF HlsNext

(* However many calls of transcode_to_hls run at a time, for however many  *)
(* sources with one file_id: one that returned after uploading, and had no *)
(* other encode or upload for its prefix meanwhile, left a stream that     *)
(* plays and goes on playing.                                              *)
THEOREM AloneIsPlayable == HlsSpec => []AloneMeansPlayable
<1>1. HlsInit => AloneInv
  BY HlsAssumption DEF HlsInit, AloneInv, Writing
<1>2. HlsTypeOK /\ AloneInv /\ [HlsNext]_hlsVars => AloneInv'
  BY NextAlone
<1>3. HlsTypeOK /\ UploadInv /\ AloneInv => AloneMeansPlayable
  <2> SUFFICES ASSUME HlsTypeOK, UploadInv, AloneInv,
                      NEW r \in Run, pc[r] = "ok", r \notin overlapped
               PROVE  Playable(Out(r))
    BY DEF AloneMeansPlayable
  <2>1. /\ object[Out(r)][Master] = r
        /\ local[r] = {}
    BY DEF AloneInv, UploadInv
  <2>2. ASSUME NEW f \in encoded[r] \X Part
        PROVE  object[Out(r)][f] = r
    <3>1. f \in File
      BY DEF HlsTypeOK, File
    <3>2. object[Out(r)][f] # None
      BY <2>1 DEF UploadInv
    <3>3. object[Out(r)][f] \in {None, r}
      BY <3>1 DEF AloneInv
    <3>4. QED
      BY <3>2, <3>3
  <2>3. \A f \in encoded[r] \X Part : f[1] \in encoded[r]
    OBVIOUS
  <2>4. QED
    BY <2>1, <2>2, <2>3, HlsAssumption DEF Playable, Listed
<1>4. QED
  BY <1>1, <1>2, <1>3, UploadSafety, PTL DEF HlsSpec
=============================================================================
