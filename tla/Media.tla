------------------------------- MODULE Media --------------------------------
(***************************************************************************)
(* The media service (services/media_service/app/main.py): download an     *)
(* image, video or sound, analyse it, publish the result to media:results  *)
(* and only then write it to the mention's row.  The request is            *)
(* acknowledged whatever happened.                                         *)
(*                                                                         *)
(* A result is the set of its parts that came out nonempty.  Each analysis *)
(* returns an empty part when its library is missing and when it fails, so *)
(* what is missing from a result does not tell why.                        *)
(***************************************************************************)
EXTENDS ConsumerLoop

CONSTANTS
    MediaRequests,      \* [mention, kind]: the requests there may be
    MissingMentions     \* mentions whose row has been deleted meanwhile

VARIABLES
    result,             \* what each replica found in the medium at hand
    mediaResults,       \* history: <<mention, parts>> published to media:results
    mediaRow            \* the media columns of each mention's row

mediaVars == <<loopVars, result, mediaResults, mediaRow>>

MediaPlaces == {"analyze", "publish", "update"}

Parts == {"ocr", "labels", "logos", "transcript"}

MediaMentions == {request.mention : request \in MediaRequests}

(* analyze_media: the parts a kind of medium can have.  A request without  *)
(* a URL, or with one validate_url refuses, has the kind "none".           *)
PartsOf(kind) ==
    CASE kind = "image" -> {"ocr", "labels", "logos"}
      [] kind = "video" -> Parts
      [] kind = "audio" -> {"transcript"}
      [] OTHER          -> {}

MediaInit ==
    /\ LoopInit
    /\ result = [w \in Workers |-> {}]
    /\ mediaResults = {}
    /\ mediaRow = [m \in MediaMentions |-> {}]

RequestMedia(request) ==
    Add(request) /\ UNCHANGED <<result, mediaResults, mediaRow>>

SkipMedia(w, id) ==
    /\ At(w, "handle", id)
    /\ EntryAt(id).kind = "none"
    /\ Step(w, "finally")
    /\ UNCHANGED <<result, mediaResults, mediaRow>>

(* download_media through its circuit breaker: refused, failed, too large  *)
(* or on disk.                                                             *)
Download(w, id, arrived) ==
    /\ At(w, "handle", id)
    /\ EntryAt(id).kind # "none"
    /\ Step(w, IF arrived THEN "analyze" ELSE "finally")
    /\ UNCHANGED <<result, mediaResults, mediaRow>>

(* A frame of a video that cannot be opened is left out; an image that     *)
(* cannot be opened ends the handler.                                      *)
AnalyzeImage(w, id, parts, readable) ==
    /\ At(w, "analyze", id)
    /\ EntryAt(id).kind = "image"
    /\ Step(w, IF readable THEN "publish" ELSE "finally")
    /\ result' = IF readable THEN [result EXCEPT ![w] = parts] ELSE result
    /\ UNCHANGED <<mediaResults, mediaRow>>

AnalyzeSound(w, id, parts) ==
    /\ At(w, "analyze", id)
    /\ EntryAt(id).kind \notin {"none", "image"}
    /\ Step(w, "publish")
    /\ result' = [result EXCEPT ![w] = parts]
    /\ UNCHANGED <<mediaResults, mediaRow>>

\* Mutant of PublishResult: goes on to the row although publishing raised.
PublishResultSwallowing(w, id, reply) ==
    /\ At(w, "publish", id)
    /\ mediaResults' = IF Applied(reply)
                       THEN mediaResults \cup {<<EntryAt(id).mention, result[w]>>}
                       ELSE mediaResults
    /\ Step(w, "update")
    /\ UNCHANGED <<result, mediaRow>>

PublishResult(w, id, reply) ==
    /\ At(w, "publish", id)
    /\ mediaResults' = IF Applied(reply)
                       THEN mediaResults \cup {<<EntryAt(id).mention, result[w]>>}
                       ELSE mediaResults
    /\ Step(w, IF Raised(reply) THEN "finally" ELSE "update")
    /\ UNCHANGED <<result, mediaRow>>

(* update_mention_media: an UPDATE that finds no row changes nothing and   *)
(* raises nothing.                                                         *)
UpdateMention(w, id, reply) ==
    LET m == EntryAt(id).mention
    IN  /\ At(w, "update", id)
        /\ mediaRow' = IF Applied(reply) /\ m \notin MissingMentions
                       THEN [mediaRow EXCEPT ![m] = result[w]]
                       ELSE mediaRow
        /\ Step(w, "finally")
        /\ UNCHANGED <<result, mediaResults>>

(* result is local to the handling of one message.                         *)
ForgetResult(w) ==
    /\ result' = [result EXCEPT ![w] = {}]
    /\ UNCHANGED <<mediaResults, mediaRow>>

MediaStep(w) ==
    \/ \E reply \in Replies : Consume(w, reply) /\ UNCHANGED <<result, mediaResults, mediaRow>>
    \/ \E id \in todo[w] :
          \/ SkipMedia(w, id)
          \/ \E arrived \in BOOLEAN : Download(w, id, arrived)
          \/ \E parts \in SUBSET PartsOf(EntryAt(id).kind) :
                \/ \E readable \in BOOLEAN : AnalyzeImage(w, id, parts, readable)
                \/ AnalyzeSound(w, id, parts)
          \/ \E reply \in Replies :
                \/ PublishResult(w, id, reply)
                \/ UpdateMention(w, id, reply)
                \/ AckFinally(w, id, reply) /\ ForgetResult(w)

MediaNext ==
    \/ \E request \in MediaRequests : RequestMedia(request)
    \/ \E w \in Workers :
          \/ MediaStep(w)
          \/ CrashLoop(w) /\ ForgetResult(w)

MediaSpec == MediaInit /\ [][MediaNext]_mediaVars

-----------------------------------------------------------------------------
MediaTypeOK ==
    /\ LoopTypeOK(MediaRequests, MediaPlaces)
    /\ result \in [Workers -> SUBSET Parts]
    /\ mediaResults \in SUBSET (MediaMentions \X SUBSET Parts)
    /\ mediaRow \in [MediaMentions -> SUBSET Parts]

(* Whatever fails in between, a mention's media columns never hold what    *)
(* was not announced on media:results first.                               *)
MediaRowWasAnnounced ==
    \A m \in MediaMentions : mediaRow[m] = {} \/ <<m, mediaRow[m]>> \in mediaResults
=============================================================================
