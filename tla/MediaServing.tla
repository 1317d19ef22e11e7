---------------------------- MODULE MediaServing ----------------------------
(***************************************************************************)
(* Media: /media/<transform>/<id>, served by the parent worker.  An object *)
(* of R2, under one of the keys that the id may stand for, is looked up,   *)
(* sniffed, read and served whole, as a slice of a video or transformed by *)
(* the Images binding; whole answers are kept at the edge.                 *)
(*                                                                         *)
(* One id.  An object is a kind of picture or a video, its metadata may    *)
(* have its type or not, and it has a size in units.  Objects may be       *)
(* replaced or removed while they are served.                              *)
(***************************************************************************)
EXTENDS Naturals, Absence

CONSTANTS
  Fetches,      \* requests that may be under way at a time
  MaxSize,      \* the size of the largest object
  MaxUploads    \* bound on uploads and removals

ASSUME MediaAssumption == MaxSize \in Nat /\ MaxUploads \in Nat

VARIABLES
  bucket,       \* MEDIA_BUCKET: the object under each key
  mediaEdge,    \* caches.default of one place: what is kept under each cache key
  fetch,        \* the requests
  uploads

mediaVars == <<bucket, mediaEdge, fetch, uploads>>

\* mediaKeyCandidates: the id, and the id without its prefix.
Candidates == 1..2

MediaObject == [kind : {"video", "svg", "gif", "png"}, typed : BOOLEAN,
                size : 1..MaxSize, upload : 1..MaxUploads]

\* The original, a transformation to a format, or one whose format is negotiated.
Transforms == {"original", "jpeg", "auto"}
AcceptClasses == {"avif", "webp", "base"}

\* A Range header: all from a unit on, the units from one to another, the last ones.
RangeHeaders == [form : {"from", "last"}, a : 0..MaxSize, b : {0}]
                \cup [form : {"between"}, a : {0}, b : 0..MaxSize]

MediaRequest == [method : {"GET", "HEAD"}, transform : Transforms,
                 accept : AcceptClasses, range : RangeHeaders \cup {None}]

\* A response: the bytes of an object that it has, and what it says they are.
\* `mixed': the object was another when it was looked up or sniffed.
NoSlice == [offset |-> 0, length |-> 0]
Slices == [offset : 0..MaxSize, length : 0..MaxSize + 1]
MediaResponse == [status : {200, 206, 404, 500}, object : MediaObject \cup {None},
                  body : Slices, claimed : Slices, mixed : BOOLEAN,
                  format : {"video", "svg", "gif", "png", "jpeg", "avif", "webp", None}]

Failure(status) == [status |-> status, object |-> None, body |-> NoSlice,
                    claimed |-> NoSlice, mixed |-> FALSE, format |-> None]

FetchRecord == [pc : {"idle", "head", "magic", "get", "answered"},
                request : MediaRequest \cup {None}, key : Candidates,
                found : MediaObject \cup {None}, sniffed : MediaObject \cup {None},
                answer : MediaResponse \cup {None}]
NoFetch == [pc |-> "idle", request |-> None, key |-> 1, found |-> None,
            sniffed |-> None, answer |-> None]

-----------------------------------------------------------------------------

\* getMediaCacheKey: the Accept class is part of it where the format is negotiated.
CacheKeys == {<<t, "any">> : t \in Transforms \ {"auto"}} \cup {<<"auto", c>> : c \in AcceptClasses}
MediaKeyOf(request) == IF request.transform = "auto" THEN <<"auto", request.accept>>
                       ELSE <<request.transform, "any">>

\* A request with a Range is not answered by the edge: the key has no range.
AlwaysAsks(request) == TRUE
AsksEdge(request) == request.range = None

\* response.ok, not a part, and of a GET.
IsKept(request, answer) == answer.status = 200 /\ request.method = "GET"

Whole(object) == [offset |-> 0, length |-> object.size]

\* parseByteRange.
ParseByteRange(range, size) ==
  LET Least(m, n) == IF m < n THEN m ELSE n IN
  CASE range.form = "last" ->
         [offset |-> size - Least(range.a, size), length |-> Least(range.a, size)]
    [] range.form = "from" ->
         [offset |-> range.a, length |-> IF range.a < size THEN size - range.a ELSE 0]
    [] range.form = "between" -> [offset |-> range.a, length |-> range.b - range.a + 1]

\* "bytes=-0" is no range.
Parses(range) == range # None /\ ~(range.form = "last" /\ range.a = 0)

\* R2 reads no more than there is, and refuses a range that begins beyond the end.
Satisfiable(slice, object) == slice.offset < object.size /\ slice.length > 0
Clipped(slice, object) ==
  [slice EXCEPT !.length = IF slice.offset + @ > object.size THEN object.size - slice.offset
                           ELSE @]

\* What is known of an object: by its metadata, or else by its first bytes.
SaysKind(found, sniffed, kind) ==
  \/ found # None /\ found.typed /\ found.kind = kind
  \/ sniffed # None /\ sniffed.kind = kind

\* resolveContentType.
ContentType(object, sniffed) ==
  IF object.typed THEN object.kind ELSE IF sniffed # None THEN sniffed.kind ELSE "jpeg"

\* resolveOutputFormat; the original format is only known when it was sniffed.
OutputFormat(request, object, sniffed) ==
  CASE request.transform = "jpeg" -> "jpeg"
    [] request.transform = "auto" /\ SaysKind(object, sniffed, "gif") -> "gif"
    [] request.transform = "auto" /\ ~SaysKind(object, sniffed, "gif") ->
         IF request.accept # "base" THEN request.accept
         ELSE IF SaysKind(None, sniffed, "png") THEN "png" ELSE "jpeg"

\* serveMediaObject.  A HEAD gets no bytes.
Served(request, slice, object, found, sniffed) ==
  LET mixed == object # found \/ (sniffed \notin {None, object})
      answer(status, claimed, format) ==
        [status |-> status, object |-> object, claimed |-> claimed, mixed |-> mixed,
         body |-> IF request.method = "HEAD" THEN NoSlice ELSE slice,
         format |-> format] IN
  CASE SaysKind(object, sniffed, "video") /\ Parses(request.range) ->
         answer(206, ParseByteRange(request.range, object.size), "video")
    [] SaysKind(object, sniffed, "video") /\ ~Parses(request.range) ->
         answer(200, Whole(object), "video")
    [] SaysKind(object, sniffed, "svg") /\ ~SaysKind(object, sniffed, "video") ->
         answer(200, Whole(object), ContentType(object, sniffed))
    [] ~SaysKind(object, sniffed, "svg") /\ ~SaysKind(object, sniffed, "video") ->
         answer(200, Whole(object),
                IF request.transform = "original" THEN ContentType(object, sniffed)
                ELSE OutputFormat(request, object, sniffed))

-----------------------------------------------------------------------------

\* handleMediaRequest: the edge first.
ReceiveFetch(f, request) ==
  LET kept == mediaEdge[MediaKeyOf(request)] IN
  /\ fetch[f].pc = "idle"
  /\ fetch' = [fetch EXCEPT ![f] =
       IF AsksEdge(request) /\ kept # None
       THEN [NoFetch EXCEPT !.pc = "answered", !.request = request,
               !.answer = IF request.method = "HEAD" THEN [kept EXCEPT !.body = NoSlice]
                          ELSE kept]
       ELSE [NoFetch EXCEPT !.pc = "head", !.request = request]]
  /\ UNCHANGED <<bucket, mediaEdge, uploads>>

\* findR2ObjectHead: one candidate after the other.
HeadObject(f) ==
  LET found == bucket[fetch[f].key] IN
  /\ fetch[f].pc = "head"
  /\ \/ /\ found # None
        /\ fetch' = [fetch EXCEPT ![f].pc = IF found.typed THEN "get" ELSE "magic",
                                  ![f].found = found]
     \/ /\ found = None /\ fetch[f].key + 1 \in Candidates
        /\ fetch' = [fetch EXCEPT ![f].key = @ + 1]
     \/ /\ found = None /\ fetch[f].key + 1 \notin Candidates
        /\ fetch' = [fetch EXCEPT ![f].pc = "answered", ![f].answer = Failure(404)]
  /\ UNCHANGED <<bucket, mediaEdge, uploads>>

\* readR2MagicBytes, when the metadata do not tell.
ReadMagic(f) ==
  /\ fetch[f].pc = "magic"
  /\ fetch' = [fetch EXCEPT ![f].pc = "get", ![f].sniffed = bucket[fetch[f].key]]
  /\ UNCHANGED <<bucket, mediaEdge, uploads>>

\* Only of what is taken for a video a slice is read, as computed from the size that
\* it had when it was looked up.
GetObject(f) ==
  LET r == fetch[f]
      object == bucket[r.key]
      sliced == SaysKind(r.found, r.sniffed, "video") /\ Parses(r.request.range)
      slice == ParseByteRange(r.request.range, r.found.size)
      request == IF SaysKind(r.found, r.sniffed, "video")
                 THEN [r.request EXCEPT !.transform = "original"] ELSE r.request IN
  /\ r.pc = "get"
  /\ fetch' = [fetch EXCEPT ![f].pc = "answered", ![f].answer =
       IF object = None THEN Failure(404)
       ELSE IF ~sliced THEN Served(request, Whole(object), object, r.found, r.sniffed)
       ELSE IF ~Satisfiable(slice, object) THEN Failure(500)
       ELSE Served(request, Clipped(slice, object), object, r.found, r.sniffed)]
  /\ UNCHANGED <<bucket, mediaEdge, uploads>>

\* The answer is given; in the background the edge may keep it.
FinishFetch(f) ==
  /\ fetch[f].pc = "answered"
  /\ \/ /\ IsKept(fetch[f].request, fetch[f].answer)
        /\ mediaEdge' = [mediaEdge EXCEPT ![MediaKeyOf(fetch[f].request)] = fetch[f].answer]
     \/ UNCHANGED mediaEdge
  /\ fetch' = [fetch EXCEPT ![f] = NoFetch]
  /\ UNCHANGED <<bucket, uploads>>

EvictEdge(key) ==
  /\ mediaEdge[key] # None
  /\ mediaEdge' = [mediaEdge EXCEPT ![key] = None]
  /\ UNCHANGED <<bucket, fetch, uploads>>

\* Objects come and go by hand and by scripts.
Upload(key, object) ==
  /\ uploads < MaxUploads
  /\ object # None => object.upload = uploads + 1
  /\ uploads' = uploads + 1
  /\ bucket' = [bucket EXCEPT ![key] = object]
  /\ UNCHANGED <<mediaEdge, fetch>>

MediaInit ==
  /\ bucket = [k \in Candidates |-> None]
  /\ mediaEdge = [k \in CacheKeys |-> None]
  /\ fetch = [f \in Fetches |-> NoFetch]
  /\ uploads = 0

MediaNext ==
  \/ \E f \in Fetches :
       \/ \E request \in MediaRequest : ReceiveFetch(f, request)
       \/ HeadObject(f)
       \/ ReadMagic(f)
       \/ GetObject(f)
       \/ FinishFetch(f)
  \/ \E key \in CacheKeys : EvictEdge(key)
  \/ \E key \in Candidates, object \in MediaObject \cup {None} : Upload(key, object)

MediaSpec == MediaInit /\ [][MediaNext]_mediaVars

-----------------------------------------------------------------------------

\* Every variable holds a value of its kind.
MediaTypeOK ==
  /\ bucket \in [Candidates -> MediaObject \cup {None}]
  /\ mediaEdge \in [CacheKeys -> MediaResponse \cup {None}]
  /\ fetch \in [Fetches -> FetchRecord]
  /\ uploads \in 0..MaxUploads

\* What a client of the class may get of a transformation.
Takes(request, format) ==
  CASE request.transform = "original" -> TRUE
    [] request.transform = "jpeg" -> format \in {"jpeg", "svg", "video"}
    [] request.transform = "auto" ->
         format \in {"svg", "gif", "video"} \cup
           (IF request.accept = "base" THEN {"jpeg", "png"} ELSE {request.accept})

\* "a cached full 200 would be returned with the whole body instead of the requested
\* 206 slice" (media.ts:31-32), "all clients within the same Accept class ... share
\* one cached variant" (media-serving.server.ts:570-571): whoever fetched it before, a
\* client gets the whole object, in a format that it takes, and of a video the
\* slice that it asked for and was told; unless the object was replaced while it
\* was read, or the range goes beyond the end.
MediaFitsTheRequest ==
  \A f \in Fetches :
    LET r == fetch[f]
        a == r.answer IN
    r.pc = "answered" /\ a.object # None /\ ~a.mixed =>
      /\ a.status = 200 =>
           /\ r.request.method = "GET" => a.body = Whole(a.object)
           /\ Takes(r.request, a.format)
           /\ ~(a.format = "video" /\ Parses(r.request.range))
      /\ a.status = 206 =>
           /\ Parses(r.request.range)
           /\ r.request.method = "GET" /\ a.claimed.offset + a.claimed.length <= a.object.size
                => a.body = a.claimed
=============================================================================
