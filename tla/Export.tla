------------------------------- MODULE Export -------------------------------
(***************************************************************************)
(* services/export.go with services/url_builder.go and                     *)
(* services/tag_builder.go: the URLs minted for one item of a torrent.  An *)
(* export runs an exporter for each type asked for, an exporter builds     *)
(* URLs one after another, and each of them asks CacheMap, once or twice,  *)
(* in the middle: whatever else is true of an answer, its parts were made  *)
(* at different times.                                                     *)
(*                                                                         *)
(* pc[r], besides the steps of a call of CacheMap.Get:                     *)
(*   build     between two URLs        answered  the response is complete  *)
(*   failed    with fault[r]           panicked  a nil URL was used        *)
(***************************************************************************)
EXTENDS CacheMap, SequencesExt

CONSTANTS
  Torrent,  \* its files in the order List gives them: directory, name, Ext
  Config,   \* ways the process may be configured
  Ask,      \* what clients ask for
  NoAsk

\* A name is its parts, the extension left out, so that names can be prefixes
\* of one another; item 0 is a directory.
Item == 0..Len(Torrent)

ExportTypes == <<"download", "stream", "torrent_client_stat", "subtitles", "media_probe">>

\* Who a token is good for: the role in it, or Bad if it is not signed with the
\* secret of the service, which is empty if there is none; "none" is no token at
\* all.
Bad   == "bad"
Role  == {"free", "paid", Bad}
Token == Role \cup {"none"}

ASSUME ExportAssumptions ==
  /\ Torrent \in Seq(ToSet(Torrent))
  /\ \A n \in DOMAIN Torrent : DOMAIN Torrent[n] = {"dir", "name", "ext"}
  /\ Config \subseteq [domain : BOOLEAN, premium : BOOLEAN, subdomains : BOOLEAN,
                       secret : BOOLEAN, role : {"free", "paid"}, video : BOOLEAN,
                       internal : BOOLEAN]
  /\ \A a \in Ask : /\ a.item \in Item
                    /\ a.types \in Seq(ToSet(ExportTypes) \cup {"unknown"})
                    /\ a.token \in Token
                    /\ {a.premium, a.selection} \subseteq BOOLEAN
  /\ NoAsk \notin Ask

VARIABLES
  config,    \* flags of the process
  ask,       \* what r asked for
  todo,      \* the URLs r has yet to build, the first of them being built
  at,        \* how many times CacheMap was asked for that URL
  url,       \* what is known of that URL
  response,  \* ExportResponse.ExportItems as far as it is made
  fault,     \* why r failed
  steady     \* history: nothing kept on the item of r expired since it began

exportVars == <<config, ask, todo, at, url, response, fault, steady>>
vars == <<cacheVars, exportVars>>

-----------------------------------------------------------------------------
(* content_info.go                                                         *)

formats ==
  [video    |-> {"avi", "mkv", "mp4", "webm", "m4v", "ts", "vob"},
   audio    |-> {"mp3", "wav", "ogg", "flac", "m4a"},
   image    |-> {"png", "gif", "jpg", "jpeg"},
   subtitle |-> {"srt", "vtt"}]

Ext(i) == IF i = 0 THEN "" ELSE Torrent[i].ext

\* ListItem.MediaFormat
Is(i, format) == Ext(i) \in formats[format]
HasFormat(i)  == \E format \in DOMAIN formats : Is(i, format)

shouldTranscode(i) == Ext(i) \in {"avi", "mkv", "m4v", "ts", "vob", "flac", "m4a"}

-----------------------------------------------------------------------------
(* tag_builder.go: what comes with a video                                 *)

Siblings(i) == {k \in DOMAIN Torrent : Torrent[k].dir = Torrent[i].dir}

\* The numbers of S, the least first.
InOrder(S) ==
  [n \in 1..Cardinality(S) |-> CHOOSE k \in S : Cardinality({l \in S : l < k}) = n - 1]

\* The subtitles whose names go on from that of the video, and the first image.
AttachedResources(i) ==
  LET images == {k \in Siblings(i) : Is(k, "image")}
  IN  InOrder({k \in Siblings(i) :
        \/ Is(k, "subtitle") /\ IsPrefix(Torrent[i].name, Torrent[k].name)
        \/ k \in images /\ \A l \in images : k <= l})

-----------------------------------------------------------------------------
(* url_builder.go: where a URL points                                      *)

\* The role of a request, Bad if its token cannot be verified, or it has none and
\* there is no secret to make it one.
getRole(c, a) ==
  IF a.token # "none" THEN a.token ELSE IF c.secret THEN c.role ELSE Bad

\* Mutant: a token that cannot be verified gets the domain of free users.
getBaseDomainLenient(c, a, direct) ==
  IF ~c.domain THEN "none"
  ELSE IF c.premium /\ getRole(c, a) \notin {"free", Bad} /\ a.premium /\ ~direct
  THEN "premium"
  ELSE "standard"

getBaseDomain(c, a, direct) ==
  IF ~c.domain \/ (c.premium /\ getRole(c, a) = Bad) THEN "none"
  ELSE IF c.premium /\ getRole(c, a) # "free" /\ a.premium /\ ~direct
  THEN "premium"
  ELSE "standard"

\* Mutant: the stats go the way of the other exports.
HostAnyWay(c, a, type) == getBaseDomain(c, a, FALSE)

\* The stats of a torrent go around the premium edge.
Host(c, a, type) == getBaseDomain(c, a, type = "torrent_client_stat")

-----------------------------------------------------------------------------
(* url_builder.go: which paths are probed                                  *)

\* CacheMap is asked about the path of the item alone, whatever token, keys and
\* ids are in its query.
BasePath(i)   == <<i, "">>
Playlist(i)   == <<i, "~hls/index.m3u8">>
MediaInfo(i)  == <<i, "~hls/index.json">>

Streams(i, transcoded) ==
  IF (Is(i, "video") \/ Is(i, "audio")) /\ shouldTranscode(i)
  THEN <<BasePath(i), transcoded>> ELSE <<BasePath(i)>>

\* BuildSubtitleStreamURL returns no URL for subtitles other than srt.
IsNil(i) == Is(i, "subtitle") /\ Ext(i) # "srt"

Build(type, part, i, paths) == [type |-> type, part |-> part, item |-> i, paths |-> paths]

StreamBuild(part, i) == Build("stream", part, i, Streams(i, Playlist(i)))

\* StreamExporter.Export: the URL, then the tag with one of its own.
StreamBuilds(i) ==
  IF ~HasFormat(i) THEN <<>>
  ELSE <<StreamBuild("item", i)>> \o
       (IF Is(i, "subtitle") THEN <<>> ELSE <<StreamBuild("tag", i)>>) \o
       (IF ~Is(i, "video") THEN <<>>
        ELSE LET ks == AttachedResources(i)
             IN  [n \in DOMAIN ks |-> StreamBuild("attached", ks[n])])

\* SubtitlesURLBuilder
SubtitlesBuild(i) == Build("subtitles", "item", i, <<BasePath(i)>>)

\* The URLs an exporter builds.
Builds(c, i, type) ==
  CASE type = "stream"      -> StreamBuilds(i)
    [] type = "media_probe" -> <<Build(type, "item", i, Streams(i, MediaInfo(i)))>>
    [] type = "subtitles"   -> IF c.video /\ Is(i, "video")
                               THEN <<SubtitlesBuild(i)>> ELSE <<>>
    [] OTHER                -> <<Build(type, "item", i, <<BasePath(i)>>)>>

\* ExportGetArgsFromParams: all types unless some are given.
Types(a) == IF a.types = <<>> THEN ExportTypes ELSE a.types

\* Export.Get: the exporters of the types asked for, in their order.
Program(c, a) == FlattenSeq([n \in DOMAIN Types(a) |-> Builds(c, a.item, Types(a)[n])])

\* Path has the paths that are probed.
ASSUME PathAssumption ==
  \A c \in Config, a \in Ask :
    /\ BasePath(a.item) \in Path
    /\ \A b \in ToSet(Program(c, a)) : ToSet(b.paths) \subseteq Path

-----------------------------------------------------------------------------
(* The response                                                            *)

NewURL == [cached |-> FALSE, transcode |-> FALSE, transcodeCached |-> FALSE]

\* TorrentStatURLBuilder: there are stats unless the content is cached.
HasStats(u) == ~u.cached

\* MediaProbeURLBuilder: there is a probe only of what is transcoded.
HasProbe(u) == u.transcode

\* What a URL, once built, adds to the response; the player loads ahead what is
\* cached.
Fill(resp, b, u, host) ==
  IF b.part = "tag" /\ ~Is(b.item, "image")
  THEN [resp EXCEPT !["stream"].preload = u.cached]
  ELSE IF /\ b.part = "item"
          /\ b.type = "torrent_client_stat" => HasStats(u)
          /\ b.type = "media_probe" => HasProbe(u)
  THEN [t \in DOMAIN resp \cup {b.type} |->
          IF t = b.type THEN [host |-> host, meta |-> u, preload |-> FALSE] ELSE resp[t]]
  ELSE resp

-----------------------------------------------------------------------------

Init ==
  /\ CacheInit
  /\ config \in Config
  /\ ask      = [r \in Req |-> NoAsk]
  /\ todo     = [r \in Req |-> <<>>]
  /\ at       = [r \in Req |-> 0]
  /\ url      = [r \in Req |-> NewURL]
  /\ response = [r \in Req |-> <<>>]
  /\ fault    = [r \in Req |-> "none"]
  /\ steady   = [r \in Req |-> TRUE]

Fail(r, why) ==
  /\ pc'    = [pc EXCEPT ![r] = "failed"]
  /\ fault' = [fault EXCEPT ![r] = why]
  /\ UNCHANGED <<path, at, url>>

\* A type that is not known refuses the request, whatever the others are.
Begin(r) ==
  /\ pc[r] = "idle"
  /\ \E a \in Ask :
       /\ ask' = [ask EXCEPT ![r] = a]
       /\ \/ /\ "unknown" \in ToSet(a.types)
             /\ Fail(r, "types")
             /\ UNCHANGED todo
          \/ /\ "unknown" \notin ToSet(a.types)
             /\ todo' = [todo EXCEPT ![r] = Program(config, a)]
             /\ pc'   = [pc EXCEPT ![r] = "build"]
             /\ UNCHANGED <<path, at, url, fault>>
  /\ UNCHANGED <<up, done, cache, fresh, got, config, response, steady>>

\* Mutant: an exporter that fails is left out of the response.
StartSkipping(r) ==
  LET b    == Head(todo[r])
      host == Host(config, ask[r], b.type)
      sub  == host # "none" /\ config.subdomains
  IN  /\ pc[r] = "build" /\ todo[r] # <<>>
      /\ \/ /\ sub
            /\ todo' = [todo EXCEPT ![r] = SelectSeq(@, LAMBDA x : x.type # b.type)]
            /\ UNCHANGED <<pc, path, at, url, fault>>
         \/ /\ sub => getRole(config, ask[r]) # Bad
            /\ pc'   = [pc EXCEPT ![r] = "get"]
            /\ path' = [path EXCEPT ![r] = b.paths[1]]
            /\ at'   = [at EXCEPT ![r] = 1]
            /\ url'  = [url EXCEPT ![r] = NewURL]
            /\ UNCHANGED <<fault, todo>>
      /\ UNCHANGED <<up, done, cache, fresh, got, config, ask, response, steady>>

\* BuildScheme, BuildDomain, and the first question to CacheMap.
Start(r) ==
  LET b    == Head(todo[r])
      host == Host(config, ask[r], b.type)
      sub  == host # "none" /\ config.subdomains
  IN  /\ pc[r] = "build" /\ todo[r] # <<>>
      /\ \/ sub /\ getRole(config, ask[r]) = Bad /\ Fail(r, "token")
         \/ sub /\ getRole(config, ask[r]) # Bad /\ Fail(r, "nodes")
         \/ /\ sub => getRole(config, ask[r]) # Bad
            /\ pc'   = [pc EXCEPT ![r] = "get"]
            /\ path' = [path EXCEPT ![r] = b.paths[1]]
            /\ at'   = [at EXCEPT ![r] = 1]
            /\ url'  = [url EXCEPT ![r] = NewURL]
            /\ UNCHANGED fault
      /\ UNCHANGED <<up, done, cache, fresh, got, config, ask, todo, response, steady>>

\* CacheMap has answered and the URL goes on to be transcoded: it is asked
\* about the playlist too.
Go(r) ==
  LET b == Head(todo[r])
  IN  /\ pc[r] = "got" /\ at[r] < Len(b.paths)
      /\ url'  = [url EXCEPT ![r].cached = got[r], ![r].transcode = TRUE]
      /\ pc'   = [pc EXCEPT ![r] = "get"]
      /\ at'   = [at EXCEPT ![r] = 2]
      /\ path' = [path EXCEPT ![r] = b.paths[2]]
      /\ UNCHANGED <<up, done, cache, fresh, got, config, ask, todo, response,
                     fault, steady>>

\* CacheMap has answered and the URL is there: it goes into the response, or is
\* nil and used all the same.  A selection of files to archive is only looked
\* at here.
Built(r) ==
  LET b == Head(todo[r])
      u == IF at[r] = 1 THEN [url[r] EXCEPT !.cached = got[r]]
                        ELSE [url[r] EXCEPT !.transcodeCached = got[r]]
  IN  /\ pc[r] = "got" /\ at[r] = Len(b.paths)
      /\ \/ /\ b.type = "download" /\ b.item = 0 /\ ~ask[r].selection
            /\ Fail(r, "selection")
            /\ UNCHANGED <<todo, response>>
         \/ /\ b.type \in {"stream", "media_probe"} /\ IsNil(b.item)
            /\ pc' = [pc EXCEPT ![r] = "panicked"]
            /\ UNCHANGED <<path, at, url, todo, response, fault>>
         \/ /\ b.type = "download" => b.item # 0 \/ ask[r].selection
            /\ b.type \in {"stream", "media_probe"} => ~IsNil(b.item)
            /\ response' = [response EXCEPT
                             ![r] = Fill(@, b, u, Host(config, ask[r], b.type))]
            /\ pc'   = [pc EXCEPT ![r] = "build"]
            /\ todo' = [todo EXCEPT ![r] = Tail(@)]
            /\ at'   = [at EXCEPT ![r] = 0]
            /\ url'  = [url EXCEPT ![r] = NewURL]
            /\ path' = [path EXCEPT ![r] = NoPath]
            /\ UNCHANGED fault
      /\ got' = [got EXCEPT ![r] = FALSE]
      /\ UNCHANGED <<up, done, cache, fresh, config, ask, steady>>

Answer(r) ==
  /\ pc[r] = "build" /\ todo[r] = <<>>
  /\ pc' = [pc EXCEPT ![r] = "answered"]
  /\ UNCHANGED <<up, done, cache, fresh, path, got, exportVars>>

\* The client reads what it got.
Leave(r) ==
  /\ pc[r] \in {"answered", "failed", "panicked"}
  /\ pc'       = [pc EXCEPT ![r] = "idle"]
  /\ path'     = [path EXCEPT ![r] = NoPath]
  /\ got'      = [got EXCEPT ![r] = FALSE]
  /\ ask'      = [ask EXCEPT ![r] = NoAsk]
  /\ todo'     = [todo EXCEPT ![r] = <<>>]
  /\ at'       = [at EXCEPT ![r] = 0]
  /\ url'      = [url EXCEPT ![r] = NewURL]
  /\ response' = [response EXCEPT ![r] = <<>>]
  /\ fault'    = [fault EXCEPT ![r] = "none"]
  /\ steady'   = [steady EXCEPT ![r] = TRUE]
  /\ UNCHANGED <<up, done, cache, fresh, config>>

\* Whether the probe of the URL that r builds reaches an edge that takes it: not if
\* the URL has no host, unless all probes go to the internal proxy; and what the
\* edge makes of a token that cannot be verified is its own affair.
Reaches(r) ==
  IF Host(config, ask[r], Head(todo[r]).type) = "none" /\ ~config.internal THEN {FALSE}
  ELSE IF getRole(config, ask[r]) = Bad THEN BOOLEAN
  ELSE {TRUE}

Probes(r) == CacheStep(r, Reaches(r)) /\ UNCHANGED exportVars

Work(r) == Probes(r) \/ Start(r) \/ Go(r) \/ Built(r) \/ Answer(r)

Expires(p) ==
  /\ Expire(p)
  /\ steady' = [r \in Req |-> steady[r] /\ ~(ask[r] # NoAsk /\ ask[r].item = p[1])]
  /\ UNCHANGED <<config, ask, todo, at, url, response, fault>>

Next ==
  \/ \E r \in Req : Begin(r) \/ Work(r) \/ Leave(r)
  \/ \E p \in Path : Expires(p)
  \/ Environment /\ UNCHANGED exportVars

\* A goroutine that can run does, a probe ends within its deadline, and what is
\* kept expires.
Fairness ==
  /\ \A r \in Req : WF_vars(Work(r))
  /\ \A p \in Path : WF_vars(Expires(p))

SafetySpec == Init /\ [][Next]_vars
Spec       == SafetySpec /\ Fairness

-----------------------------------------------------------------------------

URL == [cached : BOOLEAN, transcode : BOOLEAN, transcodeCached : BOOLEAN]

TypeOK ==
  /\ CacheTypeOK
  /\ pc \in [Req -> {"idle", "build", "get", "waiting", "probe", "got",
                     "answered", "failed", "panicked"}]
  /\ config \in Config
  /\ ask \in [Req -> Ask \cup {NoAsk}]
  /\ url \in [Req -> URL] /\ at \in [Req -> 0..2]
  /\ fault \in [Req -> {"none", "types", "token", "nodes", "selection"}]
  /\ steady \in [Req -> BOOLEAN]
  /\ \A r \in Req :
       /\ DOMAIN response[r] \subseteq ToSet(ExportTypes)
       /\ \A t \in DOMAIN response[r] :
            response[r][t] \in [host : {"none", "standard", "premium"},
                               meta : URL, preload : BOOLEAN]

\* Content is called cached only if the seeder held the whole of it at some time
\* since the answer before expired: the edge being down, or a probe cut short,
\* never makes it so.
PositiveIsFresh == \A p \in Path : cache.memo[p] = TRUE => p \in fresh

\* One response tells one story, although its URLs are built one after another
\* while the seeder downloads and the edge comes and goes: unless an answer
\* expired meanwhile, all its parts agree on whether the item is cached, the
\* stats are left out and the player loads ahead exactly if it is.
Coherent ==
  \A r \in Req : pc[r] = "answered" /\ steady[r] =>
    \E cached \in BOOLEAN :
      /\ \A t \in DOMAIN response[r] : response[r][t].meta.cached = cached
      /\ "torrent_client_stat" \in ToSet(Types(ask[r]))
           => ("torrent_client_stat" \in DOMAIN response[r] <=> ~cached)
      /\ "stream" \in DOMAIN response[r] /\ (Is(ask[r].item, "video") \/ Is(ask[r].item, "audio"))
           => response[r]["stream"].preload = cached

\* A response that is sent is whole: if the read of the nodes, or anything
\* else, failed for one of the types asked for, none of the others is sent.
AnsweredWhole ==
  \A r \in Req : pc[r] = "answered" =>
    \A t \in ToSet(Types(ask[r])) :
      \/ t \in DOMAIN response[r]
      \/ t = "torrent_client_stat"
      \/ t = "stream" /\ ~HasFormat(ask[r].item)
      \/ t = "subtitles" /\ ~(config.video /\ Is(ask[r].item, "video"))
      \/ t = "media_probe" /\ ~shouldTranscode(ask[r].item)

\* The stats never go by the premium edge, which would hold their events back,
\* whoever asks (url_builder.go:89-94).
StatIsDirect ==
  \A r \in Req : "torrent_client_stat" \in DOMAIN response[r] =>
    response[r]["torrent_client_stat"].host # "premium"

\* A request whose token cannot be verified, or that has none and is not given
\* one, gets no URL on our domains where roles decide on them: it is refused,
\* or, if there is a premium domain, its URLs have no host at all.
UnverifiedGetNoHost ==
  \A r \in Req :
    /\ pc[r] = "answered" /\ getRole(config, ask[r]) = Bad
    /\ config.premium \/ config.subdomains
    => \A t \in DOMAIN response[r] : response[r][t].host = "none"

\* Every export comes to an end, however long the edge is down: the probe of
\* each of its URLs gives up.
ExportsEnd ==
  \A r \in Req : pc[r] = "build" ~> pc[r] \in {"answered", "failed", "panicked"}

\* r asks the edge about p by a URL that may be of no use.
InVain(r, p) == pc[r] = "probe" /\ path[r] = p /\ Reaches(r) # {TRUE}

\* Content that is there to stay is in the end not called uncached any more: what a
\* failed or early probe left, or one by a URL without a host, which is kept for
\* every URL with that path (cache_map.go:77), expires.  While such probes go on,
\* as they do if clients with tokens that cannot be verified keep coming, nothing
\* is promised to the others.
DoneIsSeen ==
  \A p \in Path :
    <>[](up /\ p \in done /\ \A r \in Req : ~InVain(r, p)) => <>[](cache.memo[p] # FALSE)

\* What the documentation of /list says, "All ids in response can be used for
\* export" (web.go:201): an export of an item ends in a response.
NoPanic == \A r \in Req : pc[r] # "panicked"

\* What the comment of CacheMap.Get says, that its answer "only fills the
\* advisory meta.cache flag" (cache_map.go:73): the exports asked for that apply
\* to the item are there whatever it is.
CacheIsAdvisory ==
  \A r \in Req : pc[r] = "answered" =>
    ("torrent_client_stat" \in ToSet(Types(ask[r]))
       => "torrent_client_stat" \in DOMAIN response[r])

=============================================================================
