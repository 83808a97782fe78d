---------------------------- MODULE ExportProofs ----------------------------
(***************************************************************************)
(* Theorems about Export and the CacheMap it asks, for any torrent, number *)
(* of requests and way of being configured.                                *)
(***************************************************************************)
EXTENDS Export, SequenceLemmas, FiniteSetTheorems

Asking == {"get", "waiting", "probe", "got"}
Busy   == {"build", "answered"} \cup Asking

\* What a request may have to build.
AllBuilds(c, a) == UNION {ToSet(Builds(c, a.item, t)) : t \in ToSet(Types(a))}

Playable(i) == Is(i, "video") \/ Is(i, "audio")

IsStream(b) == b.part = "item" /\ b.type = "stream"

\* Every URL of a stream that players load is followed by that of its tag.
TagsFollow(a, s) ==
  \A k \in 1..Len(s) : IsStream(s[k]) /\ Playable(a.item) =>
    \E l \in (k + 1)..Len(s) : s[l].part = "tag"

Left(r, t) == \E k \in 1..Len(todo[r]) : todo[r][k].part = "item" /\ todo[r][k].type = t
TagLeft(r) == \E k \in 1..Len(todo[r]) : todo[r][k].part = "tag"

\* The exporter of t has nothing to build.
Inapplicable(c, i, t) ==
  \/ t = "stream" /\ ~HasFormat(i)
  \/ t = "subtitles" /\ ~(c.video /\ Is(i, "video"))

Allowed(r, t) ==
  Host(config, ask[r], t) # "none" /\ config.subdomains => getRole(config, ask[r]) # Bad

Known(r) == cache.memo[BasePath(ask[r].item)]

\* What CacheMap says of its callers is what they do.
CallersAgree ==
  /\ \A p \in Path, r \in Req :
       /\ cache.owner[p] = r <=> pc[r] = "probe" /\ path[r] = p
       /\ r \in cache.waiting[p] <=> pc[r] = "waiting" /\ path[r] = p
  /\ \A p \in Path : InFlight(cache, p) => ~Kept(cache, p)

\* Where a request stands in its URLs.
Placed(r) ==
  /\ pc[r] = "idle" => response[r] = <<>>
  /\ pc[r] \in Busy => /\ ask[r] \in Ask /\ "unknown" \notin ToSet(ask[r].types)
                       /\ todo[r] \in Seq(AllBuilds(config, ask[r]))
                       /\ TagsFollow(ask[r], todo[r])
  /\ pc[r] = "answered" => todo[r] = <<>>
  /\ pc[r] \in Asking => /\ todo[r] # <<>>
                         /\ at[r] \in 1..Len(Head(todo[r]).paths)
                         /\ path[r] = Head(todo[r]).paths[at[r]]
                         /\ at[r] = 1 => url[r] = NewURL
                         /\ at[r] = 2 => url[r].transcode

Places == \A r \in Req : Placed(r)

\* What was asked for is in the response, or to be built, or does not apply.
CoveredFor(r) ==
  pc[r] \in Busy =>
    \A t \in ToSet(Types(ask[r])) :
      \/ t \in DOMAIN response[r]
      \/ Left(r, t)
      \/ Inapplicable(config, ask[r].item, t)
      \/ t = "torrent_client_stat"
      \/ t = "media_probe" /\ ~shouldTranscode(ask[r].item)

Covered == \A r \in Req : CoveredFor(r)

\* A URL has the host its type goes by, and was built only if that is allowed.
HostedFor(r) ==
  /\ \A t \in DOMAIN response[r] :
       response[r][t].host = Host(config, ask[r], t) /\ Allowed(r, t)
  /\ pc[r] \in Asking => Allowed(r, Head(todo[r]).type)

Hosted == \A r \in Req : HostedFor(r)

\* What a request was told of its item, while nothing expired, is what is kept.
OneStoryFor(r) ==
  pc[r] \in Busy /\ steady[r] =>
    /\ \A t \in DOMAIN response[r] : response[r][t].meta.cached = Known(r)
    /\ "torrent_client_stat" \in DOMAIN response[r]
         => ~response[r]["torrent_client_stat"].meta.cached
    /\ pc[r] = "got" /\ path[r] = BasePath(ask[r].item) => got[r] = Known(r)
    /\ pc[r] \in Asking /\ at[r] = 2 /\ Head(todo[r]).part # "attached"
         => url[r].cached = Known(r)
    /\ "torrent_client_stat" \in ToSet(Types(ask[r])) =>
         \/ Left(r, "torrent_client_stat")
         \/ "torrent_client_stat" \in DOMAIN response[r]
         \/ Known(r) = TRUE
    /\ "stream" \in DOMAIN response[r] /\ Playable(ask[r].item) =>
         response[r]["stream"].preload = Known(r) \/ TagLeft(r)

OneStory == \A r \in Req : OneStoryFor(r)

\* What the seeder has was fresh when it was kept.
Fresh == done \subseteq fresh /\ PositiveIsFresh

-----------------------------------------------------------------------------
(* What there is to build                                                  *)

LEMMA InOrderIsSequence ==
  ASSUME NEW S, IsFiniteSet(S)
  PROVE  Cardinality(S) \in Nat /\ DOMAIN InOrder(S) = 1..Cardinality(S)
<1>1. Cardinality(S) \in Nat
  BY FS_CardinalityType
<1> QED
  BY <1>1 DEF InOrder

LEMMA AttachedIsSequence ==
  ASSUME NEW i
  PROVE  \E n \in Nat : DOMAIN AttachedResources(i) = 1..n
<1> DEFINE images == {k \in Siblings(i) : Is(k, "image")}
           S == {k \in Siblings(i) :
                   \/ Is(k, "subtitle") /\ IsPrefix(Torrent[i].name, Torrent[k].name)
                   \/ k \in images /\ \A l \in images : k <= l}
<1>1. Len(Torrent) \in Nat /\ DOMAIN Torrent = 1..Len(Torrent)
  <2>1. Torrent \in Seq(ToSet(Torrent))
    BY ExportAssumptions, Zenon
  <2> QED
    BY <2>1
<1>2. IsFiniteSet(1..Len(Torrent))
  BY <1>1, FS_Interval
<1>3. S \subseteq 1..Len(Torrent)
  BY <1>1 DEF Siblings
<1>4. IsFiniteSet(S)
  BY <1>2, <1>3, FS_Subset
<1>5. AttachedResources(i) = InOrder(S)
  BY DEF AttachedResources
<1> HIDE DEF S
<1> QED
  BY <1>4, <1>5, InOrderIsSequence

\* The known formats do not overlap where it matters, and what is transcoded
\* is video or audio.
LEMMA Formats ==
  ASSUME NEW i
  PROVE  /\ Playable(i) => ~Is(i, "image") /\ ~Is(i, "subtitle") /\ HasFormat(i)
         /\ shouldTranscode(i) => Playable(i)
BY DEF Playable, Is, HasFormat, shouldTranscode, formats

\* A URL to be built for the item i.
IsBuild(i, b) ==
  /\ b.type \in ToSet(ExportTypes)
  /\ b.part \in {"item", "tag", "attached"}
  /\ b.part # "item" => b.type = "stream"
  /\ b.part # "attached" => b.item = i /\ b.paths[1] = BasePath(i)
  /\ Len(b.paths) \in {1, 2} /\ DOMAIN b.paths = 1..Len(b.paths)
  /\ b.type = "media_probe" /\ shouldTranscode(b.item) => Len(b.paths) = 2

LEMMA StreamsPaths ==
  ASSUME NEW i, NEW p
  PROVE  /\ Streams(i, p)[1] = BasePath(i)
         /\ Len(Streams(i, p)) \in {1, 2} /\ DOMAIN Streams(i, p) = 1..Len(Streams(i, p))
         /\ shouldTranscode(i) => Len(Streams(i, p)) = 2
<1>1. CASE (Is(i, "video") \/ Is(i, "audio")) /\ shouldTranscode(i)
  <2>1. Streams(i, p) = <<BasePath(i), p>>
    BY <1>1 DEF Streams
  <2> HIDE DEF Streams
  <2> QED
    BY <2>1
<1>2. CASE ~((Is(i, "video") \/ Is(i, "audio")) /\ shouldTranscode(i))
  <2>1. Streams(i, p) = <<BasePath(i)>>
    BY <1>2 DEF Streams
  <2>2. ~shouldTranscode(i)
    BY <1>2, Formats DEF Playable
  <2> QED
    BY <2>1, <2>2
<1> QED
  BY <1>1, <1>2

LEMMA StreamBuildsParts ==
  ASSUME NEW i, NEW s, s = StreamBuilds(i)
  PROVE  /\ s \in Seq(ToSet(s))
         /\ \A b \in ToSet(s) : IsBuild(i, b) /\ b.type = "stream"
         /\ HasFormat(i) => Len(s) >= 1 /\ s[1].part = "item"
         /\ \A k \in 1..Len(s) : IsStream(s[k]) /\ Playable(i) =>
              k + 1 <= Len(s) /\ s[k + 1].part = "tag"
<1> DEFINE item == StreamBuild("item", i)
           tag  == StreamBuild("tag", i)
           ks   == AttachedResources(i)
           rest == [n \in DOMAIN ks |-> StreamBuild("attached", ks[n])]
<1>1. ASSUME NEW part \in {"item", "tag", "attached"}, NEW k
      PROVE  LET b == StreamBuild(part, k)
             IN  /\ b.part = part /\ b.type = "stream" /\ b.item = k
                 /\ part # "attached" /\ k = i => IsBuild(i, b)
                 /\ part = "attached" => IsBuild(i, b)
  <2> DEFINE b == StreamBuild(part, k)
  <2>1. /\ b.part = part /\ b.type = "stream" /\ b.item = k
        /\ b.paths = Streams(k, Playlist(k))
    BY DEF StreamBuild, Build
  <2>2. "stream" \in ToSet(ExportTypes)
    <3>1. ExportTypes[2] = "stream" /\ 2 \in DOMAIN ExportTypes
      BY DEF ExportTypes
    <3> QED
      BY <3>1 DEF ToSet
  <2>3. /\ b.paths[1] = BasePath(k)
        /\ Len(b.paths) \in {1, 2} /\ DOMAIN b.paths = 1..Len(b.paths)
    BY <2>1, StreamsPaths
  <2>4. /\ part # "attached" /\ k = i => IsBuild(i, b)
        /\ part = "attached" => IsBuild(i, b)
    <3> HIDE DEF b
    <3> QED
      BY <2>1, <2>2, <2>3 DEF IsBuild
  <2> QED
    BY <2>1, <2>4
<1>2. CASE ~HasFormat(i)
  <2>1. s = <<>> /\ ToSet(s) = {}
    BY <1>2 DEF StreamBuilds, ToSet
  <2> QED
    BY <1>2, <2>1
<1>3. CASE HasFormat(i) /\ Is(i, "subtitle") /\ ~Is(i, "video")
  <2>1. s = <<item>>
    BY <1>3 DEF StreamBuilds
  <2>2. ToSet(s) = {item} /\ s \in Seq(ToSet(s)) /\ Len(s) = 1 /\ s[1] = item
    <3> HIDE DEF item
    <3> QED
      BY <2>1 DEF ToSet
  <2>3. ~Playable(i)
    BY <1>3, Formats
  <2> HIDE DEF item
  <2> QED
    BY <1>1, <2>2, <2>3 DEF item
<1>4. CASE HasFormat(i) /\ ~Is(i, "subtitle") /\ ~Is(i, "video")
  <2>1. s = <<item>> \o <<tag>>
    BY <1>4 DEF StreamBuilds
  <2>2. /\ ToSet(s) = {item, tag} /\ s \in Seq(ToSet(s)) /\ Len(s) = 2
        /\ s[1] = item /\ s[2] = tag
    <3> HIDE DEF item, tag
    <3>1. s = <<item, tag>>
      BY <2>1, Pair
    <3> QED
      BY <3>1 DEF ToSet
  <2>3. item.part = "item" /\ tag.part = "tag" /\ IsBuild(i, item) /\ IsBuild(i, tag)
        /\ item.type = "stream" /\ tag.type = "stream"
    BY <1>1
  <2> HIDE DEF item, tag
  <2> QED
    BY <2>2, <2>3 DEF IsStream
<1>5. CASE HasFormat(i) /\ Is(i, "video")
  <2>1. ~Is(i, "subtitle")
    BY <1>5, Formats DEF Playable
  <2>2. s = (<<item>> \o <<tag>>) \o rest
    BY <1>5, <2>1 DEF StreamBuilds
  <2>3. PICK n \in Nat : DOMAIN ks = 1..n
    BY AttachedIsSequence
  <2>4. DOMAIN rest = 1..n /\ \A k \in 1..n : rest[k] = StreamBuild("attached", ks[k])
    BY <2>3
  <2>5. item.part = "item" /\ tag.part = "tag" /\ IsBuild(i, item) /\ IsBuild(i, tag)
        /\ item.type = "stream" /\ tag.type = "stream"
    BY <1>1
  <2>6. \A k \in 1..n : /\ rest[k].part = "attached" /\ rest[k].type = "stream"
                        /\ IsBuild(i, rest[k])
    BY <1>1, <2>4
  <2>7. rest = [k \in 1..n |-> rest[k]]
    BY <2>3
  <2> DEFINE S == {item, tag} \cup {rest[k] : k \in 1..n}
  <2> HIDE DEF item, tag, rest
  <2>8. rest \in Seq(S) /\ Len(rest) = n
    <3>1. [k \in 1..n |-> rest[k]] \in [1..n -> S]
      OBVIOUS
    <3> HIDE DEF S
    <3>2. rest \in [1..n -> S]
      BY <2>7, <3>1
    <3> QED
      BY <3>2
  <2>9. /\ s \in Seq(S) /\ Len(s) = n + 2 /\ s[1] = item /\ s[2] = tag
        /\ \A k \in 3..(n + 2) : s[k] = rest[k - 2]
    <3>1. item \in S /\ tag \in S
      OBVIOUS
    <3> HIDE DEF S
    <3>2. <<item>> \o <<tag>> = <<item, tag>> /\ <<item, tag>> \in Seq(S)
      BY <3>1, Pair
    <3> QED
      BY <2>2, <2>8, <3>2
  <2>10. \A k \in 1..Len(s) : /\ IsBuild(i, s[k]) /\ s[k].type = "stream"
                              /\ s[k].part = "item" => k = 1
    <3> SUFFICES ASSUME NEW k \in 1..Len(s)
                 PROVE  /\ IsBuild(i, s[k]) /\ s[k].type = "stream"
                        /\ s[k].part = "item" => k = 1
      OBVIOUS
    <3>1. k = 1 \/ k = 2 \/ (k \in 3..(n + 2) /\ k - 2 \in 1..n)
      BY <2>9
    <3>2. s[1] = item /\ s[2] = tag
      BY <2>9
    <3>3. CASE k = 1 \/ k = 2
      BY <2>5, <3>2, <3>3
    <3>4. CASE k \in 3..(n + 2) /\ k - 2 \in 1..n
      <4>1. s[k] = rest[k - 2]
        BY <2>9, <3>4
      <4> QED
        BY <2>6, <3>4, <4>1
    <3> QED
      BY <3>1, <3>3, <3>4
  <2>11. s \in Seq(ToSet(s)) /\ \A b \in ToSet(s) : \E k \in 1..Len(s) : b = s[k]
    BY <2>9, OwnElements
  <2>12. 2 <= Len(s) /\ 1 <= Len(s)
    BY <2>9
  <2> HIDE DEF S
  <2> QED
    BY <2>5, <2>9, <2>10, <2>11, <2>12 DEF IsStream
<1> QED
  BY <1>2, <1>3, <1>4, <1>5

\* What an exporter builds: of each type the URL of the item comes first, if
\* the type applies at all.
LEMMA BuildsParts ==
  ASSUME NEW c, NEW i, NEW t \in ToSet(ExportTypes), NEW s, s = Builds(c, i, t)
  PROVE  /\ s \in Seq(ToSet(s))
         /\ \A b \in ToSet(s) : IsBuild(i, b)
         /\ ~Inapplicable(c, i, t) => Len(s) >= 1 /\ s[1].part = "item" /\ s[1].type = t
         /\ \A k \in 1..Len(s) : IsStream(s[k]) /\ Playable(i) =>
              k + 1 <= Len(s) /\ s[k + 1].part = "tag"
<1>1. CASE t = "stream"
  <2>1. s = StreamBuilds(i)
    BY <1>1 DEF Builds
  <2>2. 1 <= Len(s) => s[1] \in ToSet(s)
    <3>1. Len(s) \in Nat /\ s \in Seq(ToSet(s))
      BY <2>1, StreamBuildsParts
    <3> QED
      BY <3>1
  <2> QED
    BY <1>1, <2>1, <2>2, StreamBuildsParts DEF Inapplicable
<1>2. ASSUME NEW paths, paths = <<BasePath(i)>> \/ \E p : paths = Streams(i, p),
             t = "media_probe" => \E p : paths = Streams(i, p),
             t # "stream", s = <<Build(t, "item", i, paths)>>
      PROVE  /\ s \in Seq(ToSet(s))
             /\ \A b \in ToSet(s) : IsBuild(i, b)
             /\ Len(s) >= 1 /\ s[1].part = "item" /\ s[1].type = t
             /\ \A k \in 1..Len(s) : ~IsStream(s[k])
  <2> DEFINE b == Build(t, "item", i, paths)
  <2>1. b.part = "item" /\ b.type = t /\ b.item = i /\ b.paths = paths
    BY DEF Build
  <2>2. /\ paths[1] = BasePath(i)
        /\ Len(paths) \in {1, 2} /\ DOMAIN paths = 1..Len(paths)
        /\ t = "media_probe" /\ shouldTranscode(i) => Len(paths) = 2
    <3>1. CASE paths = <<BasePath(i)>> /\ t # "media_probe"
      BY <3>1
    <3>2. CASE \E p : paths = Streams(i, p)
      BY <3>2, StreamsPaths
    <3> QED
      BY <3>1, <3>2, <1>2
  <2> HIDE DEF b
  <2>3. IsBuild(i, b)
    BY <2>1, <2>2 DEF IsBuild
  <2>4. s = <<b>>
    BY <1>2 DEF b
  <2>5. s \in Seq({b}) /\ Len(s) = 1 /\ s[1] = b
    BY <2>4
  <2>6. /\ s \in Seq(ToSet(s))
        /\ \A x \in ToSet(s) : x = b
    BY <2>5, OwnElements
  <2> QED
    BY <1>2, <2>1, <2>3, <2>5, <2>6 DEF IsStream
<1>3. CASE t = "media_probe"
  <2>1. s = <<Build(t, "item", i, Streams(i, MediaInfo(i)))>>
    BY <1>3 DEF Builds
  <2> QED
    BY <1>2, <1>3, <2>1
<1>4. CASE t = "subtitles"
  <2>1. CASE c.video /\ Is(i, "video")
    <3>1. s = <<Build(t, "item", i, <<BasePath(i)>>)>>
      BY <1>4, <2>1 DEF Builds, SubtitlesBuild
    <3> QED
      BY <1>2, <1>4, <3>1
  <2>2. CASE ~(c.video /\ Is(i, "video"))
    <3>1. s = <<>> /\ Inapplicable(c, i, t)
      BY <1>4, <2>2 DEF Builds, Inapplicable
    <3> QED
      BY <3>1 DEF ToSet
  <2> QED
    BY <2>1, <2>2
<1>5. CASE t \notin {"stream", "media_probe", "subtitles"}
  <2>1. s = <<Build(t, "item", i, <<BasePath(i)>>)>>
    BY <1>5 DEF Builds
  <2> QED
    BY <1>2, <1>5, <2>1
<1> QED
  BY <1>1, <1>3, <1>4, <1>5

LEMMA TypesAreKnown ==
  ASSUME NEW a \in Ask, "unknown" \notin ToSet(a.types)
  PROVE  /\ Types(a) \in Seq(ToSet(ExportTypes))
         /\ DOMAIN Types(a) = 1..Len(Types(a)) /\ Len(Types(a)) \in Nat
         /\ \A n \in 1..Len(Types(a)) : /\ Types(a)[n] \in ToSet(ExportTypes)
                                        /\ Types(a)[n] \in ToSet(Types(a))
         /\ \A t \in ToSet(Types(a)) : /\ t \in ToSet(ExportTypes)
                                       /\ \E n \in 1..Len(Types(a)) : t = Types(a)[n]
<1>1. ExportTypes \in Seq(ToSet(ExportTypes))
  <2>1. ExportTypes \in Seq({"download", "stream", "torrent_client_stat", "subtitles",
                            "media_probe"})
    BY DEF ExportTypes
  <2> QED
    BY <2>1, OwnElements
<1>2. a.types \in Seq(ToSet(ExportTypes) \cup {"unknown"})
  BY ExportAssumptions, Zenon
<1>3. a.types \in Seq(ToSet(ExportTypes))
  <2>1. a.types \in Seq(ToSet(a.types)) /\ ToSet(a.types) \subseteq ToSet(ExportTypes) \cup {"unknown"}
    BY <1>2, OwnElements
  <2> QED
    BY <2>1
<1>4. Types(a) \in Seq(ToSet(ExportTypes))
  BY <1>1, <1>3 DEF Types
<1> QED
  BY <1>4, OwnElements

LEMMA ProgramParts ==
  ASSUME NEW c \in Config, NEW a \in Ask, "unknown" \notin ToSet(a.types)
  PROVE  /\ Program(c, a) \in Seq(AllBuilds(c, a))
         /\ TagsFollow(a, Program(c, a))
         /\ \A t \in ToSet(Types(a)) :
              \/ Inapplicable(c, a.item, t)
              \/ \E k \in 1..Len(Program(c, a)) :
                   Program(c, a)[k].part = "item" /\ Program(c, a)[k].type = t
         /\ \A b \in AllBuilds(c, a) : IsBuild(a.item, b) /\ ToSet(b.paths) \subseteq Path
<1> DEFINE S  == AllBuilds(c, a)
           N  == Len(Types(a))
           ss == [n \in DOMAIN Types(a) |-> Builds(c, a.item, Types(a)[n])]
           w  == Program(c, a)
<1>1. \A n \in 1..N : Types(a)[n] \in ToSet(ExportTypes) /\ Types(a)[n] \in ToSet(Types(a))
  BY TypesAreKnown
<1>2. \A t \in ToSet(Types(a)) :
        /\ t \in ToSet(ExportTypes)
        /\ Builds(c, a.item, t) \in Seq(ToSet(Builds(c, a.item, t)))
        /\ \A b \in ToSet(Builds(c, a.item, t)) : IsBuild(a.item, b) /\ b \in S
        /\ Builds(c, a.item, t) \in Seq(S)
  <2> SUFFICES ASSUME NEW t \in ToSet(Types(a))
               PROVE  /\ t \in ToSet(ExportTypes)
                      /\ Builds(c, a.item, t) \in Seq(ToSet(Builds(c, a.item, t)))
                      /\ \A b \in ToSet(Builds(c, a.item, t)) : IsBuild(a.item, b) /\ b \in S
                      /\ Builds(c, a.item, t) \in Seq(S)
    OBVIOUS
  <2> DEFINE s == Builds(c, a.item, t)
  <2>1. t \in ToSet(ExportTypes)
    BY TypesAreKnown
  <2>2. s \in Seq(ToSet(s)) /\ \A b \in ToSet(s) : IsBuild(a.item, b)
    BY <2>1, BuildsParts
  <2>3. \A b \in ToSet(s) : b \in S
    BY DEF AllBuilds
  <2> HIDE DEF s, S
  <2>4. s \in Seq(S)
    BY <2>2, <2>3
  <2> QED
    BY <2>1, <2>2, <2>3, <2>4 DEF s
<1>3. /\ N \in Nat /\ DOMAIN ss = 1..N
      /\ \A n \in 1..N : ss[n] = Builds(c, a.item, Types(a)[n])
      /\ ss = [n \in 1..N |-> ss[n]]
  BY TypesAreKnown
<1>4. w = FlattenSeq(ss)
  BY DEF Program
<1> HIDE DEF ss, S, N, w
<1>5. ss \in Seq(Seq(S)) /\ Len(ss) = N
  <2>1. \A n \in 1..N : ss[n] \in Seq(S)
    BY <1>1, <1>2, <1>3
  <2>2. ss \in [1..N -> Seq(S)]
    BY <1>3, <2>1
  <2> QED
    BY <1>3, <2>2
<1>6. MadeOf(w, ss, N, S)
  BY <1>4, <1>5, FlattenParts
<1>7. w \in Seq(S) /\ Len(w) \in Nat
  BY <1>6 DEF MadeOf
<1>8. ASSUME NEW n \in 1..N
      PROVE  /\ ss[n] \in Seq(ToSet(ss[n])) /\ Len(ss[n]) \in Nat
             /\ ~Inapplicable(c, a.item, Types(a)[n])
                  => Len(ss[n]) >= 1 /\ ss[n][1].part = "item" /\ ss[n][1].type = Types(a)[n]
             /\ \A k \in 1..Len(ss[n]) : IsStream(ss[n][k]) /\ Playable(a.item) =>
                  k + 1 <= Len(ss[n]) /\ ss[n][k + 1].part = "tag"
  <2>1. ss[n] \in Seq(ToSet(ss[n]))
    BY <1>1, <1>2, <1>3
  <2>2. Len(ss[n]) \in Nat
    BY <2>1
  <2>3. Types(a)[n] \in ToSet(ExportTypes) /\ ss[n] = Builds(c, a.item, Types(a)[n])
    BY <1>1, <1>3
  <2> QED
    BY <2>1, <2>2, <2>3, BuildsParts
<1>9. TagsFollow(a, w)
  <2> SUFFICES ASSUME NEW k \in 1..Len(w), IsStream(w[k]), Playable(a.item)
               PROVE  \E l \in (k + 1)..Len(w) : w[l].part = "tag"
    BY DEF TagsFollow
  <2>1a. PICK n \in 1..N : \E m \in 1..Len(ss[n]) : m <= k /\ At(ss[n], w, k - m)
    BY <1>6 DEF MadeOf
  <2>1. PICK m \in 1..Len(ss[n]) : m <= k /\ At(ss[n], w, k - m)
    BY <2>1a
  <2>2. Len(ss[n]) \in Nat
    BY <1>8
  <2>3. (k - m) + m = k /\ w[(k - m) + m] = ss[n][m]
    BY <2>1, <2>2 DEF At
  <2>4. m + 1 <= Len(ss[n]) /\ ss[n][m + 1].part = "tag"
    BY <2>3, <1>8
  <2>5. m + 1 \in 1..Len(ss[n]) /\ (k - m) + (m + 1) = k + 1
    BY <2>2, <2>4
  <2>6. w[k + 1] = ss[n][m + 1] /\ (k - m) + Len(ss[n]) <= Len(w)
    BY <2>1, <2>5 DEF At
  <2>7. k + 1 \in (k + 1)..Len(w)
    BY <1>7, <2>2, <2>4, <2>6
  <2> QED
    BY <2>4, <2>6, <2>7
<1>10. ASSUME NEW t \in ToSet(Types(a)), ~Inapplicable(c, a.item, t)
       PROVE  \E k \in 1..Len(w) : w[k].part = "item" /\ w[k].type = t
  <2>1. PICK n \in 1..N : t = Types(a)[n]
    BY TypesAreKnown DEF N
  <2>2. Len(ss[n]) \in Nat /\ Len(ss[n]) >= 1 /\ ss[n][1].part = "item" /\ ss[n][1].type = t
    BY <1>8, <1>10, <2>1
  <2>3. PICK k \in Nat : At(ss[n], w, k)
    BY <1>6 DEF MadeOf
  <2>4. w[k + 1] = ss[n][1] /\ k + 1 \in 1..Len(w)
    BY <1>7, <2>2, <2>3 DEF At
  <2> QED
    BY <2>2, <2>4
<1>11. ASSUME NEW b \in S PROVE IsBuild(a.item, b) /\ ToSet(b.paths) \subseteq Path
  <2>1. PICK t \in ToSet(Types(a)) : b \in ToSet(Builds(c, a.item, t))
    BY DEF S, AllBuilds
  <2>2. IsBuild(a.item, b)
    BY <1>2, <2>1
  <2>3. PICK n \in 1..N : t = Types(a)[n]
    BY TypesAreKnown DEF N
  <2>4. ss[n] = Builds(c, a.item, t)
    BY <1>3, <2>3
  <2>5. PICK m \in 1..Len(ss[n]) : b = ss[n][m]
    BY <2>1, <2>4, <1>8, OwnElements
  <2>6. PICK k \in Nat : At(ss[n], w, k)
    BY <1>6 DEF MadeOf
  <2>7. w[k + m] = b /\ k + m \in 1..Len(w)
    BY <1>7, <1>8, <2>5, <2>6 DEF At
  <2>8. b \in ToSet(w)
    BY <1>7, <2>7, OwnElements
  <2> QED
    BY <2>2, <2>8, PathAssumption DEF w
<1> QED
  BY <1>7, <1>9, <1>10, <1>11 DEF w, S

-----------------------------------------------------------------------------
(* The map                                                                 *)

LEMMA NewIsMap == New \in Map
BY DEF New, Map

\* TypeOK, and that what it looks into are functions and records.
Shape ==
  /\ TypeOK
  /\ cache \in Map
  /\ DOMAIN todo = Req /\ DOMAIN response = Req

Inv == Shape /\ CallersAgree /\ Places /\ Covered /\ Hosted /\ OneStory /\ Fresh

\* The URL a request is at.
LEMMA HeadParts ==
  ASSUME Shape, Places, NEW r \in Req, pc[r] \in Busy, todo[r] # <<>>
  PROVE  LET b == Head(todo[r])
         IN  /\ IsBuild(ask[r].item, b) /\ b = todo[r][1]
             /\ \A k \in 1..Len(b.paths) : b.paths[k] \in Path
             /\ b.paths[1] \in Path
             /\ Tail(todo[r]) \in Seq(AllBuilds(config, ask[r]))
             /\ Len(todo[r]) \in Nat /\ Len(todo[r]) >= 1
             /\ Len(Tail(todo[r])) = Len(todo[r]) - 1
             /\ \A k \in 1..(Len(todo[r]) - 1) : Tail(todo[r])[k] = todo[r][k + 1]
<1> DEFINE S == AllBuilds(config, ask[r])
           b == Head(todo[r])
<1>1. /\ config \in Config /\ ask[r] \in Ask /\ "unknown" \notin ToSet(ask[r].types)
      /\ todo[r] \in Seq(S)
  BY DEF Shape, TypeOK, Places, Placed
<1>2. \A x \in S : IsBuild(ask[r].item, x) /\ ToSet(x.paths) \subseteq Path
  BY <1>1, ProgramParts
<1> HIDE DEF S
<1>3. /\ b \in S /\ b = todo[r][1] /\ Tail(todo[r]) \in Seq(S)
      /\ Len(todo[r]) \in Nat /\ Len(todo[r]) >= 1
      /\ Len(Tail(todo[r])) = Len(todo[r]) - 1
      /\ \A k \in 1..(Len(todo[r]) - 1) : Tail(todo[r])[k] = todo[r][k + 1]
  BY <1>1
<1>4. IsBuild(ask[r].item, b) /\ ToSet(b.paths) \subseteq Path
  BY <1>2, <1>3
<1> HIDE DEF b
<1>5. DOMAIN b.paths = 1..Len(b.paths) /\ 1 \in 1..Len(b.paths)
  <2>1. DOMAIN b.paths = 1..Len(b.paths) /\ Len(b.paths) \in {1, 2}
    BY <1>4 DEF IsBuild
  <2> QED
    BY <2>1
<1>6. \A k \in 1..Len(b.paths) : b.paths[k] \in Path
  BY <1>4, <1>5 DEF ToSet
<1> QED
  BY <1>3, <1>4, <1>5, <1>6 DEF S, b

\* The path a request asks about is one.
LEMMA AskedPath ==
  ASSUME Shape, Places, NEW r \in Req, pc[r] \in Asking
  PROVE  /\ path[r] \in Path
         /\ at[r] \in {1, 2} /\ Len(Head(todo[r]).paths) \in {1, 2}
         /\ at[r] <= Len(Head(todo[r]).paths)
         /\ todo[r] # <<>>
<1>1. todo[r] # <<>> /\ at[r] \in 1..Len(Head(todo[r]).paths) /\ path[r] = Head(todo[r]).paths[at[r]]
  BY DEF Places, Placed
<1>2. pc[r] \in Busy
  BY DEF Busy
<1>3. IsBuild(ask[r].item, Head(todo[r])) /\ path[r] \in Path
  BY <1>1, <1>2, HeadParts
<1> QED
  BY <1>1, <1>3 DEF IsBuild

LEMMA GetStep ==
  ASSUME Shape, Places, NEW r \in Req, Get(r)
  PROVE  /\ path[r] \in Path /\ pc[r] = "get"
         /\ cache' \in Map /\ cache'.memo = cache.memo
         /\ got' \in [Req -> BOOLEAN] /\ \A q \in Req \ {r} : got'[q] = got[q]
         /\ UNCHANGED <<up, done, fresh, path>>
         /\ \/ /\ pc' = [pc EXCEPT ![r] = "got"]
               /\ got'[r] = cache.memo[path[r]] /\ Kept(cache, path[r])
               /\ UNCHANGED cache
            \/ /\ pc' = [pc EXCEPT ![r] = "waiting"]
               /\ InFlight(cache, path[r]) /\ ~Kept(cache, path[r])
               /\ cache'.owner = cache.owner
               /\ cache'.waiting = [cache.waiting EXCEPT ![path[r]] = @ \cup {r}]
            \/ /\ pc' = [pc EXCEPT ![r] = "probe"]
               /\ ~InFlight(cache, path[r]) /\ ~Kept(cache, path[r])
               /\ cache'.owner = [cache.owner EXCEPT ![path[r]] = r]
               /\ cache'.waiting = cache.waiting
<1>1. pc[r] = "get" /\ UNCHANGED <<up, done, fresh, path>>
  BY DEF Get
<1>2. path[r] \in Path
  BY <1>1, AskedPath DEF Asking
<1>3. cache \in Map /\ got \in [Req -> BOOLEAN] /\ cache.memo \in [Path -> BOOLEAN \cup {NotKept}]
  BY DEF Shape, TypeOK, CacheTypeOK
<1>5. CASE /\ Kept(cache, path[r])
           /\ got' = [got EXCEPT ![r] = cache.memo[path[r]]]
           /\ pc'  = [pc EXCEPT ![r] = "got"]
           /\ UNCHANGED cache
  <2>1. cache.memo[path[r]] \in BOOLEAN
    BY <1>2, <1>3, <1>5 DEF Kept
  <2> QED
    BY <1>1, <1>2, <1>3, <1>5, <2>1
<1>6. CASE /\ ~Kept(cache, path[r])
           /\ InFlight(cache, path[r])
           /\ cache' = Join(cache, r, path[r])
           /\ pc'    = [pc EXCEPT ![r] = "waiting"]
           /\ UNCHANGED got
  <2>1. /\ Join(cache, r, path[r]) \in Map
        /\ Join(cache, r, path[r]).memo = cache.memo
        /\ Join(cache, r, path[r]).waiting = [cache.waiting EXCEPT ![path[r]] = @ \cup {r}]
        /\ Join(cache, r, path[r]).owner = cache.owner
    BY <1>2, <1>3 DEF Map, Join
  <2> QED
    BY <1>1, <1>2, <1>3, <1>6, <2>1
<1>7. CASE /\ ~Kept(cache, path[r])
           /\ ~InFlight(cache, path[r])
           /\ cache' = Run(Claim(cache, r, path[r]), r)
           /\ pc'    = [pc EXCEPT ![r] = "probe"]
           /\ UNCHANGED got
  <2> DEFINE m == Run(Claim(cache, r, path[r]), r)
  <2>1. /\ m \in Map /\ m.memo = cache.memo /\ m.waiting = cache.waiting
        /\ m.owner = [cache.owner EXCEPT ![path[r]] = r]
    BY <1>2, <1>3 DEF Map, Run, Claim
  <2> HIDE DEF m
  <2>2. cache' = m
    BY <1>7 DEF m
  <2> QED
    BY <1>1, <1>2, <1>3, <1>7, <2>1, <2>2
<1> QED
  BY <1>5, <1>6, <1>7 DEF Get

\* A probe, whatever becomes of its URL.
Probed(r) == \E reached \in BOOLEAN : Probe(r, reached)

LEMMA ProbesEither ==
  ASSUME NEW r \in Req, Probes(r)
  PROVE  Get(r) \/ Probed(r)
<1>1. Reaches(r) \subseteq BOOLEAN
  BY DEF Reaches
<1> QED
  BY <1>1 DEF Probes, CacheStep, Probed

LEMMA ProbeStep ==
  ASSUME Shape, Places, CallersAgree, NEW r \in Req, NEW reached \in BOOLEAN, Probe(r, reached)
  PROVE  /\ path[r] \in Path /\ pc[r] = "probe" /\ ~Kept(cache, path[r])
         /\ cache' \in Map
         /\ cache'.memo = [cache.memo EXCEPT ![path[r]] = up /\ reached /\ path[r] \in done]
         /\ cache'.owner = [cache.owner EXCEPT ![path[r]] = NoReq]
         /\ cache'.waiting = [cache.waiting EXCEPT ![path[r]] = {}]
         /\ \E rs \in SUBSET Req :
              /\ r \in rs
              /\ \A q \in Req :
                   q \in rs <=> pc[q] \in {"probe", "waiting"} /\ path[q] = path[r]
              /\ pc'  = [q \in Req |-> IF q \in rs THEN "got" ELSE pc[q]]
              /\ got' = [q \in Req |-> IF q \in rs THEN up /\ reached /\ path[r] \in done ELSE got[q]]
         /\ UNCHANGED <<up, done, fresh, path>>
<1> DEFINE rs == {r} \cup cache.waiting[path[r]]
           v  == up /\ reached /\ path[r] \in done
<1>1. pc[r] = "probe" /\ UNCHANGED <<up, done, fresh, path>>
  BY DEF Probe
<1>2. path[r] \in Path
  BY <1>1, AskedPath DEF Asking
<1>3. cache \in Map /\ up \in BOOLEAN /\ cache.waiting \in [Path -> SUBSET Req]
  BY DEF Shape, TypeOK, CacheTypeOK
<1>4. v \in BOOLEAN \cup {NotKept}
  OBVIOUS
<1>5. /\ cache' = Finish(cache, r, path[r], v)
      /\ pc'  = [q \in Req |-> IF q \in rs THEN "got" ELSE pc[q]]
      /\ got' = [q \in Req |-> IF q \in rs THEN v ELSE got[q]]
  BY DEF Probe, Return
<1>6. cache.owner[path[r]] = r /\ ~Kept(cache, path[r])
  <2>1. cache.owner[path[r]] = r
    BY <1>1, <1>2 DEF CallersAgree
  <2> QED
    BY <1>2, <2>1, CacheMapAssumptions DEF CallersAgree, InFlight
<1>7. \A q \in Req : q \in rs <=> pc[q] \in {"probe", "waiting"} /\ path[q] = path[r]
  BY <1>1, <1>2, <1>6 DEF CallersAgree
<1>8. rs \in SUBSET Req
  BY <1>2, <1>3
<1>9. /\ cache' \in Map
      /\ cache'.memo = [cache.memo EXCEPT ![path[r]] = v]
      /\ cache'.owner = [cache.owner EXCEPT ![path[r]] = NoReq]
      /\ cache'.waiting = [cache.waiting EXCEPT ![path[r]] = {}]
  <2> DEFINE m == Finish(cache, r, path[r], v)
  <2>1. /\ m \in Map /\ m.memo = [cache.memo EXCEPT ![path[r]] = v]
        /\ m.waiting = [cache.waiting EXCEPT ![path[r]] = {}]
        /\ m.owner = [cache.owner EXCEPT ![path[r]] = NoReq]
    BY <1>2, <1>3, <1>4 DEF Map, Finish
  <2> HIDE DEF m, v
  <2>2. cache' = m
    BY <1>5 DEF m, v
  <2> QED
    BY <2>1, <2>2
<1>10. /\ r \in rs
       /\ pc'  = [q \in Req |-> IF q \in rs THEN "got" ELSE pc[q]]
       /\ got' = [q \in Req |-> IF q \in rs THEN v ELSE got[q]]
  BY <1>5
<1> HIDE DEF rs
<1> QED
  BY <1>1, <1>2, <1>6, <1>7, <1>8, <1>9, <1>10

-----------------------------------------------------------------------------
(* Types                                                                   *)

\* What the response says of one URL.
Entry == [host : {"none", "standard", "premium"}, meta : URL, preload : BOOLEAN]

LEMMA FillType ==
  ASSUME NEW i, NEW b, IsBuild(i, b), NEW resp, NEW u \in URL,
         NEW host \in {"none", "standard", "premium"},
         DOMAIN resp \subseteq ToSet(ExportTypes), \A t \in DOMAIN resp : resp[t] \in Entry
  PROVE  /\ DOMAIN Fill(resp, b, u, host) \subseteq ToSet(ExportTypes)
         /\ \A t \in DOMAIN Fill(resp, b, u, host) : Fill(resp, b, u, host)[t] \in Entry
<1> DEFINE new == [host |-> host, meta |-> u, preload |-> FALSE]
<1>1. new \in Entry /\ u.cached \in BOOLEAN
  BY DEF Entry, URL
<1>2. b.type \in ToSet(ExportTypes)
  BY DEF IsBuild
<1>3. ASSUME NEW e \in Entry PROVE [e EXCEPT !.preload = u.cached] \in Entry
  BY <1>1 DEF Entry
<1>4. CASE Fill(resp, b, u, host) = [resp EXCEPT !["stream"].preload = u.cached]
  BY <1>3, <1>4
<1>5. CASE Fill(resp, b, u, host) = [t \in DOMAIN resp \cup {b.type} |->
                                      IF t = b.type THEN new ELSE resp[t]]
  <2> HIDE DEF new
  <2> QED
    BY <1>1, <1>2, <1>5
<1>6. CASE Fill(resp, b, u, host) = resp
  BY <1>6
<1> QED
  BY <1>4, <1>5, <1>6 DEF Fill

LEMMA HostType ==
  ASSUME NEW c, NEW a, NEW t
  PROVE  Host(c, a, t) \in {"none", "standard", "premium"}
BY DEF Host, getBaseDomain

\* The steps of the map leave the rest as it is.
LEMMA ProbesShape ==
  ASSUME Shape, Places, CallersAgree, NEW r \in Req, Probes(r)
  PROVE  Shape'
<1>1. UNCHANGED exportVars
  BY DEF Probes
<1>2. /\ cache' \in Map /\ got' \in [Req -> BOOLEAN]
      /\ pc' \in [Req -> {"idle", "build", "get", "waiting", "probe", "got",
                          "answered", "failed", "panicked"}]
      /\ UNCHANGED <<up, done, fresh, path>>
  <2>1. CASE Get(r)
    <3>1. \E next \in {"got", "waiting", "probe"} : pc' = [pc EXCEPT ![r] = next]
      BY <2>1, GetStep
    <3>2. PICK next \in {"got", "waiting", "probe"} : pc' = [pc EXCEPT ![r] = next]
      BY <3>1
    <3> QED
      BY <2>1, <3>2, GetStep DEF Shape, TypeOK
  <2>2. CASE Probed(r)
    <3> PICK reached \in BOOLEAN : Probe(r, reached)
      BY <2>2 DEF Probed
    <3>1. PICK rs \in SUBSET Req :
             /\ pc'  = [q \in Req |-> IF q \in rs THEN "got" ELSE pc[q]]
             /\ got' = [q \in Req |-> IF q \in rs THEN up /\ reached /\ path[r] \in done ELSE got[q]]
      BY <2>2, ProbeStep
    <3>2. (up /\ reached /\ path[r] \in done) \in BOOLEAN
      OBVIOUS
    <3> DEFINE v == up /\ reached /\ path[r] \in done
    <3> HIDE DEF v
    <3>3. /\ v \in BOOLEAN
          /\ got' = [q \in Req |-> IF q \in rs THEN v ELSE got[q]]
      BY <3>1, <3>2 DEF v
    <3>4. got' \in [Req -> BOOLEAN]
      BY <3>3 DEF Shape, TypeOK, CacheTypeOK
    <3>5. cache' \in Map /\ UNCHANGED <<up, done, fresh, path>>
      BY <2>2, ProbeStep
    <3> QED
      BY <3>1, <3>4, <3>5 DEF Shape, TypeOK
  <2> QED
    BY <2>1, <2>2, ProbesEither
<1>3. CacheTypeOK'
  <2>1. /\ cache'.owner \in [Path -> Req \cup {NoReq}]
        /\ cache'.memo \in [Path -> BOOLEAN \cup {NotKept}]
        /\ cache'.waiting \in [Path -> SUBSET Req]
        /\ cache'.running \subseteq Req
    BY <1>2 DEF Map
  <2> QED
    BY <1>2, <2>1 DEF Shape, TypeOK, CacheTypeOK
<1> QED
  BY <1>1, <1>2, <1>3 DEF Shape, TypeOK, exportVars

LEMMA BuiltShape ==
  ASSUME Shape, Places, NEW r \in Req, Built(r)
  PROVE  Shape'
<1> DEFINE b == Head(todo[r])
           u == IF at[r] = 1 THEN [url[r] EXCEPT !.cached = got[r]]
                             ELSE [url[r] EXCEPT !.transcodeCached = got[r]]
           host == Host(config, ask[r], b.type)
<1>1. /\ pc[r] = "got" /\ got' = [got EXCEPT ![r] = FALSE]
      /\ UNCHANGED <<up, done, cache, fresh, config, ask, steady>>
  BY DEF Built
<1>2. u \in URL
  BY DEF Shape, TypeOK, CacheTypeOK, URL
<1>3. host \in {"none", "standard", "premium"}
  BY HostType
<1>4. IsBuild(ask[r].item, b)
  BY <1>1, AskedPath, HeadParts DEF Asking, Busy
<1>5. CASE Fail(r, "selection") /\ UNCHANGED <<todo, response>>
  BY <1>1, <1>5 DEF Fail, Shape, TypeOK, CacheTypeOK
<1>6. CASE pc' = [pc EXCEPT ![r] = "panicked"] /\ UNCHANGED <<path, at, url, todo, response, fault>>
  BY <1>1, <1>6 DEF Shape, TypeOK, CacheTypeOK
<1>7. CASE /\ response' = [response EXCEPT ![r] = Fill(@, b, u, host)]
           /\ pc'   = [pc EXCEPT ![r] = "build"]
           /\ todo' = [todo EXCEPT ![r] = Tail(@)]
           /\ at'   = [at EXCEPT ![r] = 0]
           /\ url'  = [url EXCEPT ![r] = NewURL]
           /\ path' = [path EXCEPT ![r] = NoPath]
           /\ UNCHANGED fault
  <2>1. \A q \in Req : /\ DOMAIN response[q] \subseteq ToSet(ExportTypes)
                       /\ \A t \in DOMAIN response[q] : response[q][t] \in Entry
    BY DEF Shape, TypeOK, Entry
  <2> DEFINE new == Fill(response[r], b, u, host)
  <2>2. DOMAIN new \subseteq ToSet(ExportTypes) /\ \A t \in DOMAIN new : new[t] \in Entry
    <3> HIDE DEF b, u, host
    <3> QED
      BY <1>2, <1>3, <1>4, <2>1, FillType
  <2>3. response' = [response EXCEPT ![r] = new] /\ DOMAIN response = Req
    BY <1>7 DEF Shape
  <2> HIDE DEF new
  <2>4. \A q \in Req : /\ DOMAIN response'[q] \subseteq ToSet(ExportTypes)
                       /\ \A t \in DOMAIN response'[q] : response'[q][t] \in Entry
    BY <2>1, <2>2, <2>3
  <2>5. NewURL \in URL
    BY DEF NewURL, URL
  <2> HIDE DEF b, u, host
  <2> QED
    BY <1>1, <1>7, <2>3, <2>4, <2>5 DEF Shape, TypeOK, CacheTypeOK, Entry
<1> QED
  BY <1>5, <1>6, <1>7 DEF Built

LEMMA ExpiresShape ==
  ASSUME Shape, NEW p \in Path, Expires(p)
  PROVE  /\ Shape'
         /\ cache'.memo = [cache.memo EXCEPT ![p] = NotKept]
         /\ cache'.waiting = cache.waiting
         /\ cache'.owner = cache.owner
<1>1. /\ cache' = Evict(cache, p)
      /\ fresh' = IF p \in done THEN fresh \cup {p} ELSE fresh \ {p}
      /\ UNCHANGED <<up, done, pc, path, got, config, ask, todo, at, url, response, fault>>
      /\ steady' = [r \in Req |-> steady[r] /\ ~(ask[r] # NoAsk /\ ask[r].item = p[1])]
  BY DEF Expires, Expire
<1>2. cache \in Map
  BY DEF Shape
<1>3. /\ cache' \in Map
      /\ cache'.memo = [cache.memo EXCEPT ![p] = NotKept]
      /\ cache'.waiting = cache.waiting
      /\ cache'.owner = cache.owner
  BY <1>1, <1>2 DEF Evict, Map
<1>4. steady' \in [Req -> BOOLEAN]
  BY <1>1
<1>5. /\ cache'.owner \in [Path -> Req \cup {NoReq}]
      /\ cache'.memo \in [Path -> BOOLEAN \cup {NotKept}]
      /\ cache'.waiting \in [Path -> SUBSET Req]
      /\ cache'.running \subseteq Req
  BY <1>3 DEF Map
<1> QED
  BY <1>1, <1>3, <1>4, <1>5 DEF Shape, TypeOK, CacheTypeOK

LEMMA ShapeStep ==
  ASSUME Shape, Places, CallersAgree, [Next]_vars
  PROVE  Shape'
<1>1. ASSUME NEW r \in Req, Begin(r) PROVE Shape'
  <2>1. PICK a \in Ask : /\ ask' = [ask EXCEPT ![r] = a]
                         /\ \/ Fail(r, "types") /\ UNCHANGED todo
                            \/ /\ todo' = [todo EXCEPT ![r] = Program(config, a)]
                               /\ pc'   = [pc EXCEPT ![r] = "build"]
                               /\ UNCHANGED <<path, at, url, fault>>
    BY <1>1 DEF Begin
  <2>2. UNCHANGED <<up, done, cache, fresh, got, config, response, steady>>
    BY <1>1 DEF Begin
  <2> QED
    BY <2>1, <2>2 DEF Fail, Shape, TypeOK, CacheTypeOK
<1>2. ASSUME NEW r \in Req, Start(r) PROVE Shape'
  <2>1. pc[r] = "build" /\ todo[r] # <<>>
    BY <1>2 DEF Start
  <2>2. Head(todo[r]).paths[1] \in Path
    BY <2>1, HeadParts DEF Busy
  <2>3. NewURL \in URL
    BY DEF NewURL, URL
  <2>4. UNCHANGED <<up, done, cache, fresh, got, config, ask, todo, response, steady>>
    BY <1>2 DEF Start
  <2>5. \/ Fail(r, "token") \/ Fail(r, "nodes")
        \/ /\ pc'   = [pc EXCEPT ![r] = "get"]
           /\ path' = [path EXCEPT ![r] = Head(todo[r]).paths[1]]
           /\ at'   = [at EXCEPT ![r] = 1]
           /\ url'  = [url EXCEPT ![r] = NewURL]
           /\ UNCHANGED fault
    BY <1>2 DEF Start
  <2> QED
    BY <2>2, <2>3, <2>4, <2>5 DEF Fail, Shape, TypeOK, CacheTypeOK
<1>3. ASSUME NEW r \in Req, Go(r) PROVE Shape'
  <2>1. /\ pc[r] = "got" /\ at[r] < Len(Head(todo[r]).paths)
        /\ url'  = [url EXCEPT ![r].cached = got[r], ![r].transcode = TRUE]
        /\ pc'   = [pc EXCEPT ![r] = "get"]
        /\ at'   = [at EXCEPT ![r] = 2]
        /\ path' = [path EXCEPT ![r] = Head(todo[r]).paths[2]]
        /\ UNCHANGED <<up, done, cache, fresh, got, config, ask, todo, response,
                       fault, steady>>
    BY <1>3 DEF Go
  <2>2. at[r] \in {1, 2} /\ Len(Head(todo[r]).paths) \in {1, 2} /\ todo[r] # <<>>
    BY <2>1, AskedPath DEF Asking
  <2>3. 2 \in 1..Len(Head(todo[r]).paths)
    BY <2>1, <2>2
  <2>4. Head(todo[r]).paths[2] \in Path
    BY <2>1, <2>2, <2>3, HeadParts DEF Busy, Asking
  <2>5. url' \in [Req -> URL]
    <3>1. url \in [Req -> URL] /\ got[r] \in BOOLEAN
      BY DEF Shape, TypeOK, CacheTypeOK
    <3>2. \A u \in URL : [u EXCEPT !.cached = got[r]] \in URL
      BY <3>1 DEF URL
    <3>3. \A u \in URL : [u EXCEPT !.transcode = TRUE] \in URL
      BY DEF URL
    <3>4. url' = [[url EXCEPT ![r] = [@ EXCEPT !.cached = got[r]]]
                    EXCEPT ![r] = [@ EXCEPT !.transcode = TRUE]]
      BY <2>1
    <3>5. [url EXCEPT ![r] = [@ EXCEPT !.cached = got[r]]] \in [Req -> URL]
      BY <3>1, <3>2
    <3> QED
      BY <3>3, <3>4, <3>5
  <2> QED
    BY <2>1, <2>4, <2>5 DEF Shape, TypeOK, CacheTypeOK
<1>4. ASSUME NEW r \in Req, Answer(r) PROVE Shape'
  BY <1>4 DEF Answer, exportVars, Shape, TypeOK, CacheTypeOK
<1>5. ASSUME NEW r \in Req, Leave(r) PROVE Shape'
  <2>1. NewURL \in URL
    BY DEF NewURL, URL
  <2>2. \A q \in Req : /\ DOMAIN response'[q] \subseteq ToSet(ExportTypes)
                       /\ \A t \in DOMAIN response'[q] : response'[q][t] \in Entry
    <3>1. response' = [response EXCEPT ![r] = <<>>] /\ DOMAIN response = Req
      BY <1>5 DEF Leave, Shape
    <3>2. DOMAIN <<>> = {}
      OBVIOUS
    <3>3. \A q \in Req : /\ DOMAIN response[q] \subseteq ToSet(ExportTypes)
                         /\ \A t \in DOMAIN response[q] : response[q][t] \in Entry
      BY DEF Shape, TypeOK, Entry
    <3> QED
      BY <3>1, <3>2, <3>3
  <2> QED
    BY <1>5, <2>1, <2>2 DEF Leave, Shape, TypeOK, CacheTypeOK, Entry
<1>6. CASE Environment /\ UNCHANGED exportVars
  BY <1>6 DEF Environment, EdgeTurns, SeederCompletes, SeederDrops, exportVars, Shape,
    TypeOK, CacheTypeOK
<1>7. CASE UNCHANGED vars
  BY <1>7 DEF vars, cacheVars, exportVars, Shape, TypeOK, CacheTypeOK
<1> QED
  BY <1>1, <1>2, <1>3, <1>4, <1>5, <1>6, <1>7, ProbesShape, BuiltShape, ExpiresShape
  DEF Next, Work

-----------------------------------------------------------------------------
(* The map and its callers                                                 *)

\* A step of r of its own, away from the map.
LEMMA OwnStepAgrees ==
  ASSUME CallersAgree, NEW r \in Req, UNCHANGED cache,
         pc[r] \notin {"probe", "waiting"}, pc'[r] \notin {"probe", "waiting"},
         \A q \in Req \ {r} : pc'[q] = pc[q] /\ path'[q] = path[q]
  PROVE  CallersAgree'
BY DEF CallersAgree, InFlight, Kept

\* Which steps are a request's own, and what they leave alone.
LEMMA OwnSteps ==
  ASSUME Shape, NEW r \in Req, Begin(r) \/ Start(r) \/ Go(r) \/ Built(r) \/ Answer(r) \/ Leave(r)
  PROVE  /\ UNCHANGED <<up, done, cache, fresh, config>>
         /\ pc[r] \notin {"probe", "waiting"} /\ pc'[r] \notin {"probe", "waiting"}
         /\ \A q \in Req \ {r} :
              /\ pc'[q] = pc[q] /\ path'[q] = path[q] /\ got'[q] = got[q]
              /\ ask'[q] = ask[q] /\ todo'[q] = todo[q] /\ at'[q] = at[q]
              /\ url'[q] = url[q] /\ response'[q] = response[q] /\ steady'[q] = steady[q]
<1> USE DEF Shape, TypeOK, CacheTypeOK
<1>1. CASE Begin(r)
  BY <1>1 DEF Begin, Fail
<1>2. CASE Start(r)
  BY <1>2 DEF Start, Fail
<1>3. CASE Go(r)
  BY <1>3 DEF Go
<1>4. CASE Built(r)
  <2>1. /\ UNCHANGED <<up, done, cache, fresh, config, ask, steady>>
        /\ pc[r] = "got" /\ got' = [got EXCEPT ![r] = FALSE]
    BY <1>4 DEF Built
  <2>2. \/ Fail(r, "selection") /\ UNCHANGED <<todo, response>>
        \/ pc' = [pc EXCEPT ![r] = "panicked"] /\ UNCHANGED <<path, at, url, todo, response, fault>>
        \/ /\ \E e : response' = [response EXCEPT ![r] = e]
           /\ pc'   = [pc EXCEPT ![r] = "build"]
           /\ todo' = [todo EXCEPT ![r] = Tail(@)]
           /\ at'   = [at EXCEPT ![r] = 0]
           /\ url'  = [url EXCEPT ![r] = NewURL]
           /\ path' = [path EXCEPT ![r] = NoPath]
    BY <1>4 DEF Built
  <2> QED
    BY <2>1, <2>2 DEF Fail
<1>5. CASE Answer(r)
  BY <1>5 DEF Answer, exportVars
<1>6. CASE Leave(r)
  BY <1>6 DEF Leave
<1> QED
  BY <1>1, <1>2, <1>3, <1>4, <1>5, <1>6

LEMMA GetAgrees ==
  ASSUME Shape, Places, CallersAgree, NEW r \in Req, Get(r)
  PROVE  CallersAgree'
<1> DEFINE p == path[r]
<1>1. /\ p \in Path /\ pc[r] = "get"
      /\ cache'.memo = cache.memo /\ path' = path
  BY GetStep
<1>2. /\ pc \in [Req -> {"idle", "build", "get", "waiting", "probe", "got",
                         "answered", "failed", "panicked"}]
      /\ cache.owner \in [Path -> Req \cup {NoReq}] /\ cache.waiting \in [Path -> SUBSET Req]
  BY DEF Shape, TypeOK, CacheTypeOK
<1>3. NoReq \notin Req
  BY CacheMapAssumptions
<1>4. CASE pc' = [pc EXCEPT ![r] = "got"] /\ UNCHANGED cache
  BY <1>1, <1>2, <1>4 DEF CallersAgree, InFlight, Kept
<1>5. CASE /\ pc' = [pc EXCEPT ![r] = "waiting"]
           /\ InFlight(cache, p) /\ ~Kept(cache, p)
           /\ cache'.owner = cache.owner
           /\ cache'.waiting = [cache.waiting EXCEPT ![p] = @ \cup {r}]
  <2> HIDE DEF p
  <2>1. path[r] = p
    BY DEF p
  <2> QED
    BY <1>1, <1>2, <1>5, <2>1 DEF CallersAgree, InFlight, Kept
<1>6. CASE /\ pc' = [pc EXCEPT ![r] = "probe"]
           /\ ~InFlight(cache, p) /\ ~Kept(cache, p)
           /\ cache'.owner = [cache.owner EXCEPT ![p] = r]
           /\ cache'.waiting = cache.waiting
  <2> HIDE DEF p
  <2>1. path[r] = p
    BY DEF p
  <2> QED
    BY <1>1, <1>2, <1>3, <1>6, <2>1 DEF CallersAgree, InFlight, Kept
<1> QED
  BY <1>4, <1>5, <1>6, GetStep

LEMMA ProbeAgrees ==
  ASSUME Shape, Places, CallersAgree, NEW r \in Req, NEW reached \in BOOLEAN, Probe(r, reached)
  PROVE  CallersAgree'
<1> DEFINE p == path[r]
           v == up /\ reached /\ p \in done
<1>1. /\ p \in Path /\ pc[r] = "probe" /\ path' = path
      /\ cache'.memo = [cache.memo EXCEPT ![p] = v]
      /\ cache'.owner = [cache.owner EXCEPT ![p] = NoReq]
      /\ cache'.waiting = [cache.waiting EXCEPT ![p] = {}]
  BY ProbeStep
<1>2. PICK rs \in SUBSET Req :
        /\ \A q \in Req : q \in rs <=> pc[q] \in {"probe", "waiting"} /\ path[q] = p
        /\ pc' = [q \in Req |-> IF q \in rs THEN "got" ELSE pc[q]]
        /\ got' = [q \in Req |-> IF q \in rs THEN v ELSE got[q]]
  BY ProbeStep
<1>3. /\ cache.owner \in [Path -> Req \cup {NoReq}] /\ cache.waiting \in [Path -> SUBSET Req]
      /\ cache.memo \in [Path -> BOOLEAN \cup {NotKept}]
  BY DEF Shape, TypeOK, CacheTypeOK
<1>4. NoReq \notin Req
  BY CacheMapAssumptions
<1> HIDE DEF p, v
<1>5. ASSUME NEW k \in Path, NEW q \in Req
      PROVE  /\ cache'.owner[k] = q <=> pc'[q] = "probe" /\ path'[q] = k
             /\ q \in cache'.waiting[k] <=> pc'[q] = "waiting" /\ path'[q] = k
  <2>1. CASE k = p
    BY <1>1, <1>2, <1>3, <1>4, <2>1
  <2>2. CASE k # p
    <3>1. cache'.owner[k] = cache.owner[k] /\ cache'.waiting[k] = cache.waiting[k]
      BY <1>1, <1>3, <2>2
    <3>2. /\ pc'[q] = "probe" /\ path'[q] = k <=> pc[q] = "probe" /\ path[q] = k
          /\ pc'[q] = "waiting" /\ path'[q] = k <=> pc[q] = "waiting" /\ path[q] = k
      BY <1>1, <1>2, <2>2
    <3> QED
      BY <3>1, <3>2 DEF CallersAgree
  <2> QED
    BY <2>1, <2>2
<1>6. ASSUME NEW k \in Path, InFlight(cache', k) PROVE ~Kept(cache', k)
  <2>1. k # p
    BY <1>1, <1>3, <1>6 DEF InFlight
  <2> QED
    BY <1>1, <1>3, <1>6, <2>1 DEF CallersAgree, InFlight, Kept
<1> QED
  BY <1>5, <1>6 DEF CallersAgree, InFlight, Kept

LEMMA CallersStep ==
  ASSUME Shape, Places, CallersAgree, [Next]_vars
  PROVE  CallersAgree'
<1>1. ASSUME NEW r \in Req,
             Begin(r) \/ Start(r) \/ Go(r) \/ Built(r) \/ Answer(r) \/ Leave(r)
      PROVE  CallersAgree'
  BY <1>1, OwnSteps, OwnStepAgrees
<1>2. ASSUME NEW r \in Req, Probes(r) PROVE CallersAgree'
  BY <1>2, GetAgrees, ProbeAgrees, ProbesEither DEF Probed
<1>3. ASSUME NEW p \in Path, Expires(p) PROVE CallersAgree'
  <2>1. /\ cache'.memo = [cache.memo EXCEPT ![p] = NotKept]
        /\ cache'.waiting = cache.waiting
        /\ cache'.owner = cache.owner
    BY <1>3, ExpiresShape
  <2>2. UNCHANGED <<pc, path>>
    BY <1>3 DEF Expires, Expire
  <2>3. cache.memo \in [Path -> BOOLEAN \cup {NotKept}]
    BY DEF Shape, TypeOK, CacheTypeOK
  <2> QED
    BY <2>1, <2>2, <2>3 DEF CallersAgree, InFlight, Kept
<1>4. CASE Environment /\ UNCHANGED exportVars
  BY <1>4 DEF Environment, EdgeTurns, SeederCompletes, SeederDrops, CallersAgree
<1>5. CASE UNCHANGED vars
  BY <1>5 DEF vars, cacheVars, CallersAgree
<1> QED
  BY <1>1, <1>2, <1>3, <1>4, <1>5 DEF Next, Work

-----------------------------------------------------------------------------
(* Where requests stand                                                    *)

\* A request nothing happens to stands where it stood.
LEMMA Others ==
  ASSUME NEW q, UNCHANGED config, pc'[q] = pc[q], path'[q] = path[q], got'[q] = got[q],
         ask'[q] = ask[q], todo'[q] = todo[q], at'[q] = at[q], url'[q] = url[q],
         response'[q] = response[q], steady'[q] = steady[q]
  PROVE  /\ Placed(q) => Placed(q)'
         /\ CoveredFor(q) => CoveredFor(q)'
         /\ HostedFor(q) => HostedFor(q)'
         /\ OneStoryFor(q) /\ UNCHANGED cache => OneStoryFor(q)'
<1>1. Placed(q) => Placed(q)'
  BY DEF Placed
<1>2. CoveredFor(q) => CoveredFor(q)'
  BY DEF CoveredFor, Left
<1>3. HostedFor(q) => HostedFor(q)'
  BY DEF HostedFor, Allowed
<1>4. OneStoryFor(q) /\ UNCHANGED cache => OneStoryFor(q)'
  BY DEF OneStoryFor, Left, TagLeft, Known
<1> QED
  BY <1>1, <1>2, <1>3, <1>4

LEMMA BuiltPlace ==
  ASSUME Shape, Places, NEW r \in Req, Built(r)
  PROVE  Placed(r)'
<1> DEFINE S == AllBuilds(config, ask[r])
<1>1. UNCHANGED <<config, ask>> /\ pc[r] = "got"
  BY DEF Built
<1>2. pc[r] \in Busy /\ pc[r] \in Asking /\ todo[r] # <<>>
  BY <1>1, AskedPath DEF Busy, Asking
<1>3. CASE pc'[r] \in {"failed", "panicked"}
  BY <1>3 DEF Placed, Busy, Asking
<1>4. CASE pc'[r] = "build" /\ todo'[r] = Tail(todo[r])
  <2>1. /\ ask[r] \in Ask /\ "unknown" \notin ToSet(ask[r].types)
        /\ TagsFollow(ask[r], todo[r])
    BY <1>2 DEF Places, Placed
  <2>2. /\ Tail(todo[r]) \in Seq(S)
        /\ Len(todo[r]) \in Nat /\ Len(todo[r]) >= 1
        /\ Len(Tail(todo[r])) = Len(todo[r]) - 1
        /\ \A k \in 1..(Len(todo[r]) - 1) : Tail(todo[r])[k] = todo[r][k + 1]
    BY <1>2, HeadParts
  <2>3. TagsFollow(ask[r], Tail(todo[r]))
    <3> DEFINE w == Tail(todo[r])
    <3> SUFFICES ASSUME NEW k \in 1..Len(w), IsStream(w[k]), Playable(ask[r].item)
                 PROVE  \E l \in (k + 1)..Len(w) : w[l].part = "tag"
      BY DEF TagsFollow
    <3>1. k + 1 \in 1..Len(todo[r]) /\ w[k] = todo[r][k + 1]
      BY <2>2
    <3>2. PICK l \in (k + 1 + 1)..Len(todo[r]) : todo[r][l].part = "tag"
      BY <2>1, <3>1 DEF TagsFollow
    <3>3. l - 1 \in (k + 1)..Len(w) /\ w[l - 1] = todo[r][l]
      BY <2>2, <3>2
    <3> QED
      BY <3>2, <3>3
  <2> HIDE DEF S
  <2>4. /\ UNCHANGED <<config, ask>> /\ pc'[r] = "build" /\ todo'[r] = Tail(todo[r])
        /\ ask'[r] \in Ask /\ "unknown" \notin ToSet(ask'[r].types)
        /\ todo'[r] \in Seq(AllBuilds(config', ask'[r])) /\ TagsFollow(ask'[r], todo'[r])
    BY <1>1, <1>4, <2>1, <2>2, <2>3 DEF S
  <2> QED
    BY <2>4 DEF Placed, Asking, Busy
<1>5. pc'[r] \in {"failed", "panicked"} \/ (pc'[r] = "build" /\ todo'[r] = Tail(todo[r]))
  <2>1. \/ pc' = [pc EXCEPT ![r] = "failed"]
        \/ pc' = [pc EXCEPT ![r] = "panicked"]
        \/ pc' = [pc EXCEPT ![r] = "build"] /\ todo' = [todo EXCEPT ![r] = Tail(@)]
    BY DEF Built, Fail
  <2> QED
    BY <2>1 DEF Shape, TypeOK
<1> QED
  BY <1>3, <1>4, <1>5

\* The steps of the map keep requests asking that ask.
LEMMA ProbesKeep ==
  ASSUME Shape, Places, CallersAgree, NEW r \in Req, Probes(r)
  PROVE  /\ UNCHANGED exportVars /\ UNCHANGED path
         /\ \A q \in Req : pc'[q] = pc[q] \/ (pc[q] \in Asking /\ pc'[q] \in Asking)
<1>1. UNCHANGED exportVars /\ UNCHANGED path
  BY DEF Probes, CacheStep, Get, Probe
<1> DEFINE K == \A q \in Req : pc'[q] = pc[q] \/ (pc[q] \in Asking /\ pc'[q] \in Asking)
<1>2. ASSUME Get(r) PROVE K
  <2>1. \E next \in {"got", "waiting", "probe"} : pc' = [pc EXCEPT ![r] = next]
    BY <1>2, GetStep
  <2>2. pc[r] = "get"
    BY <1>2, GetStep
  <2>3. PICK next \in {"got", "waiting", "probe"} : pc' = [pc EXCEPT ![r] = next]
    BY <2>1
  <2> QED
    BY <2>2, <2>3 DEF Shape, TypeOK, Asking
<1>3. ASSUME Probed(r) PROVE K
  <2> PICK reached \in BOOLEAN : Probe(r, reached)
    BY <1>3 DEF Probed
  <2>1. PICK rs \in SUBSET Req :
          /\ \A q \in Req : q \in rs <=> pc[q] \in {"probe", "waiting"} /\ path[q] = path[r]
          /\ pc' = [q \in Req |-> IF q \in rs THEN "got" ELSE pc[q]]
          /\ got' = [q \in Req |->
                       IF q \in rs THEN up /\ reached /\ path[r] \in done ELSE got[q]]
    BY ProbeStep
  <2> QED
    BY <2>1 DEF Asking
<1> QED
  BY <1>1, <1>2, <1>3, ProbesEither

LEMMA PlacesStep ==
  ASSUME Shape, Places, CallersAgree, [Next]_vars
  PROVE  Places'
<1> USE DEF Busy, Asking
<1>1. ASSUME NEW r \in Req,
             Begin(r) \/ Start(r) \/ Go(r) \/ Built(r) \/ Answer(r) \/ Leave(r)
      PROVE  Places'
  <2>1. ASSUME NEW q \in Req \ {r} PROVE Placed(q)'
    BY <1>1, OwnSteps, Others DEF Places
  <2>2. CASE Begin(r)
    <3>1. PICK a \in Ask : /\ ask' = [ask EXCEPT ![r] = a]
                           /\ \/ Fail(r, "types") /\ UNCHANGED todo
                              \/ /\ "unknown" \notin ToSet(a.types)
                                 /\ todo' = [todo EXCEPT ![r] = Program(config, a)]
                                 /\ pc'   = [pc EXCEPT ![r] = "build"]
      BY <2>2 DEF Begin
    <3>2. UNCHANGED config /\ config \in Config /\ ask'[r] = a
      BY <2>2, <3>1 DEF Begin, Shape, TypeOK
    <3>3. CASE pc'[r] = "failed"
      BY <2>1, <3>3 DEF Places, Placed
    <3>4. CASE "unknown" \notin ToSet(a.types) /\ todo'[r] = Program(config, a) /\ pc'[r] = "build"
      <4>1. Program(config, a) \in Seq(AllBuilds(config, a)) /\ TagsFollow(a, Program(config, a))
        BY <3>2, <3>4, ProgramParts
      <4>2. Placed(r)'
        BY <3>2, <3>4, <4>1 DEF Placed
      <4> QED
        BY <2>1, <4>2 DEF Places
    <3> QED
      BY <3>1, <3>3, <3>4 DEF Fail, Shape, TypeOK
  <2>3. CASE Start(r)
    <3>1. /\ pc[r] = "build" /\ todo[r] # <<>>
          /\ UNCHANGED <<config, ask, todo, response>>
          /\ \/ pc'[r] = "failed"
             \/ /\ pc'[r] = "get" /\ path'[r] = Head(todo[r]).paths[1]
                /\ at'[r] = 1 /\ url'[r] = NewURL
      BY <2>3 DEF Start, Fail, Shape, TypeOK, CacheTypeOK
    <3>2. Len(Head(todo[r]).paths) \in {1, 2}
      BY <3>1, HeadParts DEF IsBuild
    <3>3. 1 \in 1..Len(Head(todo[r]).paths)
      BY <3>2
    <3>4. Placed(r)
      BY DEF Places
    <3>5. Placed(r)'
      BY <3>1, <3>3, <3>4 DEF Placed
    <3> QED
      BY <2>1, <3>5 DEF Places
  <2>4. CASE Go(r)
    <3>1. /\ pc[r] = "got" /\ at[r] < Len(Head(todo[r]).paths)
          /\ UNCHANGED <<config, ask, todo, response>>
          /\ pc'[r] = "get" /\ path'[r] = Head(todo[r]).paths[2]
          /\ at'[r] = 2 /\ url'[r].transcode
      BY <2>4 DEF Go, Shape, TypeOK, CacheTypeOK, URL
    <3>2. at[r] \in {1, 2} /\ Len(Head(todo[r]).paths) \in {1, 2}
      BY <3>1, AskedPath
    <3>3. 2 \in 1..Len(Head(todo[r]).paths)
      BY <3>1, <3>2
    <3>4. Placed(r)
      BY DEF Places
    <3>5. Placed(r)'
      BY <3>1, <3>3, <3>4 DEF Placed
    <3> QED
      BY <2>1, <3>5 DEF Places
  <2>5. CASE Built(r)
    BY <2>1, <2>5, BuiltPlace DEF Places
  <2>6. CASE Answer(r)
    <3>1. /\ pc[r] = "build" /\ todo[r] = <<>> /\ pc'[r] = "answered"
          /\ UNCHANGED exportVars
      BY <2>6 DEF Answer, Shape, TypeOK
    <3>2. Placed(r)
      BY DEF Places
    <3>3. Placed(r)'
      BY <3>1, <3>2 DEF Placed, exportVars
    <3> QED
      BY <2>1, <3>3 DEF Places
  <2>7. CASE Leave(r)
    <3>1. pc'[r] = "idle" /\ response'[r] = <<>>
      BY <2>7 DEF Leave, Shape, TypeOK
    <3>2. Placed(r)'
      BY <3>1 DEF Placed
    <3> QED
      BY <2>1, <3>2 DEF Places
  <2> QED
    BY <1>1, <2>2, <2>3, <2>4, <2>5, <2>6, <2>7
<1>2. ASSUME NEW r \in Req, Probes(r) PROVE Places'
  <2>1. UNCHANGED exportVars /\ UNCHANGED path
    BY <1>2 DEF Probes, CacheStep, Get, Probe
  <2>2. \A q \in Req : pc'[q] = pc[q] \/ (pc[q] \in Asking /\ pc'[q] \in Asking)
    BY <1>2, ProbesKeep
  <2>3. ASSUME NEW q \in Req PROVE Placed(q)'
    <3>1. Placed(q)
      BY DEF Places
    <3> QED
      BY <2>1, <2>2, <3>1 DEF Placed, exportVars
  <2> QED
    BY <2>3 DEF Places
<1>3. ASSUME NEW p \in Path, Expires(p) PROVE Places'
  BY <1>3 DEF Expires, Expire, Places, Placed
<1>4. CASE Environment /\ UNCHANGED exportVars
  BY <1>4 DEF Environment, EdgeTurns, SeederCompletes, SeederDrops, Places, Placed, exportVars
<1>5. CASE UNCHANGED vars
  BY <1>5 DEF vars, cacheVars, exportVars, Places, Placed
<1> QED
  BY <1>1, <1>2, <1>3, <1>4, <1>5 DEF Next, Work

-----------------------------------------------------------------------------
(* What is made of a URL                                                   *)

\* The URL r is at, with the last answer about it.
Told(r) ==
  IF at[r] = 1 THEN [url[r] EXCEPT !.cached = got[r]]
               ELSE [url[r] EXCEPT !.transcodeCached = got[r]]

LEMMA ToldParts ==
  ASSUME Shape, Places, NEW r \in Req, pc[r] = "got"
  PROVE  /\ Told(r) \in URL
         /\ Told(r).cached = IF at[r] = 1 THEN got[r] ELSE url[r].cached
         /\ at[r] = 2 => Told(r).transcode
<1>1. url[r] \in URL /\ got[r] \in BOOLEAN
  BY DEF Shape, TypeOK, CacheTypeOK
<1>2. at[r] = 2 => url[r].transcode
  BY DEF Places, Placed, Asking
<1> QED
  BY <1>1, <1>2 DEF Told, URL

LEMMA FillParts ==
  ASSUME NEW resp, NEW b, NEW u, NEW host, NEW F, F = Fill(resp, b, u, host),
         \A t \in DOMAIN resp : resp[t] \in Entry
  PROVE  /\ DOMAIN resp \subseteq DOMAIN F
         /\ \A t \in DOMAIN F :
              \/ t \in DOMAIN resp /\ F[t].host = resp[t].host /\ F[t].meta = resp[t].meta
              \/ /\ t = b.type /\ b.part = "item" /\ F[t].host = host /\ F[t].meta = u
                 /\ t = "torrent_client_stat" => ~u.cached
         /\ /\ b.part = "item" /\ b.type = "torrent_client_stat" => ~u.cached
            /\ b.part = "item" /\ b.type = "media_probe" => u.transcode
            => (b.part = "item" => b.type \in DOMAIN F)
         /\ "stream" \in DOMAIN F =>
              \/ b.part = "tag" /\ ~Is(b.item, "image") /\ F["stream"].preload = u.cached
              \/ IsStream(b)
              \/ /\ ~(b.part = "tag" /\ ~Is(b.item, "image"))
                 /\ "stream" \in DOMAIN resp /\ F["stream"].preload = resp["stream"].preload
<1> DEFINE new == [host |-> host, meta |-> u, preload |-> FALSE]
<1>1. new.host = host /\ new.meta = u
  OBVIOUS
<1>2. CASE b.part = "tag" /\ ~Is(b.item, "image")
  <2>1. F = [resp EXCEPT !["stream"].preload = u.cached] /\ b.part # "item"
    BY <1>2 DEF Fill
  <2>2. /\ DOMAIN F = DOMAIN resp
        /\ \A t \in DOMAIN F : F[t].host = resp[t].host /\ F[t].meta = resp[t].meta
        /\ "stream" \in DOMAIN F => F["stream"].preload = u.cached
    BY <2>1 DEF Entry
  <2> QED
    BY <1>2, <2>1, <2>2
<1>3. CASE /\ ~(b.part = "tag" /\ ~Is(b.item, "image"))
           /\ b.part = "item"
           /\ b.type = "torrent_client_stat" => HasStats(u)
           /\ b.type = "media_probe" => HasProbe(u)
  <2>1. F = [t \in DOMAIN resp \cup {b.type} |-> IF t = b.type THEN new ELSE resp[t]]
    BY <1>3 DEF Fill
  <2> HIDE DEF new
  <2>2. /\ DOMAIN F = DOMAIN resp \cup {b.type} /\ F[b.type] = new
        /\ \A t \in DOMAIN F \ {b.type} : t \in DOMAIN resp /\ F[t] = resp[t]
    BY <2>1
  <2> QED
    BY <1>1, <1>3, <2>2 DEF HasStats, IsStream
<1>4. CASE /\ ~(b.part = "tag" /\ ~Is(b.item, "image"))
           /\ ~/\ b.part = "item"
               /\ b.type = "torrent_client_stat" => HasStats(u)
               /\ b.type = "media_probe" => HasProbe(u)
  <2>1. F = resp
    BY <1>4, Zenon DEF Fill
  <2> QED
    BY <1>4, <2>1 DEF HasStats, HasProbe
<1> QED
  BY <1>2, <1>3, <1>4

LEMMA BuiltStep ==
  ASSUME Shape, Places, NEW r \in Req, Built(r)
  PROVE  LET b == Head(todo[r])
         IN  /\ pc[r] = "got" /\ todo[r] # <<>> /\ at[r] = Len(b.paths)
             /\ UNCHANGED <<up, done, cache, fresh, config, ask, steady>>
             /\ \/ pc'[r] \in {"failed", "panicked"} /\ response'[r] = response[r]
                \/ /\ pc'[r] = "build" /\ todo'[r] = Tail(todo[r])
                   /\ response'[r] = Fill(response[r], b, Told(r), Host(config, ask[r], b.type))
<1> DEFINE b == Head(todo[r])
           F == Fill(response[r], b, Told(r), Host(config, ask[r], b.type))
<1>1. /\ pc[r] = "got" /\ at[r] = Len(b.paths)
      /\ UNCHANGED <<up, done, cache, fresh, config, ask, steady>>
  BY DEF Built
<1>2. todo[r] # <<>>
  BY <1>1, AskedPath DEF Asking
<1>3. \/ pc' = [pc EXCEPT ![r] = "failed"] /\ UNCHANGED response
      \/ pc' = [pc EXCEPT ![r] = "panicked"] /\ UNCHANGED response
      \/ /\ response' = [response EXCEPT ![r] = F]
         /\ pc'   = [pc EXCEPT ![r] = "build"]
         /\ todo' = [todo EXCEPT ![r] = Tail(@)]
  BY DEF Built, Fail, Told
<1> HIDE DEF F
<1>4. \/ pc'[r] \in {"failed", "panicked"} /\ response'[r] = response[r]
      \/ pc'[r] = "build" /\ todo'[r] = Tail(todo[r]) /\ response'[r] = F
  BY <1>3 DEF Shape, TypeOK
<1> QED
  BY <1>1, <1>2, <1>4 DEF F

-----------------------------------------------------------------------------
(* Nothing is left out                                                     *)

LEMMA BuiltCovered ==
  ASSUME Shape, Places, Covered, NEW r \in Req, Built(r)
  PROVE  CoveredFor(r)'
<1> DEFINE b == Head(todo[r])
           F == Fill(response[r], b, Told(r), Host(config, ask[r], b.type))
<1>1. /\ pc[r] = "got" /\ todo[r] # <<>> /\ at[r] = Len(b.paths)
      /\ UNCHANGED <<config, ask>>
      /\ \/ pc'[r] \in {"failed", "panicked"}
         \/ pc'[r] = "build" /\ todo'[r] = Tail(todo[r]) /\ response'[r] = F
  BY BuiltStep
<1>2. /\ IsBuild(ask[r].item, b) /\ b = todo[r][1]
      /\ Len(todo[r]) \in Nat /\ Len(todo[r]) >= 1
      /\ Len(Tail(todo[r])) = Len(todo[r]) - 1
      /\ \A k \in 1..(Len(todo[r]) - 1) : Tail(todo[r])[k] = todo[r][k + 1]
  BY <1>1, HeadParts DEF Busy, Asking
<1>3. \A t \in DOMAIN response[r] : response[r][t] \in Entry
  BY DEF Shape, TypeOK, Entry
<1>4. /\ DOMAIN response[r] \subseteq DOMAIN F
      /\ /\ b.part = "item" /\ b.type = "torrent_client_stat" => ~Told(r).cached
         /\ b.part = "item" /\ b.type = "media_probe" => Told(r).transcode
         => (b.part = "item" => b.type \in DOMAIN F)
  BY <1>3, FillParts
<1>5. CASE pc'[r] \in {"failed", "panicked"}
  BY <1>5 DEF CoveredFor, Busy, Asking
<1>6. CASE pc'[r] = "build" /\ todo'[r] = Tail(todo[r]) /\ response'[r] = F
  <2> SUFFICES ASSUME NEW t \in ToSet(Types(ask[r])),
                      ~Inapplicable(config, ask[r].item, t), t # "torrent_client_stat",
                      t = "media_probe" => shouldTranscode(ask[r].item)
               PROVE  t \in DOMAIN F \/ Left(r, t)'
    BY <1>1, <1>6 DEF CoveredFor
  <2>1. t \in DOMAIN response[r] \/ Left(r, t)
    BY <1>1 DEF Covered, CoveredFor, Busy, Asking
  <2>2. CASE t \in DOMAIN response[r]
    BY <1>4, <2>2
  <2>3. ASSUME NEW k \in 1..Len(todo[r]), todo[r][k].part = "item", todo[r][k].type = t
        PROVE  t \in DOMAIN F \/ Left(r, t)'
    <3>1. CASE k = 1
      <4>1. b.part = "item" /\ b.type = t
        BY <1>2, <2>3, <3>1
      <4>2. t = "media_probe" => Told(r).transcode
        <5>1. SUFFICES ASSUME t = "media_probe" PROVE at[r] = 2
          BY <1>1, ToldParts
        <5> QED
          BY <1>1, <1>2, <4>1, <5>1 DEF IsBuild
      <4> QED
        BY <1>4, <4>1, <4>2
    <3>2. CASE k # 1
      <4>1. k - 1 \in 1..Len(todo'[r]) /\ todo'[r][k - 1] = todo[r][k]
        <5>1. k - 1 \in 1..(Len(todo[r]) - 1) /\ (k - 1) + 1 = k
          BY <1>2, <3>2
        <5> QED
          BY <1>2, <1>6, <5>1
      <4> QED
        BY <2>3, <4>1 DEF Left
    <3> QED
      BY <3>1, <3>2
  <2> QED
    BY <2>1, <2>2, <2>3 DEF Left
<1> QED
  BY <1>1, <1>5, <1>6

LEMMA CoveredStep ==
  ASSUME Shape, Places, CallersAgree, Covered, [Next]_vars
  PROVE  Covered'
<1>1. ASSUME NEW r \in Req,
             Begin(r) \/ Start(r) \/ Go(r) \/ Built(r) \/ Answer(r) \/ Leave(r)
      PROVE  Covered'
  <2>1. ASSUME NEW q \in Req \ {r} PROVE CoveredFor(q)'
    BY <1>1, OwnSteps, Others DEF Covered
  <2>2. CASE Begin(r)
    <3>1. PICK a \in Ask : /\ ask' = [ask EXCEPT ![r] = a]
                           /\ \/ Fail(r, "types") /\ UNCHANGED todo
                              \/ /\ "unknown" \notin ToSet(a.types)
                                 /\ todo' = [todo EXCEPT ![r] = Program(config, a)]
                                 /\ pc'   = [pc EXCEPT ![r] = "build"]
      BY <2>2 DEF Begin
    <3>2. UNCHANGED config /\ config \in Config /\ ask'[r] = a
      BY <2>2, <3>1 DEF Begin, Shape, TypeOK
    <3>3. CASE pc'[r] = "failed"
      BY <2>1, <3>3 DEF Covered, CoveredFor, Busy, Asking
    <3>4. CASE "unknown" \notin ToSet(a.types) /\ todo'[r] = Program(config, a) /\ pc'[r] = "build"
      <4>1. \A t \in ToSet(Types(a)) :
              \/ Inapplicable(config, a.item, t)
              \/ \E k \in 1..Len(Program(config, a)) :
                   Program(config, a)[k].part = "item" /\ Program(config, a)[k].type = t
        BY <3>2, <3>4, ProgramParts
      <4>2. CoveredFor(r)'
        BY <3>2, <3>4, <4>1 DEF CoveredFor, Left
      <4> QED
        BY <2>1, <4>2 DEF Covered
    <3> QED
      BY <3>1, <3>3, <3>4 DEF Fail, Shape, TypeOK
  <2>3. CASE Start(r) \/ Go(r) \/ Answer(r)
    <3>1. UNCHANGED <<config, ask, todo, response>> /\ pc[r] \in Busy
      BY <2>3 DEF Start, Go, Answer, exportVars, Busy, Asking
    <3>2. CoveredFor(r)'
      BY <3>1 DEF Covered, CoveredFor, Left
    <3> QED
      BY <2>1, <3>2 DEF Covered
  <2>4. CASE Built(r)
    BY <2>1, <2>4, BuiltCovered DEF Covered
  <2>5. CASE Leave(r)
    <3>1. pc'[r] = "idle"
      BY <2>5 DEF Leave, Shape, TypeOK
    <3> QED
      BY <2>1, <3>1 DEF Covered, CoveredFor, Busy, Asking
  <2> QED
    BY <1>1, <2>2, <2>3, <2>4, <2>5
<1>2. ASSUME NEW r \in Req, Probes(r) PROVE Covered'
  <2>1. /\ UNCHANGED exportVars
        /\ \A q \in Req : pc'[q] = pc[q] \/ (pc[q] \in Asking /\ pc'[q] \in Asking)
    BY <1>2, ProbesKeep
  <2> QED
    BY <2>1 DEF Covered, CoveredFor, Left, exportVars, Busy
<1>3. ASSUME NEW p \in Path, Expires(p) PROVE Covered'
  BY <1>3 DEF Expires, Expire, Covered, CoveredFor, Left
<1>4. CASE Environment /\ UNCHANGED exportVars
  BY <1>4 DEF Environment, EdgeTurns, SeederCompletes, SeederDrops, Covered, CoveredFor, Left,
    exportVars
<1>5. CASE UNCHANGED vars
  BY <1>5 DEF vars, cacheVars, exportVars, Covered, CoveredFor, Left
<1> QED
  BY <1>1, <1>2, <1>3, <1>4, <1>5 DEF Next, Work

-----------------------------------------------------------------------------
(* Hosts                                                                   *)

LEMMA HostedStep ==
  ASSUME Shape, Places, CallersAgree, Hosted, [Next]_vars
  PROVE  Hosted'
<1>1. ASSUME NEW r \in Req,
             Begin(r) \/ Start(r) \/ Go(r) \/ Built(r) \/ Answer(r) \/ Leave(r)
      PROVE  Hosted'
  <2>1. ASSUME NEW q \in Req \ {r} PROVE HostedFor(q)'
    BY <1>1, OwnSteps, Others DEF Hosted
  <2>2. CASE Begin(r)
    <3>1. pc[r] = "idle" /\ UNCHANGED response /\ pc'[r] \in {"failed", "build"}
      BY <2>2 DEF Begin, Fail, Shape, TypeOK
    <3>2. response'[r] = <<>>
      BY <3>1 DEF Places, Placed
    <3>3. DOMAIN <<>> = {}
      OBVIOUS
    <3>4. HostedFor(r)'
      BY <3>1, <3>2, <3>3 DEF HostedFor, Asking
    <3> QED
      BY <2>1, <3>4 DEF Hosted
  <2>3. CASE Start(r)
    <3>1. /\ UNCHANGED <<config, ask, todo, response>>
          /\ pc'[r] \in Asking => Allowed(r, Head(todo[r]).type)
      BY <2>3 DEF Start, Fail, Shape, TypeOK, Asking, Allowed
    <3>2. HostedFor(r)'
      BY <3>1 DEF Hosted, HostedFor, Allowed
    <3> QED
      BY <2>1, <3>2 DEF Hosted
  <2>4. CASE Go(r) \/ Answer(r)
    <3>1. /\ UNCHANGED <<config, ask, todo, response>>
          /\ pc'[r] \in Asking => pc[r] \in Asking
      BY <2>4 DEF Go, Answer, exportVars, Shape, TypeOK, Asking
    <3>2. HostedFor(r)'
      BY <3>1 DEF Hosted, HostedFor, Allowed
    <3> QED
      BY <2>1, <3>2 DEF Hosted
  <2>5. CASE Built(r)
    <3> DEFINE b    == Head(todo[r])
               host == Host(config, ask[r], b.type)
               F    == Fill(response[r], b, Told(r), host)
    <3>1. /\ pc[r] = "got" /\ UNCHANGED <<config, ask>>
          /\ \/ pc'[r] \in {"failed", "panicked"} /\ response'[r] = response[r]
             \/ pc'[r] = "build" /\ response'[r] = F
      BY <2>5, BuiltStep
    <3>2. \A t \in DOMAIN F :
            \/ t \in DOMAIN response[r] /\ F[t].host = response[r][t].host
            \/ t = b.type /\ F[t].host = host
      <4>1. \A t \in DOMAIN response[r] : response[r][t] \in Entry
        BY DEF Shape, TypeOK, Entry
      <4> QED
        BY <4>1, FillParts
    <3>3. HostedFor(r) /\ Allowed(r, b.type)
      BY <3>1 DEF Hosted, HostedFor, Asking
    <3> HIDE DEF F
    <3>4. HostedFor(r)'
      BY <3>1, <3>2, <3>3 DEF HostedFor, Allowed, Asking
    <3> QED
      BY <2>1, <3>4 DEF Hosted
  <2>6. CASE Leave(r)
    <3>1. pc'[r] = "idle" /\ response'[r] = <<>>
      BY <2>6 DEF Leave, Shape, TypeOK
    <3>2. DOMAIN <<>> = {}
      OBVIOUS
    <3> QED
      BY <2>1, <3>1, <3>2 DEF Hosted, HostedFor, Asking
  <2> QED
    BY <1>1, <2>2, <2>3, <2>4, <2>5, <2>6
<1>2. ASSUME NEW r \in Req, Probes(r) PROVE Hosted'
  <2>1. /\ UNCHANGED exportVars
        /\ \A q \in Req : pc'[q] = pc[q] \/ (pc[q] \in Asking /\ pc'[q] \in Asking)
    BY <1>2, ProbesKeep
  <2> QED
    BY <2>1 DEF Hosted, HostedFor, Allowed, exportVars
<1>3. ASSUME NEW p \in Path, Expires(p) PROVE Hosted'
  BY <1>3 DEF Expires, Expire, Hosted, HostedFor, Allowed
<1>4. CASE Environment /\ UNCHANGED exportVars
  BY <1>4 DEF Environment, EdgeTurns, SeederCompletes, SeederDrops, Hosted, HostedFor, Allowed,
    exportVars
<1>5. CASE UNCHANGED vars
  BY <1>5 DEF vars, cacheVars, exportVars, Hosted, HostedFor, Allowed
<1> QED
  BY <1>1, <1>2, <1>3, <1>4, <1>5 DEF Next, Work

-----------------------------------------------------------------------------
(* What is kept                                                            *)

LEMMA FreshStep ==
  ASSUME Shape, Places, CallersAgree, Fresh, [Next]_vars
  PROVE  Fresh'
<1>1. NotKept \notin BOOLEAN /\ cache.memo \in [Path -> BOOLEAN \cup {NotKept}]
  BY CacheMapAssumptions DEF Shape, TypeOK, CacheTypeOK
<1>2. ASSUME NEW r \in Req,
             Begin(r) \/ Start(r) \/ Go(r) \/ Built(r) \/ Answer(r) \/ Leave(r)
      PROVE  Fresh'
  <2>1. UNCHANGED <<done, cache, fresh>>
    BY <1>2, OwnSteps
  <2> QED
    BY <2>1 DEF Fresh, PositiveIsFresh
<1>3. ASSUME NEW r \in Req, Probes(r) PROVE Fresh'
  <2>1. CASE Get(r)
    <3>1. cache'.memo = cache.memo /\ UNCHANGED <<done, fresh>>
      BY <2>1, GetStep
    <3> QED
      BY <3>1 DEF Fresh, PositiveIsFresh
  <2>2. CASE Probed(r)
    <3> PICK reached \in BOOLEAN : Probe(r, reached)
      BY <2>2 DEF Probed
    <3>1. /\ cache'.memo = [cache.memo EXCEPT ![path[r]] = up /\ reached /\ path[r] \in done]
          /\ UNCHANGED <<done, fresh>>
      BY <2>2, ProbeStep
    <3> DEFINE v == up /\ reached /\ path[r] \in done
    <3>2. v = TRUE => path[r] \in fresh
      BY DEF Fresh
    <3> HIDE DEF v
    <3>3. cache'.memo = [cache.memo EXCEPT ![path[r]] = v]
      BY <3>1 DEF v
    <3>4. ASSUME NEW p \in Path, cache'.memo[p] = TRUE PROVE p \in fresh
      <4>1. CASE p = path[r]
        BY <1>1, <3>2, <3>3, <3>4, <4>1
      <4>2. CASE p # path[r]
        BY <1>1, <3>3, <3>4, <4>2 DEF Fresh, PositiveIsFresh
      <4> QED
        BY <4>1, <4>2
    <3> QED
      BY <3>1, <3>4 DEF Fresh, PositiveIsFresh
  <2> QED
    BY <1>3, <2>1, <2>2, ProbesEither
<1>4. ASSUME NEW p \in Path, Expires(p) PROVE Fresh'
  <2>1. cache'.memo = [cache.memo EXCEPT ![p] = NotKept]
    BY <1>4, ExpiresShape
  <2>2. UNCHANGED done /\ fresh' = IF p \in done THEN fresh \cup {p} ELSE fresh \ {p}
    BY <1>4 DEF Expires, Expire
  <2>3. ASSUME NEW q \in Path, cache'.memo[q] = TRUE PROVE q # p /\ cache.memo[q] = TRUE
    BY <1>1, <2>1, <2>3
  <2> QED
    BY <2>2, <2>3 DEF Fresh, PositiveIsFresh
<1>5. CASE Environment /\ UNCHANGED exportVars
  <2>1. UNCHANGED cache
    BY <1>5 DEF Environment, EdgeTurns, SeederCompletes, SeederDrops
  <2>2. CASE EdgeTurns
    BY <2>1, <2>2 DEF EdgeTurns, Fresh, PositiveIsFresh
  <2>3. CASE \E p \in Path : SeederCompletes(p)
    BY <2>1, <2>3 DEF SeederCompletes, Fresh, PositiveIsFresh
  <2>4. ASSUME NEW p \in Path, SeederDrops(p) PROVE Fresh'
    <3>1. done' = done \ {p} /\ fresh' = IF Kept(cache, p) THEN fresh ELSE fresh \ {p}
      BY <2>4 DEF SeederDrops
    <3>2. cache.memo[p] = TRUE => Kept(cache, p)
      BY <1>1 DEF Kept
    <3> QED
      BY <2>1, <3>1, <3>2 DEF Fresh, PositiveIsFresh
  <2> QED
    BY <1>5, <2>2, <2>3, <2>4 DEF Environment
<1>6. CASE UNCHANGED vars
  BY <1>6 DEF vars, cacheVars, Fresh, PositiveIsFresh
<1> QED
  BY <1>2, <1>3, <1>4, <1>5, <1>6 DEF Next, Work

-----------------------------------------------------------------------------
(* One story                                                               *)

LEMMA ItemPath ==
  ASSUME Shape, Places, NEW r \in Req, pc[r] \in Busy
  PROVE  BasePath(ask[r].item) \in Path /\ ask[r] # NoAsk
<1>1. config \in Config /\ ask[r] \in Ask
  BY DEF Shape, TypeOK, Places, Placed
<1>2. NoAsk \notin Ask
  BY ExportAssumptions, Zenon
<1> QED
  BY <1>1, <1>2, PathAssumption

\* The URL of the item or of its tag, once there, says what is kept.
LEMMA ToldIsKnown ==
  ASSUME Shape, Places, OneStory, NEW r \in Req, pc[r] = "got", steady[r],
         Head(todo[r]).part # "attached"
  PROVE  Told(r).cached = Known(r)
<1> DEFINE b == Head(todo[r])
<1>1. pc[r] \in Busy /\ pc[r] \in Asking
  BY DEF Busy, Asking
<1>2. todo[r] # <<>> /\ at[r] \in {1, 2} /\ path[r] = b.paths[at[r]]
  BY <1>1, AskedPath DEF Places, Placed
<1>3. b.paths[1] = BasePath(ask[r].item)
  BY <1>1, <1>2, HeadParts DEF IsBuild
<1>4. /\ path[r] = BasePath(ask[r].item) => got[r] = Known(r)
      /\ at[r] = 2 => url[r].cached = Known(r)
  BY <1>1 DEF OneStory, OneStoryFor
<1> QED
  BY <1>2, <1>3, <1>4, ToldParts

LEMMA BuiltStory ==
  ASSUME Shape, Places, OneStory, NEW r \in Req, Built(r)
  PROVE  OneStoryFor(r)'
<1> DEFINE b == Head(todo[r])
           F == Fill(response[r], b, Told(r), Host(config, ask[r], b.type))
           i == ask[r].item
<1>1. /\ pc[r] = "got" /\ todo[r] # <<>>
      /\ UNCHANGED <<cache, config, ask, steady>>
      /\ \/ pc'[r] \in {"failed", "panicked"}
         \/ pc'[r] = "build" /\ todo'[r] = Tail(todo[r]) /\ response'[r] = F
  BY BuiltStep
<1>2. /\ IsBuild(i, b) /\ b = todo[r][1]
      /\ Len(todo[r]) \in Nat /\ Len(todo[r]) >= 1
      /\ Len(Tail(todo[r])) = Len(todo[r]) - 1
      /\ \A k \in 1..(Len(todo[r]) - 1) : Tail(todo[r])[k] = todo[r][k + 1]
  BY <1>1, HeadParts DEF Busy, Asking
<1>3. \A t \in DOMAIN response[r] : response[r][t] \in Entry
  BY DEF Shape, TypeOK, Entry
<1>4. CASE pc'[r] \in {"failed", "panicked"} \/ ~steady[r]
  BY <1>1, <1>4 DEF OneStoryFor, Busy, Asking
<1>5. CASE pc'[r] = "build" /\ todo'[r] = Tail(todo[r]) /\ response'[r] = F /\ steady[r]
  <2>1. UNCHANGED Known(r)
    BY <1>1 DEF Known
  <2>2. /\ \A t \in DOMAIN response[r] : response[r][t].meta.cached = Known(r)
        /\ "torrent_client_stat" \in DOMAIN response[r]
             => ~response[r]["torrent_client_stat"].meta.cached
        /\ "torrent_client_stat" \in ToSet(Types(ask[r])) =>
             \/ Left(r, "torrent_client_stat")
             \/ "torrent_client_stat" \in DOMAIN response[r]
             \/ Known(r) = TRUE
        /\ "stream" \in DOMAIN response[r] /\ Playable(i) =>
             response[r]["stream"].preload = Known(r) \/ TagLeft(r)
    BY <1>1, <1>5 DEF OneStory, OneStoryFor, Busy, Asking
  <2>3. b.part # "attached" => Told(r).cached = Known(r)
    BY <1>1, <1>5, ToldIsKnown
  <2>4. Told(r).cached \in BOOLEAN
    BY <1>1, ToldParts DEF URL
  <2>5. /\ DOMAIN response[r] \subseteq DOMAIN F
        /\ \A t \in DOMAIN F :
             \/ t \in DOMAIN response[r] /\ F[t].meta = response[r][t].meta
             \/ /\ t = b.type /\ b.part = "item" /\ F[t].meta = Told(r)
                /\ t = "torrent_client_stat" => ~Told(r).cached
        /\ b.part = "item" /\ b.type = "torrent_client_stat" /\ ~Told(r).cached
             => b.type \in DOMAIN F
        /\ "stream" \in DOMAIN F =>
             \/ b.part = "tag" /\ ~Is(b.item, "image") /\ F["stream"].preload = Told(r).cached
             \/ IsStream(b)
             \/ /\ ~(b.part = "tag" /\ ~Is(b.item, "image"))
                /\ "stream" \in DOMAIN response[r]
                /\ F["stream"].preload = response[r]["stream"].preload
    BY <1>3, FillParts
  <2> HIDE DEF F
  <2>6. \A t \in DOMAIN F : F[t].meta.cached = Known(r)
    BY <2>2, <2>3, <2>5
  <2>7. "torrent_client_stat" \in DOMAIN F => ~F["torrent_client_stat"].meta.cached
    BY <2>2, <2>5
  <2>8. ASSUME NEW k \in 1..Len(todo[r]), k # 1
        PROVE  k - 1 \in 1..Len(todo'[r]) /\ todo'[r][k - 1] = todo[r][k]
    <3>1. k - 1 \in 1..(Len(todo[r]) - 1) /\ (k - 1) + 1 = k
      BY <1>2, <2>8
    <3> QED
      BY <1>2, <1>5, <3>1
  <2>9. ASSUME "torrent_client_stat" \in ToSet(Types(ask[r]))
        PROVE  \/ Left(r, "torrent_client_stat")'
               \/ "torrent_client_stat" \in DOMAIN F
               \/ Known(r) = TRUE
    <3>1. ASSUME NEW k \in 1..Len(todo[r]), todo[r][k].part = "item",
                 todo[r][k].type = "torrent_client_stat"
          PROVE  \/ Left(r, "torrent_client_stat")'
                 \/ "torrent_client_stat" \in DOMAIN F
                 \/ Known(r) = TRUE
      <4>1. CASE k = 1
        <5>1. b.part = "item" /\ b.type = "torrent_client_stat"
          BY <1>2, <3>1, <4>1
        <5>2. CASE Told(r).cached
          BY <2>3, <2>4, <5>1, <5>2
        <5>3. CASE ~Told(r).cached
          BY <2>5, <5>1, <5>3
        <5> QED
          BY <5>2, <5>3
      <4>2. CASE k # 1
        BY <2>8, <3>1, <4>2 DEF Left
      <4> QED
        BY <4>1, <4>2
    <3> QED
      BY <2>2, <2>5, <2>9, <3>1 DEF Left
  <2>10. ASSUME "stream" \in DOMAIN F, Playable(i)
         PROVE  F["stream"].preload = Known(r) \/ TagLeft(r)'
    <3>1. ASSUME NEW k \in 1..Len(todo[r]), k # 1, todo[r][k].part = "tag"
          PROVE  TagLeft(r)'
      BY <2>8, <3>1 DEF TagLeft
    <3>2. CASE b.part = "tag" /\ F["stream"].preload = Told(r).cached
      BY <2>3, <3>2
    <3>3. CASE IsStream(b)
      <4>1. TagsFollow(ask[r], todo[r]) /\ 1 \in 1..Len(todo[r])
        BY <1>1, <1>2 DEF Places, Placed, Busy, Asking
      <4>2. PICK l \in 2..Len(todo[r]) : todo[r][l].part = "tag"
        <5>1. 1 + 1 = 2
          OBVIOUS
        <5> QED
          BY <1>2, <2>10, <3>3, <4>1, <5>1 DEF TagsFollow
      <4>3. l \in 1..Len(todo[r]) /\ l # 1
        BY <1>2
      <4> QED
        BY <3>1, <4>2, <4>3
    <3>4. CASE /\ ~(b.part = "tag" /\ ~Is(b.item, "image"))
               /\ "stream" \in DOMAIN response[r]
               /\ F["stream"].preload = response[r]["stream"].preload
      <4>1. b.part # "tag"
        <5>1. b.part = "tag" => b.item = i
          BY <1>2 DEF IsBuild
        <5>2. ~Is(i, "image")
          BY <2>10, Formats
        <5> QED
          BY <3>4, <5>1, <5>2
      <4>2. ASSUME NEW k \in 1..Len(todo[r]), todo[r][k].part = "tag" PROVE TagLeft(r)'
        <5>1. k # 1
          BY <1>2, <4>1, <4>2
        <5> QED
          BY <3>1, <4>2, <5>1
      <4> QED
        BY <2>2, <2>10, <3>4, <4>2 DEF TagLeft
    <3> QED
      BY <2>5, <2>10, <3>2, <3>3, <3>4
  <2> QED
    BY <1>1, <1>5, <2>1, <2>6, <2>7, <2>9, <2>10 DEF OneStoryFor, Asking
<1> QED
  BY <1>1, <1>4, <1>5

LEMMA BeginStory ==
  ASSUME Shape, Places, NEW r \in Req, Begin(r)
  PROVE  OneStoryFor(r)'
<1>1. PICK a \in Ask : /\ ask' = [ask EXCEPT ![r] = a]
                       /\ \/ Fail(r, "types") /\ UNCHANGED todo
                          \/ /\ "unknown" \notin ToSet(a.types)
                             /\ todo' = [todo EXCEPT ![r] = Program(config, a)]
                             /\ pc'   = [pc EXCEPT ![r] = "build"]
  BY DEF Begin
<1>2. /\ UNCHANGED <<config, response>> /\ config \in Config /\ ask'[r] = a /\ pc[r] = "idle"
  BY <1>1 DEF Begin, Shape, TypeOK
<1>3. CASE pc'[r] = "failed"
  BY <1>3 DEF OneStoryFor, Busy, Asking
<1>4. CASE "unknown" \notin ToSet(a.types) /\ todo'[r] = Program(config, a) /\ pc'[r] = "build"
  <2>1. response'[r] = <<>> /\ DOMAIN <<>> = {}
    BY <1>2 DEF Places, Placed
  <2>2. "torrent_client_stat" \in ToSet(Types(a)) => Left(r, "torrent_client_stat")'
    <3>1. ~Inapplicable(config, a.item, "torrent_client_stat")
      BY DEF Inapplicable
    <3> QED
      BY <1>2, <1>4, <3>1, ProgramParts DEF Left
  <2> QED
    BY <1>2, <1>4, <2>1, <2>2 DEF OneStoryFor, Asking
<1> QED
  BY <1>1, <1>3, <1>4 DEF Fail, Shape, TypeOK

LEMMA ProbeStory ==
  ASSUME Shape, Places, CallersAgree, OneStory, NEW r \in Req, NEW reached \in BOOLEAN, Probe(r, reached), UNCHANGED exportVars,
         NEW q \in Req
  PROVE  OneStoryFor(q)'
<1> DEFINE p == path[r]
           v == up /\ reached /\ p \in done
<1>1. /\ p \in Path /\ pc[r] = "probe" /\ ~Kept(cache, p) /\ path' = path
      /\ cache'.memo = [cache.memo EXCEPT ![p] = v]
  BY ProbeStep
<1>2. PICK rs \in SUBSET Req :
        /\ \A s \in Req : s \in rs <=> pc[s] \in {"probe", "waiting"} /\ path[s] = p
        /\ pc' = [s \in Req |-> IF s \in rs THEN "got" ELSE pc[s]]
        /\ got' = [s \in Req |-> IF s \in rs THEN v ELSE got[s]]
  BY ProbeStep
<1>3. /\ cache.memo \in [Path -> BOOLEAN \cup {NotKept}]
      /\ got[q] \in BOOLEAN /\ url[q] \in URL /\ NotKept \notin BOOLEAN
      /\ \A t \in DOMAIN response[q] : response[q][t] \in Entry
  BY CacheMapAssumptions DEF Shape, TypeOK, CacheTypeOK, Entry
<1> HIDE DEF p, v
<1>4. pc'[q] \in Busy => pc[q] \in Busy
  BY <1>2 DEF Busy, Asking
<1> SUFFICES ASSUME pc[q] \in Busy, pc'[q] \in Busy, steady[q]
             PROVE  OneStoryFor(q)'
  BY <1>4 DEF OneStoryFor, exportVars
<1> DEFINE k == BasePath(ask[q].item)
<1>5. k \in Path
  BY ItemPath
<1> HIDE DEF k
<1>6. Known(q) = cache.memo[k] /\ Known(q)' = cache'.memo[k]
  BY DEF Known, k, exportVars
<1>7. /\ \A t \in DOMAIN response[q] : response[q][t].meta.cached = Known(q)
      /\ "torrent_client_stat" \in DOMAIN response[q]
           => ~response[q]["torrent_client_stat"].meta.cached
      /\ pc[q] = "got" /\ path[q] = k => got[q] = Known(q)
      /\ pc[q] \in Asking /\ at[q] = 2 /\ Head(todo[q]).part # "attached"
           => url[q].cached = Known(q)
      /\ "torrent_client_stat" \in ToSet(Types(ask[q])) =>
           \/ Left(q, "torrent_client_stat")
           \/ "torrent_client_stat" \in DOMAIN response[q]
           \/ Known(q) = TRUE
      /\ "stream" \in DOMAIN response[q] /\ Playable(ask[q].item) =>
           response[q]["stream"].preload = Known(q) \/ TagLeft(q)
  BY DEF OneStory, OneStoryFor, k
<1>8. pc'[q] \in Asking <=> pc[q] \in Asking
  BY <1>2 DEF Asking
<1>9. pc'[q] = "got" /\ path[q] = k => got'[q] = Known(q)'
  <2>1. CASE q \in rs
    BY <1>1, <1>2, <1>3, <1>6, <2>1
  <2>2. CASE q \notin rs /\ k = p
    BY <1>1, <1>2, <1>3, <1>6, <1>7, <2>2 DEF Kept
  <2>3. CASE q \notin rs /\ k # p
    BY <1>1, <1>2, <1>3, <1>6, <1>7, <2>3
  <2> QED
    BY <2>1, <2>2, <2>3
<1>10. CASE k # p
  <2>1. Known(q)' = Known(q)
    BY <1>1, <1>3, <1>6, <1>10
  <2> QED
    BY <1>1, <1>7, <1>8, <1>9, <2>1 DEF OneStoryFor, Left, TagLeft, exportVars, k
<1>11. CASE k = p
  <2>1. Known(q) = NotKept
    BY <1>1, <1>5, <1>6, <1>11 DEF Kept
  <2>2. DOMAIN response[q] = {}
    BY <1>3, <1>7, <2>1 DEF Entry, URL
  <2>3. url[q].cached # Known(q)
    BY <1>3, <2>1 DEF URL
  <2>4. Known(q) # TRUE
    BY <1>3, <2>1
  <2> QED
    BY <1>1, <1>7, <1>8, <1>9, <2>2, <2>3, <2>4
    DEF OneStoryFor, Left, TagLeft, exportVars, k
<1> QED
  BY <1>10, <1>11

LEMMA StoryStep ==
  ASSUME Shape, Places, CallersAgree, OneStory, [Next]_vars
  PROVE  OneStory'
<1>1. ASSUME NEW r \in Req,
             Begin(r) \/ Start(r) \/ Go(r) \/ Built(r) \/ Answer(r) \/ Leave(r)
      PROVE  OneStory'
  <2>1. ASSUME NEW q \in Req \ {r} PROVE OneStoryFor(q)'
    BY <1>1, OwnSteps, Others DEF OneStory
  <2>2. CASE Begin(r)
    BY <2>1, <2>2, BeginStory DEF OneStory
  <2>3. CASE Start(r)
    <3>1. /\ pc[r] = "build" /\ UNCHANGED <<cache, config, ask, todo, response, steady>>
          /\ pc'[r] \in Busy => pc'[r] = "get" /\ at'[r] = 1
      BY <2>3 DEF Start, Fail, Shape, TypeOK, Busy, Asking
    <3>2. OneStoryFor(r)
      BY DEF OneStory
    <3>3. OneStoryFor(r)'
      BY <3>1, <3>2 DEF OneStoryFor, Left, TagLeft, Known, Busy
    <3> QED
      BY <2>1, <3>3 DEF OneStory
  <2>4. CASE Go(r)
    <3>1. /\ pc[r] = "got" /\ UNCHANGED <<cache, config, ask, todo, response, steady>>
          /\ pc'[r] = "get" /\ at[r] < Len(Head(todo[r]).paths)
      BY <2>4 DEF Go, Shape, TypeOK
    <3>2. url'[r].cached = Told(r).cached
      <4>1. url'[r].cached = got[r]
        <5>1. url[r] \in URL
          BY DEF Shape, TypeOK
        <5>2. url' = [url EXCEPT ![r] = [[@ EXCEPT !.cached = got[r]] EXCEPT !.transcode = TRUE]]
          BY <2>4 DEF Go
        <5>3. url'[r] = [[url[r] EXCEPT !.cached = got[r]] EXCEPT !.transcode = TRUE]
          BY <5>2 DEF Shape, TypeOK
        <5> QED
          BY <5>1, <5>3 DEF URL
      <4>2. at[r] = 1
        <5>1. at[r] \in {1, 2} /\ Len(Head(todo[r]).paths) \in {1, 2}
          BY <3>1, AskedPath DEF Asking
        <5> DEFINE n == Len(Head(todo[r]).paths)
        <5>2. at[r] < n /\ n \in {1, 2}
          BY <3>1, <5>1
        <5> HIDE DEF n
        <5> QED
          BY <5>1, <5>2
      <4> QED
        BY <3>1, <4>1, <4>2, ToldParts
    <3>3. OneStoryFor(r) /\ (steady[r] /\ Head(todo[r]).part # "attached" => url'[r].cached = Known(r))
      BY <3>1, <3>2, ToldIsKnown DEF OneStory
    <3>4. OneStoryFor(r)'
      BY <3>1, <3>3 DEF OneStoryFor, Left, TagLeft, Known, Busy, Asking
    <3> QED
      BY <2>1, <3>4 DEF OneStory
  <2>5. CASE Built(r)
    BY <2>1, <2>5, BuiltStory DEF OneStory
  <2>6. CASE Answer(r)
    <3>1. pc[r] = "build" /\ pc'[r] = "answered" /\ UNCHANGED <<cache, exportVars>>
      BY <2>6 DEF Answer, Shape, TypeOK
    <3>2. OneStoryFor(r)
      BY DEF OneStory
    <3>3. OneStoryFor(r)'
      BY <3>1, <3>2 DEF OneStoryFor, Left, TagLeft, Known, exportVars, Busy, Asking
    <3> QED
      BY <2>1, <3>3 DEF OneStory
  <2>7. CASE Leave(r)
    <3>1. pc'[r] = "idle"
      BY <2>7 DEF Leave, Shape, TypeOK
    <3> QED
      BY <2>1, <3>1 DEF OneStory, OneStoryFor, Busy, Asking
  <2> QED
    BY <1>1, <2>2, <2>3, <2>4, <2>5, <2>6, <2>7
<1>2. ASSUME NEW r \in Req, Probes(r) PROVE OneStory'
  <2>1. UNCHANGED exportVars
    BY <1>2 DEF Probes
  <2>2. CASE Probed(r)
    BY <2>1, <2>2, ProbeStory DEF OneStory, Probed
  <2>3. CASE Get(r)
    <3>1. /\ cache'.memo = cache.memo /\ path' = path /\ pc[r] = "get"
          /\ \A q \in Req \ {r} : got'[q] = got[q] /\ pc'[q] = pc[q]
          /\ pc'[r] \in Asking /\ (pc'[r] = "got" => got'[r] = cache.memo[path[r]])
      <4>1. /\ cache'.memo = cache.memo /\ path' = path /\ pc[r] = "get"
            /\ \A q \in Req \ {r} : got'[q] = got[q]
        BY <2>3, GetStep
      <4>2. \/ pc' = [pc EXCEPT ![r] = "got"] /\ got'[r] = cache.memo[path[r]]
            \/ pc' = [pc EXCEPT ![r] = "waiting"]
            \/ pc' = [pc EXCEPT ![r] = "probe"]
        BY <2>3, GetStep
      <4> QED
        BY <4>1, <4>2 DEF Shape, TypeOK, Asking
    <3>2. ASSUME NEW q \in Req \ {r} PROVE OneStoryFor(q)'
      <4>1. OneStoryFor(q)
        BY DEF OneStory
      <4> QED
        BY <2>1, <3>1, <4>1 DEF OneStoryFor, Left, TagLeft, Known, exportVars
    <3>3. OneStoryFor(r)'
      <4>1. OneStoryFor(r)
        BY DEF OneStory
      <4> QED
        BY <2>1, <3>1, <4>1 DEF OneStoryFor, Left, TagLeft, Known, exportVars, Busy, Asking
    <3> QED
      BY <3>2, <3>3 DEF OneStory
  <2> QED
    BY <1>2, <2>2, <2>3, ProbesEither
<1>3. ASSUME NEW p \in Path, Expires(p), NEW q \in Req PROVE OneStoryFor(q)'
  <2>1. /\ cache'.memo = [cache.memo EXCEPT ![p] = NotKept]
        /\ cache.memo \in [Path -> BOOLEAN \cup {NotKept}]
    BY <1>3, ExpiresShape DEF Shape, TypeOK, CacheTypeOK
  <2>2. /\ UNCHANGED <<pc, path, got, config, ask, todo, at, url, response>>
        /\ steady' = [r \in Req |-> steady[r] /\ ~(ask[r] # NoAsk /\ ask[r].item = p[1])]
    BY <1>3 DEF Expires, Expire
  <2> SUFFICES ASSUME pc[q] \in Busy, steady[q], steady'[q] PROVE OneStoryFor(q)'
    <3>1. steady'[q] => steady[q]
      BY <2>2
    <3> QED
      BY <2>2, <3>1 DEF OneStoryFor
  <2>3. BasePath(ask[q].item) # p
    <3>1. ask[q] # NoAsk
      BY ItemPath
    <3>2. ask[q].item # p[1]
      BY <2>2, <3>1
    <3>3. BasePath(ask[q].item)[1] = ask[q].item
      BY DEF BasePath
    <3> QED
      BY <3>2, <3>3
  <2>4. Known(q)' = Known(q)
    <3>1. BasePath(ask[q].item) \in Path
      BY ItemPath
    <3> QED
      BY <2>1, <2>2, <2>3, <3>1 DEF Known
  <2>5. OneStoryFor(q)
    BY DEF OneStory
  <2> QED
    BY <2>2, <2>4, <2>5 DEF OneStoryFor, Left, TagLeft
<1>4. CASE Environment /\ UNCHANGED exportVars
  <2>1. UNCHANGED <<cache, pc, path, got, exportVars>>
    BY <1>4 DEF Environment, EdgeTurns, SeederCompletes, SeederDrops
  <2> QED
    BY <2>1 DEF OneStory, OneStoryFor, Left, TagLeft, Known, exportVars
<1>5. CASE UNCHANGED vars
  BY <1>5 DEF vars, cacheVars, exportVars, OneStory, OneStoryFor, Left, TagLeft, Known
<1> QED
  BY <1>1, <1>2, <1>3, <1>4, <1>5 DEF Next, Work, OneStory

-----------------------------------------------------------------------------

LEMMA InvInit == Init => Inv
<1> SUFFICES ASSUME Init PROVE Inv
  OBVIOUS
<1>1. DOMAIN <<>> = {}
  OBVIOUS
<1>2. /\ cache = New /\ done = {} /\ fresh = {} /\ up \in BOOLEAN
      /\ pc   = [r \in Req |-> "idle"]
      /\ path = [r \in Req |-> NoPath]
      /\ got  = [r \in Req |-> FALSE]
      /\ config \in Config
      /\ ask      = [r \in Req |-> NoAsk]
      /\ todo     = [r \in Req |-> <<>>]
      /\ at       = [r \in Req |-> 0]
      /\ url      = [r \in Req |-> NewURL]
      /\ response = [r \in Req |-> <<>>]
      /\ fault    = [r \in Req |-> "none"]
      /\ steady   = [r \in Req |-> TRUE]
  BY DEF Init, CacheInit
<1>3. cache \in Map
  BY <1>2, NewIsMap
<1>4. /\ cache.owner \in [Path -> Req \cup {NoReq}]
      /\ cache.memo \in [Path -> BOOLEAN \cup {NotKept}]
      /\ cache.waiting \in [Path -> SUBSET Req]
      /\ cache.running \subseteq Req
  BY <1>3 DEF Map
<1>5. \A r \in Req : DOMAIN response[r] = {}
  BY <1>1, <1>2
<1>6. Shape
  <2>1. NewURL \in URL
    BY DEF NewURL, URL
  <2> QED
    BY <1>2, <1>3, <1>4, <1>5, <2>1 DEF Shape, TypeOK, CacheTypeOK
<1>7. CallersAgree
  BY <1>2, CacheMapAssumptions DEF CallersAgree, New, InFlight, Kept
<1>8. Places
  BY <1>2 DEF Places, Placed, Busy, Asking
<1>9. Covered /\ OneStory
  BY <1>2 DEF Covered, CoveredFor, OneStory, OneStoryFor, Busy, Asking
<1>10. Hosted
  BY <1>2, <1>5 DEF Hosted, HostedFor, Asking
<1>11. Fresh
  BY <1>2, CacheMapAssumptions DEF Fresh, PositiveIsFresh, New
<1> QED
  BY <1>6, <1>7, <1>8, <1>9, <1>10, <1>11 DEF Inv

\* What the exports rely on holds at all times: where each of them stands, what
\* it was told, and that CacheMap knows who asks (export.go:325-360,
\* cache_map.go:77).
THEOREM ExportInvariant == SafetySpec => []Inv
<1>1. Inv /\ [Next]_vars => Inv'
  BY ShapeStep, CallersStep, PlacesStep, CoveredStep, HostedStep, StoryStep, FreshStep DEF Inv
<1> QED
  BY InvInit, <1>1, PTL DEF SafetySpec

\* The types are correct, whatever the torrent and the requests.
THEOREM TypeCorrect == SafetySpec => []TypeOK
<1>1. Inv => TypeOK
  BY DEF Inv, Shape
<1> QED
  BY ExportInvariant, <1>1, PTL

\* No content is called cached that was not whole at some time since the answer
\* before expired, whatever the edge does to the probes (cache_map.go:77-109).
THEOREM PositiveAlwaysFresh == SafetySpec => []PositiveIsFresh
<1>1. Inv => PositiveIsFresh
  BY DEF Inv, Fresh
<1> QED
  BY ExportInvariant, <1>1, PTL

\* The stats of a torrent never go by the premium edge (url_builder.go:89-94).
THEOREM StatAlwaysDirect == SafetySpec => []StatIsDirect
<1>1. Inv => StatIsDirect
  <2>1. \A c, a : Host(c, a, "torrent_client_stat") # "premium"
    BY DEF Host, getBaseDomain
  <2> QED
    BY <2>1 DEF Inv, Hosted, HostedFor, StatIsDirect
<1> QED
  BY ExportInvariant, <1>1, PTL

\* A request that cannot be verified is given no URL on our domains where roles
\* decide on them (url_builder.go:80-112).
THEOREM UnverifiedNeverGetHost == SafetySpec => []UnverifiedGetNoHost
<1>1. Inv => UnverifiedGetNoHost
  <2> SUFFICES ASSUME Hosted, NEW r \in Req, getRole(config, ask[r]) = Bad,
                      config.premium \/ config.subdomains, NEW t \in DOMAIN response[r]
               PROVE  response[r][t].host = "none"
    BY DEF Inv, UnverifiedGetNoHost
  <2>1. response[r][t].host = Host(config, ask[r], t) /\ Allowed(r, t)
    BY DEF Hosted, HostedFor
  <2>2. CASE config.premium
    BY <2>1, <2>2 DEF Host, getBaseDomain
  <2>3. CASE config.subdomains
    BY <2>1, <2>3 DEF Allowed
  <2> QED
    BY <2>2, <2>3
<1> QED
  BY ExportInvariant, <1>1, PTL

\* A response that is sent has all that was asked for and applies to the item
\* (export.go:325-360).
THEOREM AnsweredAlwaysWhole == SafetySpec => []AnsweredWhole
<1>1. Inv => AnsweredWhole
  <2> SUFFICES ASSUME Inv, NEW r \in Req, pc[r] = "answered", NEW t \in ToSet(Types(ask[r]))
               PROVE  \/ t \in DOMAIN response[r]
                      \/ t = "torrent_client_stat"
                      \/ t = "stream" /\ ~HasFormat(ask[r].item)
                      \/ t = "subtitles" /\ ~(config.video /\ Is(ask[r].item, "video"))
                      \/ t = "media_probe" /\ ~shouldTranscode(ask[r].item)
    BY DEF AnsweredWhole
  <2>1. todo[r] = <<>>
    BY DEF Inv, Places, Placed
  <2>2. ~Left(r, t)
    BY <2>1 DEF Left
  <2> QED
    BY <2>2 DEF Inv, Covered, CoveredFor, Busy, Inapplicable
<1> QED
  BY ExportInvariant, <1>1, PTL

\* The parts of one response agree on whether the item is cached, unless an
\* answer about it expired while they were made, although each of them asks
\* on its own (url_builder.go, cache_map.go:77-109).
THEOREM AlwaysCoherent == SafetySpec => []Coherent
<1>1. Inv => Coherent
  <2> SUFFICES ASSUME Inv, NEW r \in Req, pc[r] = "answered", steady[r]
               PROVE  \E cached \in BOOLEAN :
                        /\ \A t \in DOMAIN response[r] : response[r][t].meta.cached = cached
                        /\ "torrent_client_stat" \in ToSet(Types(ask[r]))
                             => ("torrent_client_stat" \in DOMAIN response[r] <=> ~cached)
                        /\ /\ "stream" \in DOMAIN response[r]
                           /\ Is(ask[r].item, "video") \/ Is(ask[r].item, "audio")
                           => response[r]["stream"].preload = cached
    BY DEF Coherent
  <2>1. todo[r] = <<>>
    BY DEF Inv, Places, Placed
  <2>2. ~Left(r, "torrent_client_stat") /\ ~TagLeft(r)
    BY <2>1 DEF Left, TagLeft
  <2>3. /\ \A t \in DOMAIN response[r] : response[r][t].meta.cached = Known(r)
        /\ "torrent_client_stat" \in DOMAIN response[r]
             => ~response[r]["torrent_client_stat"].meta.cached
        /\ "torrent_client_stat" \in ToSet(Types(ask[r])) =>
             "torrent_client_stat" \in DOMAIN response[r] \/ Known(r) = TRUE
        /\ "stream" \in DOMAIN response[r] /\ Playable(ask[r].item) =>
             response[r]["stream"].preload = Known(r)
    BY <2>2 DEF Inv, OneStory, OneStoryFor, Busy
  <2>4. \A t \in DOMAIN response[r] : response[r][t].meta.cached \in BOOLEAN
    BY DEF Inv, Shape, TypeOK, URL
  <2>5. CASE DOMAIN response[r] = {}
    <3> WITNESS TRUE \in BOOLEAN
    <3> QED
      BY <2>3, <2>5
  <2>6. CASE DOMAIN response[r] # {}
    <3>1. Known(r) \in BOOLEAN
      BY <2>3, <2>4, <2>6
    <3> WITNESS Known(r) \in BOOLEAN
    <3> QED
      BY <2>3, <3>1 DEF Playable
  <2> QED
    BY <2>5, <2>6
<1> QED
  BY ExportInvariant, <1>1, PTL

=============================================================================
