------------------------------ MODULE MCExport ------------------------------
(***************************************************************************)
(* Instances of Export: small torrents, and clients that ask for them.     *)
(***************************************************************************)
EXTENDS Export

File(name, ext) == [dir |-> <<>>, name |-> name, ext |-> ext]

\* A video to transcode, and captions that are not its own.
Release == <<File(<<"movie">>, "mkv"), File(<<"other">>, "vtt")>>

\* A video that players read as it is.
Movie == <<File(<<"movie">>, "mp4")>>

\* A video with captions, and a poster.
Captioned == <<File(<<"movie">>, "mp4"), File(<<"movie", "en">>, "vtt"),
               File(<<"poster">>, "png")>>

\* Requests for item i with a token, for a selection that exists.
Asks(i, types, token) == [item : {i}, types : {types}, token : {token},
                          premium : {TRUE}, selection : {TRUE}]

AskRelease  == Asks(1, <<"torrent_client_stat", "stream", "media_probe">>, "none")
               \cup Asks(2, <<>>, "none") \cup Asks(2, <<"stream", "unknown">>, "none")
AskCaptions == Asks(1, <<"stream">>, "none")
AskStat     == Asks(1, <<"download", "torrent_client_stat">>, "none")

\* The directory: an archive of it and its stats without a token, with that of
\* a paying user and with one that cannot be verified, and an archive of what
\* is not there.
AskFolder ==
  LET types == <<"download", "torrent_client_stat">>
  IN  UNION {Asks(0, types, token) : token \in {"none", "paid", Bad}}
      \cup {[a EXCEPT !.selection = FALSE] : a \in Asks(0, types, "none")}

\* The service as it is deployed: tokens are made for those who have none.
Deployed == [domain : {TRUE}, premium : {TRUE}, subdomains : {TRUE},
             secret : {TRUE}, role : {"free"}, video : {TRUE}, internal : {FALSE}]

\* With a premium domain and no nodes of its own, the other way around, and with a
\* premium domain, probes to the internal proxy and no secret to make tokens with.
Deployments == {c \in [domain : {TRUE}, premium : BOOLEAN, subdomains : BOOLEAN,
                       secret : BOOLEAN, role : {"free"}, video : {TRUE},
                       internal : BOOLEAN] :
                  /\ c.premium # c.subdomains
                  /\ c.internal = ~c.secret /\ (c.secret \/ c.premium)}

BasePaths    == {BasePath(i) : i \in Item}
FolderPath   == {BasePath(0)}
MoviePaths   == {BasePath(1)}
ReleasePaths == {BasePath(1), BasePath(2), Playlist(1), MediaInfo(1)}

=============================================================================
