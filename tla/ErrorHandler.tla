---------------------------- MODULE ErrorHandler ----------------------------
(***************************************************************************)
(* How a Go error becomes an HTTP status.  web.go's errorHandler looks for *)
(* substrings in the text of the error, in a fixed order, so an error is   *)
(* represented by its kind, and a kind by the sets of the matched          *)
(* substrings its text may contain.                                        *)
(***************************************************************************)
EXTENDS Naturals

Cascade == << [marker |-> "failed to parse",   status |-> 400],
              [marker |-> "forbidden",         status |-> 403],
              [marker |-> "not found",         status |-> 404],
              [marker |-> "timeout",           status |-> 408],
              [marker |-> "deadline exceeded", status |-> 504] >>

\* The first marker of the cascade the text contains decides; none is a 500.
errorHandler(text) ==
  LET hits == {i \in DOMAIN Cascade : Cascade[i].marker \in text}
  IN  IF hits = {} THEN 500
      ELSE Cascade[CHOOSE i \in hits : \A j \in hits : i <= j].status

\* Kinds of errors that leave ResourceMap:
\*   parse          the body is neither a hash, a magnet nor a torrent
\*   forbidden      PermissionDenied on Touch or Files, wrapped "forbidden"
\*   notFound       NotFound on Touch (sha1) or Files, reworded "not found"
\*   magnetTimeout  Magnet2Torrent failed and its context is done
\*   deadline       a call to the store passed its deadline, returned as is
\*   canceled       the context of the request was canceled, returned as is
\*   missing        NotFound on Pull, returned as is
\*   refused        PermissionDenied on Pull or Push, returned as is
\*   unavailable    any other failure of a call, or of parsing the torrent it
\*                  brought, returned as is
ErrorKind == {"parse", "forbidden", "notFound", "magnetTimeout", "deadline",
              "canceled", "missing", "refused", "unavailable"}

\* Any set of markers: what the words of another program may match.
AnyText == SUBSET {Cascade[i].marker : i \in DOMAIN Cascade}

\* What the text of an error may match.  An error returned as is, or wrapped,
\* carries the words of the service that answered, whatever they are.
Texts(kind) ==
  CASE kind = "parse"         -> {{"failed to parse"}}
    [] kind = "forbidden"     -> {t \in AnyText : "forbidden" \in t}
    [] kind = "notFound"      -> {{"not found"}}
    [] kind = "magnetTimeout" -> {t \in AnyText : "timeout" \in t}
    [] kind = "deadline"      -> {t \in AnyText : "deadline exceeded" \in t}
    [] kind \in {"canceled", "missing", "refused", "unavailable"} -> AnyText

\* The statuses an error of this kind may be answered with.
StatusOf(kind) == {errorHandler(text) : text \in Texts(kind)}

=============================================================================
