-------------------------------- MODULE List --------------------------------
(***************************************************************************)
(* services/list.go and the handlers of services/web.go that are built on  *)
(* it: getList lists the files of a torrent, getExport finds again what a  *)
(* listing showed, by id or by index, and every resource response carries  *)
(* a summary of the same files.                                            *)
(*                                                                         *)
(* A path is the sequence of its components.  The id of an item is the     *)
(* SHA1 of its joined path, so a path stands for its id.  A client lists,  *)
(* turns the pages of a listing, and exports what it was shown.            *)
(***************************************************************************)
EXTENDS Integers, SequencesExt

CONSTANTS
  Name,              \* components of paths
  lower,             \* the place of strings.ToLower(name) in string order
  Torrent,           \* the files torrents may have, in their natural order
  Query,             \* queries of /resource/{id}/list
  MaxLimit,          \* 1000 in the code
  Absent, Malformed  \* query values: not given, not a number or not known

File == [path : Seq(Name) \ {<<>>}, size : Nat]

\* What ?name= of a query may be: one of the values, left out, or anything else.
Param(values) == values \cup {Absent, Malformed}

ASSUME ListAssumptions ==
  /\ lower \in [Name -> Nat]
  /\ MaxLimit \in Nat \ {0}
  /\ Torrent \subseteq Seq(File)
  /\ \A files \in Torrent : \A i, j \in DOMAIN files :
       IsPrefix(files[i].path, files[j].path) => i = j
  /\ Absent # Malformed
  /\ {Absent, Malformed} \cap (Int \cup {"list", "tree", "name", "size"}) = {}
  /\ \A q \in Query :
       q \in [output : Param({"list", "tree"}), path : Seq(Name), limit : Param(Int),
              offset : Param(Int), sort : Param({"name", "size"})]

VARIABLES
  torrent,   \* Resource.Files
  query,     \* the last query of the client
  listing,   \* the last response
  walk,      \* the items of the pages turned since the listing began
  exported   \* the last item the client exported, and what it got

vars == <<torrent, query, listing, walk, exported>>

-----------------------------------------------------------------------------
(* list.go                                                                 *)

pathBeginsWith(source, start) ==
  \A i \in DOMAIN source \cap DOMAIN start : source[i] = start[i]

Matching(files, path) == {i \in DOMAIN files : pathBeginsWith(files[i].path, path)}

\* Of the files, or items, whose places are in S.
Size(files, S) ==
  LET sum[n \in 0..Len(files)] ==
        IF n = 0 THEN 0 ELSE sum[n - 1] + (IF n \in S THEN files[n].size ELSE 0)
  IN  sum[Len(files)]

\* Sums the first run of matching files: a file that does not match ends it,
\* once there is something to add.
buildDirSize(files, prefix) ==
  LET Add(acc, f) ==
        IF pathBeginsWith(f.path, prefix)
        THEN [acc EXCEPT !.size = IF acc.open THEN @ + f.size ELSE @]
        ELSE [acc EXCEPT !.open = @ /\ acc.size = 0]
      run[n \in 0..Len(files)] ==
        IF n = 0 THEN [size |-> 0, open |-> TRUE] ELSE Add(run[n - 1], files[n])
  IN  run[Len(files)].size

\* Mutant: the index counts from one.
buildFileFromOne(files, i) ==
  [type |-> "file", path |-> files[i].path, size |-> files[i].size, index |-> i]

\* Index is the position in Resource.Files, from 0.
buildFile(files, i) ==
  [type |-> "file", path |-> files[i].path, size |-> files[i].size,
   index |-> i - 1]

directory(path, size) ==
  [type |-> "directory", path |-> path, size |-> size, index |-> 0]

\* How many directories there are below path and above a file.
Depth(file, path) == IF Len(file.path) > Len(path) THEN Len(file.path) - Len(path) - 1 ELSE 0

\* The k-th of them.  Its size is looked up by its path relative to path, among
\* all files.
Above(files, path, i, k) ==
  LET p == SubSeq(files[i].path, Len(path) + 1, Len(path) + k)
  IN  directory(path \o p, buildDirSize(files, p))

\* Mutant: a directory is emitted again for every file below it.
emitDirsRepeating(files, path, i, items) ==
  items \o [k \in 1..Depth(files[i], path) |-> Above(files, path, i, k)]

\* Those that were not emitted yet follow the items.
emitDirs(files, path, i, items) ==
  LET Emit(emitted, d) == IF Contains(emitted, d) THEN emitted ELSE Append(emitted, d)
      upTo[k \in 0..Depth(files[i], path)] ==
        IF k = 0 THEN items ELSE Emit(upTo[k - 1], Above(files, path, i, k))
  IN  upTo[Depth(files[i], path)]

\* The files below path, each after the directories above it that were not
\* emitted yet.
buildList(files, path) ==
  LET Emit(items, i) ==
        IF i \in Matching(files, path)
        THEN Append(emitDirs(files, path, i, items), buildFile(files, i))
        ELSE items
      upTo[n \in 0..Len(files)] == IF n = 0 THEN <<>> ELSE Emit(upTo[n - 1], n)
  IN  upTo[Len(files)]

\* Mutant: files are added to the pending directory without comparing paths.
emitTreeOneDirectory(files, path, i, items) ==
  IF Len(files[i].path) = Len(path) + 1
  THEN Append(items, buildFile(files, i))
  ELSE IF items # <<>> /\ Last(items).type = "directory"
  THEN [items EXCEPT ![Len(items)].size = @ + files[i].size]
  ELSE Append(items, directory(SubSeq(files[i].path, 1, Len(path) + 1), files[i].size))

\* A directory collects the files below it until something else below path
\* comes; it is the last item meanwhile.
emitTree(files, path, i, items) ==
  LET dir == SubSeq(files[i].path, 1, Len(path) + 1)
  IN  IF Len(files[i].path) = Len(path) + 1
      THEN Append(items, buildFile(files, i))
      ELSE IF items # <<>> /\ Last(items).type = "directory" /\ Last(items).path = dir
      THEN [items EXCEPT ![Len(items)].size = @ + files[i].size]
      ELSE Append(items, directory(dir, files[i].size))

\* What is directly below path.
buildTree(files, path) ==
  LET Emit(items, i) ==
        IF i \in Matching(files, path) THEN emitTree(files, path, i, items) ELSE items
      upTo[n \in 0..Len(files)] == IF n = 0 THEN <<>> ELSE Emit(upTo[n - 1], n)
  IN  upTo[Len(files)]

\* buildTree slices the path of a file past its end.
TreePanics(files, path) ==
  \E i \in Matching(files, path) : Len(files[i].path) <= Len(path)

\* Mutant: sizes are compared the wrong way round.
lessAscending(a, b, sort) ==
  IF a.type # b.type THEN a.type = "directory"
  ELSE \/ sort = "size" /\ a.size < b.size
       \/ /\ sort = "size" => a.size = b.size
          /\ lower[Last(a.path)] < lower[Last(b.path)]

\* Directories first, then by descending size or by name.
less(a, b, sort) ==
  IF a.type # b.type THEN a.type = "directory"
  ELSE \/ sort = "size" /\ a.size > b.size
       \/ /\ sort = "size" => a.size = b.size
          /\ lower[Last(a.path)] < lower[Last(b.path)]

\* sort.SliceStable.
sortItems(items, sort) ==
  LET Before(i, j) == \/ less(items[i], items[j], sort)
                      \/ ~less(items[j], items[i], sort) /\ i < j
      Place(j) == Cardinality({i \in DOMAIN items : Before(i, j)}) + 1
  IN  IF sort = "none" THEN items
      ELSE [k \in DOMAIN items |->
              items[CHOOSE j \in DOMAIN items : Place(j) = k]]

\* Mutant: the comparison with the end of the page is off by one.
paginateOneMore(items, limit, offset) ==
  IF offset > 0 \/ (limit # 0 /\ offset + limit < Len(items))
  THEN SubSeq(items, offset + 1, Min({offset + limit + 1, Len(items)}))
  ELSE items

paginate(items, limit, offset) ==
  IF offset > 0 \/ (limit # 0 /\ offset + limit < Len(items))
  THEN SubSeq(items, offset + 1, Min({offset + limit, Len(items)}))
  ELSE items

\* List.Get.
ListGet(files, args) ==
  LET items == sortItems(IF args.output = "list"
                         THEN buildList(files, args.path)
                         ELSE buildTree(files, args.path), args.sort)
  IN  [status |-> 200,
       root   |-> directory(args.path, Size(files, Matching(files, args.path))),
       items  |-> paginate(items, args.limit, args.offset),
       count  |-> Len(items)]

NewListGetArgs ==
  [output |-> "list", path |-> <<>>, limit |-> 0, offset |-> 0, sort |-> "none"]

\* A query with a value ListGetArgsFromParams refuses.
Refused(q) ==
  \/ Malformed \in {q.output, q.limit, q.offset, q.sort}
  \/ q.limit # Absent /\ q.limit \notin 1..MaxLimit
  \/ q.offset # Absent /\ q.offset < 0

ListGetArgsFromParams(q) ==
  [output |-> IF q.output = Absent THEN "list" ELSE q.output,
   path   |-> q.path,
   limit  |-> IF q.limit = Absent THEN MaxLimit ELSE q.limit,
   offset |-> IF q.offset = Absent THEN 0 ELSE q.offset,
   sort   |-> IF q.sort = Absent THEN "none" ELSE q.sort]

-----------------------------------------------------------------------------
(* The handlers of web.go, once they have the resource                     *)

NoListing == [status |-> 0]

getList(files, q) ==
  LET args == ListGetArgsFromParams(q)
  IN  IF Refused(q) THEN [status |-> 400]
      ELSE IF args.output = "tree" /\ TreePanics(files, args.path)
      THEN [status |-> 500]
      ELSE ListGet(files, args)

\* Mutant: an index counts from one.
getExportFromOne(files, by, content) ==
  IF by = "index"
  THEN IF content \in DOMAIN files
       THEN [status |-> 200, item |-> buildFile(files, content)]
       ELSE [status |-> 500]
  ELSE LET all  == ListGet(files, NewListGetArgs)
           same == {i \in DOMAIN all.items : all.items[i].path = content}
       IN  IF same # {} THEN [status |-> 200, item |-> all.items[Min(same)]]
           ELSE IF all.root.path = content
           THEN [status |-> 200, item |-> all.root]
           ELSE [status |-> 404]

\* getExport finds the item: by its index in the torrent, or by its id in the
\* whole listing, the root coming last.
getExport(files, by, content) ==
  IF by = "index"
  THEN IF content + 1 \in DOMAIN files
       THEN [status |-> 200, item |-> buildFile(files, content + 1)]
       ELSE [status |-> 500]
  ELSE LET all  == ListGet(files, NewListGetArgs)
           same == {i \in DOMAIN all.items : all.items[i].path = content}
       IN  IF same # {} THEN [status |-> 200, item |-> all.items[Min(same)]]
           ELSE IF all.root.path = content
           THEN [status |-> 200, item |-> all.root]
           ELSE [status |-> 404]

\* Mutant: one file is enough to be a single-file torrent.
fillResourceStructureByCount(files) ==
  [size |-> Size(files, DOMAIN files), files_count |-> Len(files),
   file |-> IF Len(files) = 1 THEN <<buildFile(files, 1)>> ELSE <<>>,
   multi_file |-> Len(files) # 1]

\* The summary in the responses of postResource and getResource, with the file
\* itself if that is all there is.
fillResourceStructure(files) ==
  LET single == Len(files) = 1 /\ Len(files[1].path) = 1
  IN  [size |-> Size(files, DOMAIN files), files_count |-> Len(files),
       file |-> IF single THEN <<buildFile(files, 1)>> ELSE <<>>,
       multi_file |-> ~single]

-----------------------------------------------------------------------------

NoQuery  == [output |-> Absent, path |-> <<>>, limit |-> Absent,
             offset |-> Absent, sort |-> Absent]
NoExport == [found |-> [status |-> 0]]

Init ==
  /\ torrent \in Torrent
  /\ query    = NoQuery
  /\ listing  = NoListing
  /\ walk     = <<>>
  /\ exported = NoExport

Show(q) ==
  /\ query'    = q
  /\ listing'  = getList(torrent, q)
  /\ exported' = NoExport
  /\ UNCHANGED torrent

GetList ==
  /\ listing = NoListing
  /\ \E q \in Query : Show(q)
  /\ walk' = IF listing'.status = 200 THEN listing'.items ELSE <<>>

\* The client asks for the page after the one it has.
NextPage ==
  /\ listing.status = 200
  /\ query.limit # Absent
  /\ Len(listing.items) >= query.limit
  /\ LET offset == IF query.offset = Absent THEN 0 ELSE query.offset
     IN  Show([query EXCEPT !.offset = offset + query.limit])
  /\ walk' = walk \o listing'.items

\* The client leaves the listing to export something it showed.
GetExport ==
  /\ listing.status = 200
  /\ \E item \in ToSet(listing.items) \cup {listing.root} :
     \E by \in IF item.type = "file" THEN {"id", "index"} ELSE {"id"} :
       exported' = [found |-> getExport(torrent, by, IF by = "id" THEN item.path
                                                                  ELSE item.index),
                    asked |-> item, root |-> item = listing.root]
  /\ query'   = NoQuery
  /\ listing' = NoListing
  /\ walk'    = <<>>
  /\ UNCHANGED torrent

Next == GetList \/ NextPage \/ GetExport

Spec == Init /\ [][Next]_vars

-----------------------------------------------------------------------------
(* What the listings ought to be, said of the files alone                  *)

Below(path)      == {i \in DOMAIN torrent : IsPrefix(path, torrent[i].path)}
FilesBelow(path) == {buildFile(torrent, i) : i \in Below(path)}
Directories(path) ==
  UNION {{SubSeq(torrent[i].path, 1, k) :
            k \in (Len(path) + 1)..(Len(torrent[i].path) - 1)} : i \in Below(path)}

\* The path goes on where a file ends: no such file exists.
BeyondFile(path) == \E f \in ToSet(torrent) : IsStrictPrefix(f.path, path)

\* The files below dir follow each other among those below path.
Adjacent(dir, path) ==
  \A i, j \in Below(dir), k \in Below(path) : i < k /\ k < j => k \in Below(dir)

Shown(type) == {i \in DOMAIN listing.items : listing.items[i].type = type}

\* The arguments of the same listing in one page.
Unpaged(args) == [args EXCEPT !.limit = 0, !.offset = 0]

\* No page, and no limit on its length, left anything out of the response.
Uncut == listing.status = 200 /\ Len(listing.items) = listing.count

Complete(output) ==
  Uncut /\ (IF query.output = Absent THEN "list" ELSE query.output) = output

-----------------------------------------------------------------------------
(* Properties                                                              *)

\* An item as the torrent at hand can have it.
Item == [type : {"file", "directory"}, path : Seq(Name) \ {<<>>}, size : Nat,
         index : 0..(Len(torrent) - 1)]

\* Every variable has its type, and every index is one of the torrent.
TypeOK ==
  /\ torrent \in Seq(File)
  /\ query \in [output : Param({"list", "tree"}), path : Seq(Name), limit : Param(Int),
                offset : Param(Int), sort : Param({"name", "size"})]
  /\ listing.status \in {0, 200, 400, 500}
  /\ listing.status = 200 => listing.items \in Seq(Item)
  /\ exported.found.status \in {0, 200, 404, 500}

\* A listing as a list has every directory below the path once and every file
\* once, with the index it has in the torrent whatever the sort; unsorted, a
\* directory comes before what it holds.  Listed from the top, a directory
\* whose files are adjacent has their total size (list.go:134, 159).  A path
\* that goes on from a file is the exception: that file is shown.
ListIsWhole ==
  Complete("list") /\ ~BeyondFile(query.path) =>
    /\ {listing.items[i] : i \in Shown("file")} = FilesBelow(query.path)
    /\ Cardinality(Shown("file")) = Cardinality(Below(query.path))
    /\ {listing.items[i].path : i \in Shown("directory")} = Directories(query.path)
    /\ Cardinality(Shown("directory")) = Cardinality(Directories(query.path))
    /\ query.sort = Absent =>
         \A i \in DOMAIN listing.items, j \in Shown("directory") :
           IsStrictPrefix(listing.items[j].path, listing.items[i].path) => j < i
    /\ query.path = <<>> =>
         \A j \in Shown("directory") :
           LET dir == listing.items[j].path
           IN  Adjacent(dir, <<>>) => listing.items[j].size = Size(torrent, Below(dir))

\* A listing as a tree has what is directly below the path: every file once
\* with its index, every directory at least once, and once if its files are
\* adjacent below the path; the entries of a directory add up to its size.
\* It fails exactly when the path is that of a file, or goes on from one
\* (list.go:285-292).
TreeIsOneLevel ==
  /\ Complete("tree") =>
       LET here == {d \in Directories(query.path) : Len(d) = Len(query.path) + 1}
           entries(d) == {i \in Shown("directory") : listing.items[i].path = d}
       IN  /\ {listing.items[i] : i \in Shown("file")} =
                {f \in FilesBelow(query.path) : Len(f.path) = Len(query.path) + 1}
           /\ \A i, j \in Shown("file") : listing.items[i] = listing.items[j] => i = j
           /\ {listing.items[i].path : i \in Shown("directory")} = here
           /\ \A d \in here :
                /\ Size(listing.items, entries(d)) = Size(torrent, Below(d))
                /\ Adjacent(d, query.path) => Cardinality(entries(d)) = 1
  /\ query.output = "tree" /\ listing.status \in {200, 500} =>
       (listing.status = 500 <=> \E f \in ToSet(torrent) : IsPrefix(f.path, query.path))

\* A sorted listing has its directories first, each part in order, and two
\* items that compare equal stay as they are in the unsorted one.
SortedStably ==
  Uncut /\ query.sort # Absent =>
    LET plain == getList(torrent, [query EXCEPT !.sort = Absent]).items
        Key(item) == <<IF item.type = "directory" THEN 0 ELSE 1,
                       IF query.sort = "size" THEN -item.size ELSE 0,
                       lower[Last(item.path)]>>
        Place(item) == {i \in DOMAIN plain : plain[i] = item}
        Precedes(a, b) ==
          \E k \in 1..3 : a[k] < b[k] /\ \A l \in 1..(k - 1) : a[l] = b[l]
    IN  /\ ToBag(listing.items) = ToBag(plain)
        /\ \A i, j \in DOMAIN listing.items : i < j =>
             LET a == listing.items[i]
                 b == listing.items[j]
             IN  \/ Precedes(Key(a), Key(b))
                 \/ Key(a) = Key(b) /\ \E m \in Place(a), n \in Place(b) : m <= n

\* A client that turns the pages, from the first or a later one to one that is
\* not full, has seen every item from there on once, in the order of the whole
\* listing; and the count it was told on the way was that of the items.  Without
\* a limit it is given one page, which ends where the listing or MaxLimit does.
PagesCover ==
  listing.status = 200 =>
    LET args  == ListGetArgsFromParams(query)
        whole == ListGet(torrent, Unpaged(args)).items
        first == args.offset + Len(listing.items) - Len(walk)
    IN  /\ listing.count = Len(whole)
        /\ first >= 0 /\ walk = SubSeq(whole, first + 1, first + Len(walk))
        /\ Len(listing.items) < args.limit => first + Len(walk) >= Len(whole)

\* Whatever the sort, the page and the path of the listing it was found in,
\* an item is found again by its id, and a file also by its index.
ItemsExport ==
  exported # NoExport /\ ~exported.root =>
    /\ exported.found.status = 200
    /\ exported.found.item.path = exported.asked.path
    /\ exported.found.item.type = exported.asked.type
    /\ exported.found.item.index = exported.asked.index

\* What the resource responses say without listing is what the listing says:
\* the total size, the number of files, whether all there is is one file, and
\* that file (models.go:7-18).
StructureAgrees ==
  Complete("list") /\ query.path = <<>> =>
    LET structure == fillResourceStructure(torrent)
    IN  /\ structure.size = listing.root.size
        /\ structure.files_count = Cardinality(Shown("file"))
        /\ structure.multi_file <=> Len(listing.items) # 1
        /\ structure.file = IF structure.multi_file THEN <<>> ELSE listing.items

=============================================================================
