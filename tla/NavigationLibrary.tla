-------------------------- MODULE NavigationLibrary --------------------------
(***************************************************************************)
(* Bookmarks and saved routes (features/navigation_bookmarks.py), the end  *)
(* points on them (api/navigation_bookmarks.py), and the snapshot of the   *)
(* route the game has plotted (features/navigation.py).                    *)
(*                                                                         *)
(* The key of a row is a number that the database gives it, one more than  *)
(* the largest in the table: the key of the newest row is used again once  *)
(* that row is deleted.  A row has the name of the call that made it, and  *)
(* entries of the activity log name rows that way, as the code does by     *)
(* their labels.                                                           *)
(***************************************************************************)
EXTENDS Integers, Sequences, RecordCalls

CONSTANTS Tags,       \* VALID_BOOKMARK_TAGS
          RouteFiles  \* what NavRoute.json may list; Absent for an entry of no system

\* The keys of these two tables.
LibraryKeys == {k \in Further : k[1] \in {"bookmark", "route"}}

ASSUME LibraryAssumption == Calls \cap {"bookmark", "route"} = {}

Bookmark(name, tags) == [table |-> "bookmark", by |-> name, note |-> "old", tags |-> tags]

SavedRoute(name) == [table |-> "route", by |-> name, note |-> "old", tags |-> {}]

Ids(table) == {k[2] : k \in All(table)}

\* What SQLite gives a new row, as long as LibraryKeys goes.
NextKey(table) ==
  <<table, IF Ids(table) = {} THEN 1
           ELSE 1 + CHOOSE n \in Ids(table) : \A m \in Ids(table) : m <= n>>

\* An insertion waits for its commit, which gives the key.
Creates(c, row) ==
  /\ call[c] = Idle
  /\ Goes(c, [at |-> "insert", row |-> row])
  /\ UNCHANGED <<rows, log>>

Named(table, what, name) == {Entry(table, what, name)}

Tagged(k, tags) == {Entry("bookmark", "tagged", <<k, t>>) : t \in tags}

Insert(c) ==
  /\ call[c].at = "insert"
  /\ LET row == call[c].row
         k == NextKey(row.table)
     IN \/ /\ k \in LibraryKeys
           /\ rows' = [rows EXCEPT ![k] = row]
           /\ Goes(c, [at |-> "written", key |-> k, readBack |-> TRUE,
                       after |-> Named(row.table, "created", row.by) \cup Tagged(k, row.tags),
                       next |-> Done("ok")])
        \/ Goes(c, Done("error")) /\ UNCHANGED rows
  /\ UNCHANGED log

\* The tags that are logged are those of the row as it is read back which it did
\* not have when it was got.
ReadBack(c) ==
  /\ Compares(c)
  /\ LET k == call[c].key
     IN Ends(c, Tagged(k, rows[k].tags \ call[c].next.had))

Patch(c, table, k, changes, next) ==
  IF k \notin All(table)
  THEN Answers(c, "not found")
  ELSE IF "tags" \in DOMAIN changes /\ ~(changes.tags \subseteq Tags)
  THEN Answers(c, "refused")
  ELSE /\ call[c] = Idle
       /\ Commits(c, k, rows[k], With(rows[k], changes), {},
                  Named(table, "updated", rows[k].by), TRUE, next)

Delete(c, table, k) ==
  IF k \notin All(table)
  THEN Answers(c, "not found")
  ELSE /\ call[c] = Idle
       /\ Commits(c, k, rows[k], Absent, {}, Named(table, "deleted", rows[k].by), FALSE,
                  Done("ok"))

-----------------------------------------------------------------------------
(* Bookmarks.                                                              *)

\* Mutant: the tags are not looked at.
CreateBookmarkUnchecked(c, tags) == Creates(c, Bookmark(c, tags))

CreateBookmark(c, tags) ==
  IF tags \subseteq Tags THEN Creates(c, Bookmark(c, tags)) ELSE Answers(c, "refused")

UpdateBookmark(c, k, changes) ==
  Patch(c, "bookmark", k, changes,
        IF "tags" \in DOMAIN changes /\ k \in All("bookmark")
        THEN [at |-> "done", answer |-> "ok", had |-> rows[k].tags]
        ELSE Done("ok"))

DeleteBookmark(c, k) == Delete(c, "bookmark", k)

ListBookmarks == All("bookmark")

ListBookmarksByTag(tag) == {k \in ListBookmarks : tag \in rows[k].tags}

PostBookmark(c) == \E tags \in {{}, Tags, {"bad"}} : CreateBookmark(c, tags)

PatchBookmark(c, k) ==
  \E body \in {[note |-> Absent], [note |-> "new"], [tags |-> {}], [tags |-> Tags],
               [tags |-> {"bad"}]} : UpdateBookmark(c, k, body)

RemoveBookmark(c, k) == DeleteBookmark(c, k)

GetBookmarks(c) ==
  \/ Shows(c, [bookmarks |-> ListBookmarks])
  \/ \E tag \in Tags \cup {"bad"} :
       IF tag \in Tags THEN Shows(c, [bookmarks |-> ListBookmarksByTag(tag)])
       ELSE Answers(c, "refused")

-----------------------------------------------------------------------------
(* Saved routes.                                                           *)

CreateSavedRoute(c) == Creates(c, SavedRoute(c))

UpdateSavedRoute(c, k, changes) == Patch(c, "route", k, changes, Done("ok"))

DeleteSavedRoute(c, k) == Delete(c, "route", k)

ListSavedRoutes == All("route")

PostSavedRoute(c) == Answers(c, "refused") \/ CreateSavedRoute(c)

PatchSavedRoute(c, k) ==
  \E body \in {[note |-> Absent], [note |-> "new"]} : UpdateSavedRoute(c, k, body)

RemoveSavedRoute(c, k) == DeleteSavedRoute(c, k)

\* GET /library/snapshot: the bookmarks, and later the routes.
GetLibrary(c) ==
  \/ /\ call[c] = Idle
     /\ Goes(c, [at |-> "routes", bookmarks |-> ListBookmarks]) /\ UNCHANGED <<rows, log>>
  \/ /\ call[c].at = "routes"
     /\ Goes(c, Shown([bookmarks |-> call[c].bookmarks, routes |-> ListSavedRoutes]))
     /\ UNCHANGED <<rows, log>>

-----------------------------------------------------------------------------
(* The plotted route, as the file of the game lists it.                    *)

\* Entries that name no system are passed over.
ParsedHops(file) == SelectSeq(file, LAMBDA system : system # Absent)

\* A route of one system leads nowhere.
BuildActiveRoute(file) ==
  LET hops == ParsedHops(file)
  IN IF Len(hops) < 2 THEN [route |-> "no_route"]
     ELSE [route |-> "active", origin |-> hops[1], nextHop |-> hops[2],
           destination |-> hops[Len(hops)], totalHops |-> Len(hops) - 1]

\* A missing, unreadable or half-written file is a route that is not loaded.
GetNavigationSnapshot(c) ==
  \/ Shows(c, [route |-> "not_loaded"])
  \/ \E file \in RouteFiles : Shows(c, BuildActiveRoute(file))

-----------------------------------------------------------------------------
OnLibrary(c) ==
  \/ Insert(c) \/ ReadBack(c)
  \/ PostBookmark(c) \/ GetBookmarks(c) \/ PostSavedRoute(c) \/ GetLibrary(c)
  \/ GetNavigationSnapshot(c)
  \/ \E k \in LibraryKeys :
       \/ PatchBookmark(c, k) \/ RemoveBookmark(c, k)
       \/ PatchSavedRoute(c, k) \/ RemoveSavedRoute(c, k)

LibrarySpec == Start /\ [][Database \/ \E c \in Calls : OnLibrary(c)]_vars

-----------------------------------------------------------------------------
(* Properties.                                                             *)

LibraryRows ==
  [table : {"bookmark", "route"}, by : Names, note : {"old", "new", Absent}, tags : SUBSET Tags]

LibraryTypeOK ==
  \A k \in All("bookmark") \cup All("route") :
    k \in LibraryKeys /\ rows[k].table = k[1] /\ rows[k] \in LibraryRows

\* The log tells of every row that is made, or is about to; and a row that is logged
\* as deleted is gone, whichever row has its key by now.
LibraryLogged ==
  \A table \in {"bookmark", "route"} : \A k \in All(table) :
    /\ rows[k].by \in Calls =>
         Entry(table, "created", rows[k].by) \in log \/ Coming(k)
    /\ Entry(table, "deleted", rows[k].by) \notin log
=============================================================================
