------------------------------- MODULE Gallery -------------------------------
(***************************************************************************)
(* The "photos and design" tab: the gallery of the business page and its   *)
(* palette.  There is no save button: every change is a call of its own,   *)
(* and a handler that has been answered puts back the list it saw when it  *)
(* was called, with its own change applied.  Only the tile of the last     *)
(* call is disabled (busyId is one field); an upload disables all tiles.   *)
(***************************************************************************)
EXTENDS Pages, FiniteSets

CONSTANTS MaxImages,      \* MAX_BUSINESS_IMAGES
          FirstGalleries, \* sets of image rows the page may find
          MaxGalleryCalls \* bound: changes the owner makes

VARIABLES
  gp,     \* the tab: grid, theme, the busy tile, the upload under way
  gprow,  \* the image rows and the theme on the server
  gpnet   \* calls in flight

gpvars == <<gp, gprow, gpnet>>

Captions == {"none", "text"}
Palettes == {"sea", "sand"}

\* A gallery: its rows have ids of their own, given in the order of upload.
Img == [id : Nat, cap : Captions, ord : Nat]
GalleryOf(rows, next) ==
    /\ IsFiniteSet(rows) /\ rows \subseteq Img
    /\ \A a, b \in rows : a.id = b.id => a = b
    /\ \A a \in rows : a.id < next

ASSUME GalleryAssumption ==
    \A imgs \in FirstGalleries : GalleryOf(imgs, Cardinality(imgs) + 1)

\* list_images: by sort_order, the older first among equals.
Before(a, b) == a.ord < b.ord \/ (a.ord = b.ord /\ a.id < b.id)
Display(rows) ==
    CHOOSE s \in [1 .. Cardinality(rows) -> rows] :
      \A i, j \in DOMAIN s : i < j => Before(s[i], s[j])

GPInit ==
    /\ \E imgs \in FirstGalleries :
         /\ gprow = [imgs |-> imgs, theme |-> "sea", next |-> Cardinality(imgs) + 1]
         /\ gp = [grid |-> Display(imgs), theme |-> "sea", busy |-> 0, uploading |-> FALSE,
                  calls |-> 0, over |-> FALSE, lost |-> FALSE, half |-> FALSE]
    /\ gpnet = {}

Ids(s) == [i \in DOMAIN s |-> s[i].id]
Tile(id) == CHOOSE i \in DOMAIN gp.grid : gp.grid[i].id = id
TileEnabled(id) == id \in ToSet(Ids(gp.grid)) /\ gp.busy # id /\ ~gp.uploading

\* A handler starts its call with the list of this moment.  over: it is not alone;
\* added: the images uploaded, or the row a move has written last.
Begin(kind, id, todo) ==
    gpnet' = gpnet \cup {[kind |-> kind, id |-> id, snap |-> gp.grid, todo |-> todo,
                          added |-> <<>>, st |-> "sent", v |-> Nothing, n |-> gp.calls]}
Started(b) == [b EXCEPT !.calls = @ + 1, !.over = @ \/ gpnet # {}]
MayStart == gp.calls < MaxGalleryCalls

Progress(c, d) == gpnet' = (gpnet \ {c}) \cup {d}
Finish(c) == gpnet' = gpnet \ {c}

-----------------------------------------------------------------------------
(* Upload: one file after the other, and the list is extended at the end *)

UploadFiles(n) ==
    /\ MayStart /\ ~gp.uploading /\ Len(gp.grid) < MaxImages
    /\ Begin("upload", 0, IF n <= MaxImages - Len(gp.grid) THEN n ELSE MaxImages - Len(gp.grid))
    /\ gp' = [Started(gp) EXCEPT !.uploading = TRUE]
    /\ UNCHANGED gprow

\* POST /api/booking/images: the cap is counted on the server, the image goes last.
UploadLands(c) ==
    /\ c.kind = "upload" /\ c.st = "sent" /\ Cardinality(gprow.imgs) < MaxImages
    /\ LET last == {r.ord : r \in gprow.imgs}
           row == [id |-> gprow.next, cap |-> "none",
                   ord |-> IF last = {} THEN 0
                           ELSE (CHOOSE m \in last : \A o \in last : o <= m) + 1]
       IN /\ gprow' = [gprow EXCEPT !.imgs = @ \cup {row}, !.next = @ + 1]
          /\ Progress(c, [c EXCEPT !.st = "done", !.v = row])
    /\ UNCHANGED gp

UploadAnswered(c) ==
    /\ c.kind = "upload" /\ c.st = "done"
    /\ LET d == [c EXCEPT !.added = Append(@, c.v), !.todo = @ - 1, !.st = "sent",
                          !.v = Nothing]
       IN IF d.todo > 0 THEN Progress(c, d) /\ UNCHANGED gp
          ELSE Finish(c) /\ gp' = [gp EXCEPT !.uploading = FALSE, !.grid = c.snap \o d.added]
    /\ UNCHANGED gprow

\* The first failure ends the batch; what was answered before it is kept.
UploadFails(c) ==
    /\ c.kind = "upload"
    /\ gp' = [gp EXCEPT !.uploading = FALSE, !.lost = @ \/ c.st = "done",
                        !.grid = IF c.added = <<>> THEN @ ELSE c.snap \o c.added]
    /\ Finish(c)
    /\ UNCHANGED gprow

-----------------------------------------------------------------------------
(* Caption (saved on blur), deletion, order *)

SaveCaption(id, text) ==
    /\ MayStart /\ TileEnabled(id) /\ text # gp.grid[Tile(id)].cap
    /\ Begin("caption", id, text)
    /\ gp' = [Started(gp) EXCEPT !.busy = id]
    /\ UNCHANGED gprow

RemoveImage(id) ==
    /\ MayStart /\ TileEnabled(id)
    /\ Begin("remove", id, <<>>)
    /\ gp' = [Started(gp) EXCEPT !.busy = id]
    /\ UNCHANGED gprow

\* moveTo(): the grid is renumbered at once, and the rows whose number changed are
\* written one by one, from the front of the grid.
Moved(s, from, to) == InsertAt(RemoveAt(s, from), to, s[from])
Renumbered(s) == [i \in DOMAIN s |-> [s[i] EXCEPT !.ord = i - 1]]
OrdIn(s, id) == s[CHOOSE i \in DOMAIN s : s[i].id = id].ord

\* Fault: only the image that was moved is written.
ChangedOnlyMoved(old, new, id) == {r \in ToSet(new) : r.id = id}

Changed(old, new, id) == {r \in ToSet(new) : OrdIn(old, r.id) # r.ord}
NextRow(todo) == CHOOSE r \in todo : \A q \in todo : r.ord <= q.ord

MoveTo(from, to) ==
    /\ MayStart /\ {from, to} \subseteq DOMAIN gp.grid /\ from # to
    /\ TileEnabled(gp.grid[from].id)
    /\ LET id == gp.grid[from].id
           new == Renumbered(Moved(gp.grid, from, to))
           todo == Changed(gp.grid, new, id)
       IN IF todo = {} THEN gp' = [gp EXCEPT !.grid = new, !.calls = @ + 1] /\ UNCHANGED gpnet
          ELSE /\ Begin("move", id, todo)
               /\ gp' = [Started(gp) EXCEPT !.grid = new, !.busy = id]
    /\ UNCHANGED gprow

\* PATCH and DELETE /api/booking/images/{id}; 404 once the row is gone.
RowOf(id) == {r \in gprow.imgs : r.id = id}
ImageLands(c) ==
    /\ c.kind \in {"caption", "remove", "move"} /\ c.st = "sent"
    /\ LET id == IF c.kind = "move" THEN NextRow(c.todo).id ELSE c.id
           new == CASE c.kind = "caption" -> {[r EXCEPT !.cap = c.todo] : r \in RowOf(id)}
                    [] c.kind = "move" -> {[r EXCEPT !.ord = NextRow(c.todo).ord] : r \in RowOf(id)}
                    [] OTHER -> {}
       IN /\ RowOf(id) # {}
          /\ gprow' = [gprow EXCEPT !.imgs = (@ \ RowOf(id)) \cup new]
          /\ Progress(c, [c EXCEPT !.st = "done", !.v = new])
    /\ UNCHANGED gp

CaptionAnswered(c) ==
    /\ c.kind = "caption" /\ c.st = "done"
    /\ LET row == CHOOSE r \in c.v : TRUE IN
       gp' = [gp EXCEPT !.busy = 0,
                !.grid = [i \in DOMAIN c.snap |-> IF c.snap[i].id = c.id THEN row ELSE c.snap[i]]]
    /\ Finish(c)
    /\ UNCHANGED gprow

\* The list without the tile of an image.
WithoutTile(s, id) ==
    IF id \in ToSet(Ids(s)) THEN RemoveAt(s, CHOOSE i \in DOMAIN s : s[i].id = id) ELSE s

RemoveAnswered(c) ==
    /\ c.kind = "remove" /\ c.st = "done"
    /\ gp' = [gp EXCEPT !.busy = 0, !.grid = WithoutTile(c.snap, c.id)]
    /\ Finish(c)
    /\ UNCHANGED gprow

MoveAnswered(c) ==
    /\ c.kind = "move" /\ c.st = "done"
    /\ LET rest == c.todo \ {NextRow(c.todo)}
       IN IF rest # {} THEN Progress(c, [c EXCEPT !.todo = rest, !.st = "sent",
                                                        !.added = <<NextRow(c.todo)>>])
                          /\ UNCHANGED gp
          ELSE Finish(c) /\ gp' = [gp EXCEPT !.busy = 0]
    /\ UNCHANGED gprow

ImageCallFails(c) ==
    /\ c.kind \in {"caption", "remove"}
    /\ gp' = [gp EXCEPT !.busy = 0, !.lost = @ \/ c.st = "done"]
    /\ Finish(c)
    /\ UNCHANGED gprow

\* The grid goes back to the list of the click, whatever was written already (half).
MoveFails(c) ==
    /\ c.kind = "move"
    /\ gp' = [gp EXCEPT !.busy = 0, !.grid = c.snap,
                        !.lost = @ \/ c.st = "done", !.half = @ \/ c.added # <<>>]
    /\ Finish(c)
    /\ UNCHANGED gprow

-----------------------------------------------------------------------------
(* Palette: applied at once, rolled back unless the demo refused it *)

Picking == \E c \in gpnet : c.kind = "palette"

SelectPalette(p) ==
    /\ MayStart /\ ~Picking
    /\ gpnet' = gpnet \cup {[kind |-> "palette", id |-> 0, snap |-> gp.theme, todo |-> p,
                             added |-> <<>>, st |-> "sent", v |-> Nothing, n |-> gp.calls]}
    /\ gp' = [Started(gp) EXCEPT !.theme = p]
    /\ UNCHANGED gprow

PaletteLands(c) ==
    /\ c.kind = "palette" /\ c.st = "sent"
    /\ gprow' = [gprow EXCEPT !.theme = c.todo]
    /\ Progress(c, [c EXCEPT !.st = "done", !.v = Display(gprow.imgs)])
    /\ UNCHANGED gp

\* The answer is the whole page, gallery included.
PaletteAnswered(c) ==
    /\ c.kind = "palette" /\ c.st = "done"
    /\ gp' = [gp EXCEPT !.theme = c.todo, !.grid = c.v]
    /\ Finish(c)
    /\ UNCHANGED gprow

PaletteFails(c) ==
    /\ c.kind = "palette"
    /\ gp' = [gp EXCEPT !.theme = c.snap, !.lost = @ \/ c.st = "done"]
    /\ Finish(c)
    /\ UNCHANGED gprow

PaletteRefusedInDemo(c) ==
    /\ c.kind = "palette" /\ c.st = "sent"
    /\ gp' = [gp EXCEPT !.lost = TRUE]
    /\ Finish(c)
    /\ UNCHANGED gprow

-----------------------------------------------------------------------------
GPNext ==
    \/ \E n \in 1 .. 2 : UploadFiles(n)
    \/ \E id \in 1 .. gprow.next - 1 :
         RemoveImage(id) \/ \E text \in Captions : SaveCaption(id, text)
    \/ \E from, to \in 1 .. MaxImages : MoveTo(from, to)
    \/ \E p \in Palettes : SelectPalette(p)
    \/ \E c \in gpnet :
         \/ UploadLands(c) \/ UploadAnswered(c) \/ UploadFails(c) \/ ImageLands(c)
         \/ CaptionAnswered(c) \/ RemoveAnswered(c) \/ MoveAnswered(c) \/ ImageCallFails(c)
         \/ MoveFails(c) \/ PaletteLands(c) \/ PaletteAnswered(c) \/ PaletteFails(c)
         \/ PaletteRefusedInDemo(c)

-----------------------------------------------------------------------------
(* Properties *)

\* As long as the owner makes one change at a time, no answer is lost after its call
\* took effect and no move has failed after some of its rows were written, the tab
\* shows the gallery the visitors see once the change is over: same images, captions,
\* order and numbers, after any mix of uploads, captions, moves, deletions and
\* failures, a move whose first row fails among them.
GallerySettles ==
    gpnet = {} /\ ~gp.over /\ ~gp.lost /\ ~gp.half =>
      gp.grid = Display(gprow.imgs) /\ gp.theme = gprow.theme
=============================================================================
