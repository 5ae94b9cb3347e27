----------------------------- MODULE MenuLayout -----------------------------
(* Where src/src/menu_ui.py draws its controls and which control a tap      *)
(* hits, in pixels.  Hosts and results count from 1 here, from 0 there.     *)
EXTENDS Integers, Sequences

FbWidth  == 480
FbHeight == 800
LegendWidth == 28
Columns  == 2

MinOf(a, b) == IF a <= b THEN a ELSE b
MaxOf(a, b) == IF a >= b THEN a ELSE b

Rect(x, y, w, h) == [x |-> x, y |-> y, w |-> w, h |-> h]

(* The hit tests of the code count both borders. *)
Inside(r, px, py) == /\ r.x <= px /\ px <= r.x + r.w
                     /\ r.y <= py /\ py <= r.y + r.h

----------------------------------------------------------------------------
(* The home surface: a grid of tiles for n hosts.                          *)

Rows(n) == MaxOf(1, (n + Columns - 1) \div Columns)

TileWidth == (FbWidth - 2 * 24 - LegendWidth - 18 * (Columns - 1)) \div Columns

TileHeight(n) ==
  MinOf(150, MaxOf(96, (FbHeight - 56 - 160 - 18 * (Rows(n) - 1)) \div Rows(n)))

Tile(n, i) ==
  Rect(24 + ((i - 1) % Columns) * (TileWidth + 18),
       160 + ((i - 1) \div Columns) * (TileHeight(n) + 18),
       TileWidth, TileHeight(n))

----------------------------------------------------------------------------
(* The overlay.                                                            *)

MaxRows    == 5
MaxResults == 3
RowHeight  == 58

CloseButton == Rect(FbWidth - 64, 0, 64, 72)

HostRow(i) == Rect(16, 106 + (i - 1) * (RowHeight + 10), FbWidth - 32, RowHeight)

DeleteFrom == FbWidth - 72    \* from here to the right a row deletes

ScanTop    == 106 + MaxRows * (RowHeight + 10) + 10
ScanButton == Rect(16, ScanTop, FbWidth - 32, 56)

ResultRow(i) == Rect(16, ScanTop + 72 + 18 + (i - 1) * 44, FbWidth - 32, 38)

YesButton == Rect(70, 400, 140, 56)
NoButton  == Rect(270, 400, 140, 56)

----------------------------------------------------------------------------
(* on_tap(): what a tap asks for, given what the surface consists of:      *)
(* `overlay` (or home), the host of the confirm dialog, hosts and results. *)
(* Rows do not overlap, so the first hit is the only one.                  *)

Nothing(none) == [do |-> "nothing", mac |-> none]

TilesHit(view, x, y) ==
  {i \in DOMAIN view.hosts : Inside(Tile(Len(view.hosts), i), x, y)}

RowsHit(view, x, y) ==
  {i \in DOMAIN view.hosts : i <= MaxRows /\ Inside(HostRow(i), x, y)}

ResultsHit(view, x, y) ==
  {i \in DOMAIN view.results : i <= MaxResults /\ Inside(ResultRow(i), x, y)}

HomeTap(view, x, y, none) ==
  IF TilesHit(view, x, y) = {} THEN Nothing(none)
  ELSE [do |-> "connect",
        mac |-> view.hosts[CHOOSE i \in TilesHit(view, x, y) : TRUE].mac]

DialogTap(view, x, y, none) ==
  CASE Inside(YesButton, x, y) -> [do |-> "yes", mac |-> view.confirm]
    [] Inside(NoButton, x, y)  -> [do |-> "no", mac |-> view.confirm]
    [] OTHER                   -> Nothing(none)

OverlayTap(view, x, y, none) ==
  CASE Inside(CloseButton, x, y) -> [do |-> "close", mac |-> none]
    [] RowsHit(view, x, y) # {} ->
         [do  |-> IF x >= DeleteFrom THEN "delete" ELSE "connect",
          mac |-> view.hosts[CHOOSE i \in RowsHit(view, x, y) : TRUE].mac]
    [] Inside(ScanButton, x, y) -> [do |-> "scan", mac |-> none]
    [] ResultsHit(view, x, y) # {} ->
         [do  |-> "connect",
          mac |-> view.results[CHOOSE i \in ResultsHit(view, x, y) : TRUE]]
    [] OTHER -> Nothing(none)

HitTest(view, x, y, none) ==
  IF ~view.overlay THEN HomeTap(view, x, y, none)
  ELSE IF view.confirm # none THEN DialogTap(view, x, y, none)
  ELSE OverlayTap(view, x, y, none)
=============================================================================
