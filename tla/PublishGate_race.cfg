\* A publication without allow_unreviewed, other requests in between.
SPECIFICATION Spec
\* Publications and edits are counted up to their bounds.
CHECK_DEADLOCK FALSE
SYMMETRY TileSymmetry
CONSTANTS
    Dataset = {layer, scan}
    Official = {layer}
    Raster = {scan}
    Drawn = {scan}
    Publisher = {p1}
    Editor = {e1}
    Reviewer = {r1}
    Tile = {t1, t2}
    None = None
    Modes = {FALSE}
    MaxEdits = 1
    MaxPubs = 2
PROPERTIES
    PublishesReviewed
