\* A derived layer and a scan that needs a review, published while requests overlap or not.
SPECIFICATION Spec
\* Publications and edits are counted up to their bounds.
CHECK_DEADLOCK FALSE
SYMMETRY TileSymmetry
CONSTANTS
    Dataset = {layer, scan}
    Official = {layer}
    Raster = {scan}
    Drawn = {scan}
    Publisher = {p1}
    Editor = {e1}
    Reviewer = {r1}
    Tile = {t1, t2}
    None = None
    Modes = {TRUE, FALSE}
    MaxEdits = 2
    MaxPubs = 2
INVARIANTS
    TypeOK
    ApprovalStands
PROPERTIES
    OrderlyPublishesReviewed
    ArchiveIsWhole
