\* Tiles of four hashes, four levels of them: any succession of rounds,
\* dropped rounds and restarts from the empty tree to 70 leaves.
CONSTANTS
    TileWidth = 4
    Height = 2
    MaxLevel = 3
    MaxSize = 70
    MaxRound = 9
SPECIFICATION Spec
INVARIANTS
    TypeOK
    EveryHashFound
    UploadsExact
    DataTileRight
    ReloadAgrees
    EdgeTilesRight
