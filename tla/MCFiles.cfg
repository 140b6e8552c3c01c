SPECIFICATION Spec
CONSTANTS
    Name = {f, g}
    Value = {x}
    LastSector = 11
    DIRECT_BLOCKS_COUNT = 1
    INDIRECT_BLOCKS_PER_SECTOR = 2
    CreateSizes <- MCCreateSizes
    WriteSizes <- MCWriteSizes
    LoadSizes = {2}
    MaxFd = 2
    MaxFiles = 2
    MaxCreates = 2
    MaxBoots = 1
INVARIANTS SectorsOnce NoLeak FileKept DescriptorKept OpenCount BootsAgain
SYMMETRY Symmetry
CHECK_DEADLOCK FALSE
