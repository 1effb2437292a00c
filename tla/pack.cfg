CONSTANTS
    vision = vision
    action = action
    Graphs <- MCGraphs
    BuildTrees <- MCBuildTrees
    MaxPacks = 2
    MaxExports = 1
    MaxCheckouts = 2
    None = None
    Partial = Partial
SPECIFICATION Spec
INVARIANTS BundleIsItsManifest FixturesAreOnWire
