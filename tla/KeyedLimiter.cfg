\* Four jobs on a pool of two slots, and beside them two walks over a workspace.
SPECIFICATION MCSpec
CONSTANTS
  j1 = j1  j2 = j2  j3 = j3  j4 = j4
  k1 = k1
  NoState = NoState
  Jobs = {j1, j2, j3, j4}
  Keys = {k1}
  KeyOf <- MCKeyOf
  Limit <- MCLimit
  Root = "root"
  Places = {"readme", "src", "src/a", "dist", "dist/b"}
  Above <- MCAbove
  Ignored = {"dist"}
  Contents = {"x", "y"}
  Far = "far"
  MaxEdits = 2
INVARIANTS
  LimitHolds
  NoIdleSlot
  ChangesAreReported
PROPERTIES
  ImplementsPool
