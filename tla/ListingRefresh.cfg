SPECIFICATION MCSpec
CONSTANTS
  Listing = {1, 2}
  Refresh = {r1, r2}
  Part = {"active"}
  PageSize = 1
  Operation = {"create", "update", "delete", "deleteAll"}
  Fault = {"page", "operation", "expire"}
  MaxChanges = 2
INVARIANT TypeOK
INVARIANT CreatedKept
INVARIANT DeletedGone
SYMMETRY Symmetry
