SPECIFICATION Spec
CONSTANTS
  Users = {ada, ben}
  Requests = {r1, r2}
  NoOne = NoOne
  Setting = Setting
  Limits = {1, 2}
  Patches <- OneFieldPatches
SYMMETRY Symmetries
INVARIANT ResetPasswordStands
